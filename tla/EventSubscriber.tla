---------------------------- MODULE EventSubscriber ----------------------------
(***************************************************************************)
(* EventSubscriber (libs/common/event_bus.py): one consumer of one         *)
(* partition, through its lives.  A life begins with start(), runs         *)
(* consume(), may be ended by stop() called from another task, or by a     *)
(* crash; the next one resumes where the group's committed offset stands.  *)
(*                                                                         *)
(* Message m is the one at offset m - 1, so that position and committed    *)
(* count messages.  commit() without arguments commits the position, which *)
(* is past the message in hand.  AIOKafkaProducer.send only puts a record  *)
(* into the producer's buffer; whether it reaches the topic is told by a   *)
(* future that _send_to_dlq does not await.  Metrics and logging are       *)
(* write-only and left out.                                                *)
(***************************************************************************)
EXTENDS Integers, FiniteSets

CONSTANTS
  NumMessages,        \* messages of the partition
  AutoCommitModes,    \* values of enable_auto_commit, False by default
  MaxMalformed,       \* bound: messages that cannot be parsed
  MaxLives            \* bound: how often the subscriber is started

Messages == 1..NumMessages

ASSUME SubscriberAssumption ==
  /\ NumMessages \in Nat \ {0}
  /\ AutoCommitModes \in (SUBSET BOOLEAN) \ {{}}
  /\ MaxMalformed \in Nat
  /\ MaxLives \in Nat \ {0}

VARIABLES
  enable_auto_commit,   \* EventSubscriber.enable_auto_commit
  malformed,    \* messages that value_deserializer cannot parse
  pc,           \* the await at which consume() stands
  _running,     \* EventSubscriber._running
  clients,      \* the consumer and the DLQ producer: which are still open
  position,     \* messages the consumer has handed out
  committed,    \* messages the group has committed
  dlq_buffer,   \* messages in the buffer of the DLQ producer
  dlq,          \* messages in the dead letter topic
  lives,        \* number of starts so far
  handled,      \* how often the handler returned for each message
  refused,      \* messages whose handler, or whose from_dict, has raised
  dropped       \* messages whose way to the dead letter topic has failed

lifeVars == <<lives, enable_auto_commit, malformed>>
loopVars == <<pc, _running, clients, position, lifeVars>>
dlqVars == <<dlq_buffer, dlq, dropped>>
effectVars == <<handled, refused>>
vars == <<loopVars, committed, dlqVars, effectVars>>

Busy == {"polling", "handling", "committing", "dead_lettering"}
Ended == {"down", "returned", "failed"}

SubscriberTypeOK ==
  /\ enable_auto_commit \in BOOLEAN
  /\ malformed \subseteq Messages
  /\ pc \in Busy \cup Ended
  /\ _running \in BOOLEAN
  /\ clients \in {"open", "consumer_closed", "closed"}
  /\ position \in 0..NumMessages
  /\ committed \in 0..NumMessages
  /\ dlq_buffer \subseteq Messages /\ dlq \subseteq Messages /\ dropped \subseteq Messages
  /\ lives \in 0..MaxLives
  /\ handled \in [Messages -> Nat]
  /\ refused \subseteq Messages

Init ==
  /\ enable_auto_commit \in AutoCommitModes
  /\ malformed \in {M \in SUBSET Messages : Cardinality(M) <= MaxMalformed}
  /\ pc = "down"
  /\ _running = FALSE
  /\ clients = "closed"
  /\ position = 0
  /\ committed = 0
  /\ dlq_buffer = {} /\ dlq = {} /\ dropped = {}
  /\ lives = 0
  /\ handled = [m \in Messages |-> 0]
  /\ refused = {}

ResumesAt == committed

\* start() of a new subscriber: both clients up, then _running, then consume().
Start ==
  /\ pc \in Ended
  /\ clients = "closed"
  /\ lives < MaxLives
  /\ lives' = lives + 1
  /\ pc' = "polling"
  /\ _running' = TRUE
  /\ clients' = "open"
  /\ position' = ResumesAt
  /\ UNCHANGED <<enable_auto_commit, malformed, committed, dlqVars, effectVars>>

-------------------------------------------------------------------------------
(* consume() *)

\* Faulty variant: the loop skips messages until the iterator ends.
SkipsOn == "polling"

OnceStopped == "returned"

HasNext == position < NumMessages

\* The iterator hands out a message; the loop looks at _running only now.
Deliver ==
  /\ pc = "polling"
  /\ clients = "open"
  /\ HasNext
  /\ position + 1 \notin malformed
  /\ position' = position + 1
  /\ pc' = IF _running THEN "handling" ELSE OnceStopped
  /\ UNCHANGED <<_running, clients, lifeVars, committed, dlqVars, effectVars>>

\* Faulty variant: the error is caught, and the iterator asked again.
PollsAgain == "polling"

OnMalformed == "failed"

\* The deserializer runs inside the iterator, which is outside the try.
DeserializerRaises ==
  /\ pc = "polling"
  /\ clients = "open"
  /\ position + 1 \in malformed
  /\ pc' = OnMalformed
  /\ UNCHANGED <<_running, clients, position, lifeVars, committed, dlqVars, effectVars>>

\* The iterator ends once the consumer is closed.
IterationEnds ==
  /\ pc = "polling"
  /\ clients # "open"
  /\ pc' = "returned"
  /\ UNCHANGED <<_running, clients, position, lifeVars, committed, dlqVars, effectVars>>

HandlerReturns ==
  /\ pc = "handling"
  /\ handled' = [handled EXCEPT ![position] = @ + 1]
  /\ pc' = IF enable_auto_commit THEN "polling" ELSE "committing"
  /\ UNCHANGED <<_running, clients, position, lifeVars, committed, dlqVars, refused>>

\* Faulty variants of the except branch: nothing is sent, or it tries again.
Forgotten == "polling"
TriedAgain == "handling"

ToDeadLetters == "dead_lettering"

HandlerRaises ==
  /\ pc = "handling"
  /\ refused' = refused \cup {position}
  /\ pc' = ToDeadLetters
  /\ UNCHANGED <<_running, clients, position, lifeVars, committed, dlqVars, handled>>

\* Faulty variant: the offset is one too far.
CommitsAhead == IF position < NumMessages THEN position + 1 ELSE position

CommitsTo == position

CommitReturns ==
  /\ pc = "committing"
  /\ clients = "open"
  /\ committed' = CommitsTo
  /\ pc' = "polling"
  /\ UNCHANGED <<_running, clients, position, lifeVars, dlqVars, effectVars>>

\* The commit raises, with or without effect at the broker: the except
\* branch is the one for handler errors.
CommitRaises ==
  /\ pc = "committing"
  /\ \/ UNCHANGED committed
     \/ clients = "open" /\ committed' = CommitsTo
  /\ pc' = ToDeadLetters
  /\ UNCHANGED <<_running, clients, position, lifeVars, dlqVars, effectVars>>

\* send() returns as soon as the record is in the buffer.
DeadLetterSent ==
  /\ pc = "dead_lettering"
  /\ clients # "closed"
  /\ dlq_buffer' = dlq_buffer \cup {position}
  /\ pc' = "polling"
  /\ UNCHANGED <<_running, clients, position, lifeVars, committed, dlq, dropped, effectVars>>

\* send() raises: the error is logged and the loop goes on.
DeadLetterRaises ==
  /\ pc = "dead_lettering"
  /\ dropped' = dropped \cup {position}
  /\ pc' = "polling"
  /\ UNCHANGED <<_running, clients, position, lifeVars, committed, dlq_buffer, dlq, effectVars>>

-------------------------------------------------------------------------------
(* stop(), called from another task while consume() is at any await *)

StopBegins ==
  /\ pc # "down"
  /\ _running
  /\ _running' = FALSE
  /\ UNCHANGED <<pc, clients, position, lifeVars, committed, dlqVars, effectVars>>

\* With auto commit the client commits the position from time to time, and
\* once more when it is closed.
CommittedByClient == position

ConsumerCloses ==
  /\ pc # "down"
  /\ ~_running
  /\ clients = "open"
  /\ clients' = "consumer_closed"
  /\ committed' \in {committed} \cup (IF enable_auto_commit THEN {CommittedByClient} ELSE {})
  /\ UNCHANGED <<pc, _running, position, lifeVars, dlqVars, effectVars>>

\* The DLQ producer flushes its buffer, as far as the broker answers.
DlqCloses ==
  /\ clients = "consumer_closed"
  /\ clients' = "closed"
  /\ \E lost \in SUBSET dlq_buffer :
       /\ dropped' = dropped \cup lost
       /\ dlq' = dlq \cup (dlq_buffer \ lost)
  /\ dlq_buffer' = {}
  /\ UNCHANGED <<pc, _running, position, lifeVars, committed, effectVars>>

-------------------------------------------------------------------------------
(* The clients' background tasks, and the process *)

AutoCommit ==
  /\ enable_auto_commit
  /\ clients = "open"
  /\ committed' = CommittedByClient
  /\ UNCHANGED <<loopVars, dlqVars, effectVars>>

DlqDelivers(m) ==
  /\ m \in dlq_buffer
  /\ dlq_buffer' = dlq_buffer \ {m}
  /\ \/ dlq' = dlq \cup {m} /\ UNCHANGED dropped
     \/ dropped' = dropped \cup {m} /\ UNCHANGED dlq
  /\ UNCHANGED <<loopVars, committed, effectVars>>

Crash ==
  /\ pc # "down"
  /\ pc' = "down"
  /\ _running' = FALSE
  /\ clients' = "closed"
  /\ dropped' = dropped \cup dlq_buffer
  /\ dlq_buffer' = {}
  /\ UNCHANGED <<position, lifeVars, committed, dlq, effectVars>>

Idle == pc \in Ended /\ UNCHANGED vars
Caught == pc = "polling" /\ position = NumMessages /\ UNCHANGED vars

Consuming ==
  \/ Deliver \/ DeserializerRaises \/ IterationEnds \/ HandlerReturns \/ HandlerRaises
  \/ CommitReturns \/ CommitRaises \/ DeadLetterSent \/ DeadLetterRaises

Next ==
  \/ Start \/ Consuming
  \/ StopBegins \/ ConsumerCloses \/ DlqCloses
  \/ AutoCommit \/ (\E m \in Messages : DlqDelivers(m))
  \/ Crash \/ Idle \/ Caught

Spec == Init /\ [][Next]_vars

(* consume() is resumed as long as it has something to do.  The code bounds*)
(* neither the handler nor the commit: that both end is an assumption on   *)
(* them.  Nothing is assumed of stops, crashes and restarts.               *)
FairSpec == Spec /\ WF_vars(Consuming)

-------------------------------------------------------------------------------
HandledSet == {m \in Messages : handled[m] > 0}

(* The loop with its commits, restarts and stops keeps the delivery        *)
(* contract: in order, at least once, and the committed offset passes no   *)
(* message that was neither handled nor refused.  That is for manual       *)
(* commits: nothing is asked here of a subscriber with auto commit.        *)
Delivery == INSTANCE EventDelivery WITH
  frontier <- IF enable_auto_commit THEN 0 ELSE committed,
  seen     <- IF enable_auto_commit THEN {} ELSE HandledSet,
  given_up <- IF enable_auto_commit THEN {} ELSE refused

ImplementsDelivery == Delivery!Spec

(* A message that the group will not see again and that was refused every  *)
(* time it was delivered has been put on its way to the dead letter topic, *)
(* even when the commit that passed it belongs to a later message.         *)
RefusedOnTheirWay ==
  ~enable_auto_commit =>
    \A m \in 1..committed : handled[m] = 0 => m \in dlq_buffer \cup dlq \cup dropped

(* Duplicates come from restarts and from nothing else: in one life a      *)
(* message is handled at most once, whatever its commit and the sends do.  *)
OncePerLife == \A m \in Messages : handled[m] <= lives

(* With auto commit the damage is bounded: each life loses at most the     *)
(* message it had in hand when it ended.                                   *)
OneLostPerLife ==
  Cardinality({m \in 1..committed : m \notin HandledSet \cup refused}) <= lives

(* A message that cannot be parsed is a wall: it is not committed, in this *)
(* life or in a later one, and nothing behind it is ever delivered.        *)
MalformedHoldUp ==
  \A bad \in malformed :
    /\ committed < bad
    /\ \A m \in bad..NumMessages : m \notin HandledSet \cup refused \cup dlq

(* One refused message, one failed commit or one failed send does not hold *)
(* up the partition: a subscriber that is running settles every message,   *)
(* unless it is stopped, crashes, or fails at a malformed one.  (With auto *)
(* commit it need not settle what an earlier life has lost.)               *)
GetsThrough ==
  \A m \in Messages :
    (pc = "polling" /\ ~enable_auto_commit)
      ~> (m \in HandledSet \cup refused \/ pc \in Ended \/ ~_running)
===============================================================================
