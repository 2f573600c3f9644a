----------------------------- MODULE EventDelivery -----------------------------
(***************************************************************************)
(* What a subscriber of the event bus promises for the messages of one     *)
(* partition, without its loop, its commits, its dead letter queue and its *)
(* restarts: messages are taken in order; each one is handled, or given up *)
(* after its handler failed; the frontier of what will never be delivered  *)
(* again moves only over messages that one or the other has happened to,   *)
(* and nothing behind it is touched any more.                              *)
(***************************************************************************)
EXTENDS Integers

CONSTANT NumMessages

Messages == 1..NumMessages

VARIABLES frontier,   \* the messages up to here are not delivered again
          seen,       \* the messages whose handler has returned
          given_up    \* the messages whose handler has raised

vars == <<frontier, seen, given_up>>

Init == frontier = 0 /\ seen = {} /\ given_up = {}

Settled == seen \cup given_up

(* At least once: a message in front of the frontier may be handled again. *)
InTurn(m) == m > frontier /\ 1..(m - 1) \subseteq Settled

Handle(m) ==
  /\ InTurn(m)
  /\ seen' = seen \cup {m}
  /\ UNCHANGED <<frontier, given_up>>

GiveUp(m) ==
  /\ InTurn(m)
  /\ given_up' = given_up \cup {m}
  /\ UNCHANGED <<frontier, seen>>

Advance(m) ==
  /\ m > frontier
  /\ 1..m \subseteq Settled
  /\ frontier' = m
  /\ UNCHANGED <<seen, given_up>>

Next == \E m \in Messages : Handle(m) \/ GiveUp(m) \/ Advance(m)

Spec == Init /\ [][Next]_vars
===============================================================================
