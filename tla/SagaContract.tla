----------------------------- MODULE SagaContract -----------------------------
(***************************************************************************)
(* What a saga promises to the caller that starts it, without the retries, *)
(* timeouts, status labels and callbacks with which SagaInstance keeps the *)
(* promise: steps complete one at a time and in order; either all of them  *)
(* complete and nothing is undone, or, from the failure on, no step        *)
(* completes any more and every completed step that has a compensation is  *)
(* handled exactly once, the latest first.  "Handled" is the most the      *)
(* framework promises: a compensation is tried once, and may fail.         *)
(***************************************************************************)
EXTENDS Integers

CONSTANTS NumSteps,       \* number of steps of the definition
          Compensatable   \* the steps that have a compensation to run

VARIABLES phase,     \* "forward", "unwinding", "committed" or "unwound"
          forward,   \* how many steps have completed
          handled    \* the steps whose compensation has been tried

vars == <<phase, forward, handled>>

ToUndo == {s \in Compensatable : s <= forward}

Init == phase = "forward" /\ forward = 0 /\ handled = {}

(* The last completion may commit in the same step, or the commit follows  *)
(* once the success callback is over.                                      *)
StepCompletes ==
  /\ phase = "forward"
  /\ forward < NumSteps
  /\ forward' = forward + 1
  /\ phase' \in IF forward' = NumSteps THEN {"forward", "committed"}
                                       ELSE {"forward"}
  /\ UNCHANGED handled

Commit ==
  /\ phase = "forward"
  /\ forward = NumSteps
  /\ phase' = "committed"
  /\ UNCHANGED <<forward, handled>>

(* A failure is possible even after the last completion: a success         *)
(* callback that raises unwinds the whole saga.                            *)
Fail ==
  /\ phase = "forward"
  /\ phase' \in IF ToUndo = {} THEN {"unwinding", "unwound"} ELSE {"unwinding"}
  /\ UNCHANGED <<forward, handled>>

Undo(s) ==
  /\ phase = "unwinding"
  /\ s \in ToUndo \ handled
  /\ \A t \in ToUndo \ handled : t <= s
  /\ handled' = handled \cup {s}
  /\ phase' \in IF handled' = ToUndo THEN {"unwinding", "unwound"}
                                     ELSE {"unwinding"}
  /\ UNCHANGED forward

Unwound ==
  /\ phase = "unwinding"
  /\ handled = ToUndo
  /\ phase' = "unwound"
  /\ UNCHANGED <<forward, handled>>

Next == StepCompletes \/ Commit \/ Fail \/ (\E s \in Compensatable : Undo(s)) \/ Unwound

Spec == Init /\ [][Next]_vars
===============================================================================
