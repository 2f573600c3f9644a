--------------------------- MODULE MCEventSubscriber ---------------------------
(***************************************************************************)
(* A partition of three messages, one of which may be malformed, and two   *)
(* lives with manual or auto commits: a message can be refused in one life,*)
(* handled in the next and followed by others in both.                     *)
(***************************************************************************)
EXTENDS EventSubscriber
===============================================================================
