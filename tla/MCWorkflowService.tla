--------------------------- MODULE MCWorkflowService ---------------------------
(***************************************************************************)
(* The service with two sagas and two signals, and the sleeps of main.py:  *)
(* the main loop polls every second, shutdown() sleeps for five.           *)
(***************************************************************************)
EXTENDS WorkflowService
===============================================================================
