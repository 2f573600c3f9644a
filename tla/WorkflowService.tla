---------------------------- MODULE WorkflowService ----------------------------
(***************************************************************************)
(* The workflow service process (services/workflow_service/main.py): the   *)
(* orchestrator with its sagas, the main coroutine start(), the signal     *)
(* handlers, and the shutdown() that both of them call.                    *)
(*                                                                         *)
(* Time passes in seconds: a sleep is a counter that Tick decrements, and  *)
(* Tick waits for a sleeper whose time has come.  A second is long against *)
(* the time a task takes to resume, so a task that is ready also goes      *)
(* before the clock.  How long sagas take is left open.                    *)
(***************************************************************************)
EXTENDS SagaOrchestrator

CONSTANTS PollInterval,   \* the sleep of the main loop
          GracePeriod,    \* the sleep of shutdown()
          MaxSignals,     \* bound: SIGINT and SIGTERM received
          MayCancelMain   \* something may cancel the task that runs start()

ASSUME ServiceAssumption ==
  /\ PollInterval \in Nat \ {0} /\ GracePeriod \in Nat \ {0} /\ MaxSignals \in Nat
  /\ MayCancelMain \in BOOLEAN

\* Who calls shutdown(): start() itself, and a task for each signal.
Start == 0
SignalTasks == 1..MaxSignals
Callers == SignalTasks \cup {Start}

VARIABLES
  _running,        \* WorkflowServiceApp._running
  main,            \* start(): "polling", "shutting_down" or "exited"
  poll,            \* seconds left of the main loop's sleep
  shutdown,        \* each call of shutdown(): "none", "queued", "sleeping" or "returned"
  grace,           \* seconds left of the sleep of each call
  closings         \* calls of ObservabilityManager.shutdown so far

serviceVars == <<_running, main, poll, shutdown, grace, closings>>
allVars == <<orchVars, serviceVars>>

ServiceTypeOK ==
  /\ OrchTypeOK
  /\ _running \in BOOLEAN
  /\ main \in {"polling", "shutting_down", "exited"}
  /\ poll \in 0..PollInterval
  /\ shutdown \in [Callers -> {"none", "queued", "sleeping", "returned"}]
  /\ grace \in [Callers -> 0..GracePeriod]
  /\ closings \in Nat

\* initialize() is done, _running is set and the handlers are installed.
ServiceInit ==
  /\ OrchInit
  /\ _running = TRUE
  /\ main = "polling"
  /\ poll = PollInterval
  /\ shutdown = [c \in Callers |-> "none"]
  /\ grace = [c \in Callers |-> 0]
  /\ closings = 0

Sleeping(c) == shutdown[c] = "sleeping"

Signalled == \E c \in SignalTasks : shutdown[c] # "none"

\* The signal handler: create_task(self.shutdown()).  Signals are numbered as
\* they arrive.
Signal(c) ==
  /\ loop = "open"
  /\ shutdown[c] = "none"
  /\ \A b \in SignalTasks : b < c => shutdown[b] # "none"
  /\ shutdown' = [shutdown EXCEPT ![c] = "queued"]
  /\ UNCHANGED <<orchVars, _running, main, poll, grace, closings>>

\* Faulty variants: shutdown() does not look at _running, or the wrong way.
ShutdownUnguarded == TRUE
ShutdownInverted == ~_running

FirstShutdown == _running

(* A call of shutdown() up to its first await: it returns if another has   *)
(* begun, else it looks at the active sagas once, and sleeps if there are  *)
(* any.                                                                    *)
CallShutdown(c) ==
  \/ /\ ~FirstShutdown
     /\ shutdown' = [shutdown EXCEPT ![c] = "returned"]
     /\ UNCHANGED <<_running, grace, closings>>
  \/ /\ FirstShutdown /\ running # {}
     /\ _running' = FALSE
     /\ shutdown' = [shutdown EXCEPT ![c] = "sleeping"]
     /\ grace' = [grace EXCEPT ![c] = GracePeriod]
     /\ UNCHANGED closings
  \/ /\ FirstShutdown /\ running = {}
     /\ _running' = FALSE
     /\ shutdown' = [shutdown EXCEPT ![c] = "returned"]
     /\ closings' = closings + 1
     /\ UNCHANGED grace

\* The oldest of the queued shutdown tasks runs to its sleep or to its end.
ShutdownTaskRuns(c) ==
  /\ loop = "open"
  /\ shutdown[c] = "queued"
  /\ \A b \in SignalTasks : b < c => shutdown[b] # "queued"
  /\ CallShutdown(c)
  /\ UNCHANGED <<orchVars, main, poll>>

\* start() returns, and asyncio.run cancels every other task, also a call of
\* shutdown() in its sleep.
StartReturns == main' = "exited" /\ CloseLoop

\* The sleep(5) of a call is over.
GraceEnds(c) ==
  /\ loop = "open"
  /\ Sleeping(c)
  /\ grace[c] = 0
  /\ shutdown' = [shutdown EXCEPT ![c] = "returned"]
  /\ closings' = closings + 1
  /\ \/ c = Start /\ StartReturns
     \/ c # Start /\ UNCHANGED <<orchVars, main>>
  /\ UNCHANGED <<_running, poll, grace>>

\* The finally block of start().
OwnShutdown ==
  /\ CallShutdown(Start)
  /\ \/ shutdown'[Start] = "sleeping" /\ main' = "shutting_down" /\ UNCHANGED orchVars
     \/ shutdown'[Start] = "returned" /\ StartReturns

PollAgain == _running

\* The main loop wakes up, and leaves the loop once _running is cleared.
MainWakes ==
  /\ main = "polling"
  /\ poll = 0
  /\ \/ /\ PollAgain
        /\ poll' = PollInterval
        /\ UNCHANGED <<orchVars, _running, main, shutdown, grace, closings>>
     \/ /\ ~PollAgain
        /\ OwnShutdown
        /\ UNCHANGED poll

\* start() is cancelled from outside, which serve() itself never does: it
\* swallows CancelledError and shuts down, unless a signal was first.
MainCancelled ==
  /\ MayCancelMain
  /\ main = "polling"
  /\ OwnShutdown
  /\ UNCHANGED poll

Asleep(left) == IF left > 0 THEN left - 1 ELSE 0

Tick ==
  /\ loop = "open"
  /\ main = "polling" => poll > 0
  /\ \A c \in Callers : shutdown[c] # "queued" /\ (Sleeping(c) => grace[c] > 0)
  /\ poll' = Asleep(poll)
  /\ grace' = [c \in Callers |-> Asleep(grace[c])]
  /\ UNCHANGED <<orchVars, _running, main, shutdown, closings>>

Orchestration ==
  /\ \E i \in Sagas : StartSaga(i) \/ SagaMoves(i) \/ CancelSaga(i)
  /\ UNCHANGED serviceVars

Exited == main = "exited" /\ UNCHANGED allVars

ServiceNext ==
  \/ Orchestration \/ MainWakes \/ MainCancelled \/ Tick \/ Exited
  \/ \E c \in SignalTasks : Signal(c) \/ ShutdownTaskRuns(c)
  \/ \E c \in Callers : GraceEnds(c)

ServiceSpec == ServiceInit /\ [][ServiceNext]_allVars

\* The clock goes on, and the event loop resumes what is ready: the service's
\* own coroutines, and every saga that does not hang in a callback.
SagaResumes(i) == SagaMoves(i) /\ ~InCallback(i) /\ UNCHANGED serviceVars
ServiceResumes ==
  \/ MainWakes
  \/ \E c \in SignalTasks : ShutdownTaskRuns(c)
  \/ \E c \in Callers : GraceEnds(c)

FairServiceSpec ==
  /\ ServiceSpec
  /\ WF_allVars(Tick)
  /\ WF_allVars(ServiceResumes)
  /\ \A i \in Sagas : WF_allVars(SagaResumes(i))

-------------------------------------------------------------------------------
(* However many parties call shutdown(), and wherever their calls fall     *)
(* between each other's awaits, the telemetry is closed at most once, and  *)
(* not while any of the calls still waits for the sagas.                   *)
TelemetryClosedOnce ==
  /\ closings <= 1
  /\ closings = 1 => ~_running /\ \A c \in Callers : ~Sleeping(c)

(* A signal ends the process, whatever the sagas do: a saga that hangs does*)
(* not keep the service alive.                                             *)
SignalEndsService == Signalled ~> (main = "exited")

(* main.py, "Wait for running sagas to complete or timeout": when the      *)
(* service exits, no saga has been cut off while a call of shutdown() was  *)
(* still waiting.                                                          *)
ShutdownWaits ==
  main = "exited" /\ (\E i \in Started : stage[i] = "aborted") =>
    \A c \in Callers : ~Sleeping(c)
===============================================================================
