-------------------------- MODULE CaptureOrchestrator --------------------------
(***************************************************************************)
(* The single-flight capture orchestrator of RUNE                          *)
(* (adapters/capture/orchestrator.py).                                     *)
(*                                                                         *)
(* Everything runs on one asyncio event loop, so an action is what one     *)
(* callback does between two suspensions.  start_capture acquires a lock,  *)
(* starts the provider and creates a task; the task waits for the          *)
(* provider, stops it, tells the listeners and releases the lock.          *)
(* cancel_capture cancels the task and waits for it to be done.            *)
(*                                                                         *)
(* A session is told apart from a later one with the same id by a serial   *)
(* number, which also stands for its provider (every learn call builds a   *)
(* provider of its own) and for what it captures.                          *)
(***************************************************************************)
EXTENDS Naturals

CONSTANTS
  Sessions,         \* session ids, "<device_id>.<command_key>"
  Callers,          \* who may call cancel_capture
  Listeners,        \* callbacks that may be subscribed
  None,             \* Python's None
  MaxSerial,        \* bound on the sessions opened
  ProviderSuspends  \* may the provider's start and stop suspend?  They may by
                    \* the CaptureProvider contract; no provider in use does

ASSUME OrchestratorAssumption ==
  /\ None \notin Sessions
  /\ MaxSerial \in Nat
  /\ ProviderSuspends \in BOOLEAN

VARIABLES
  lock,        \* _lock.locked()
  active,      \* _active_session_id
  starting,    \* is a start_capture suspended in the provider's start?
  task,        \* _task, with the arguments its coroutine closed over
  results,     \* _results: the serial of the capture a session id holds, or 0
  armed,       \* serials of the providers that were started and not stopped
  awaiting,    \* callers suspended in cancel_capture at "await self._task"
  subscribed,  \* subscribed[k]: the session whose listeners k is among, or None
  heard,       \* heard[k]: how often k was called back since it subscribed, and
               \* with which state the last time
  serial       \* serial of the latest session

vars == <<lock, active, starting, task, results, armed, awaiting, subscribed,
          heard, serial>>

-------------------------------------------------------------------------------
Endings == {"captured", "timeout", "error", "cancelled"}

\* Where the task's coroutine is: not begun, in the provider's wait, in the
\* provider's stop; "dead" is a finished task that _task still points to.
Live == {"created", "waiting", "stopping"}

Tasks == [at : Live \cup {"none", "dead"}, session : Sessions \cup {None},
          serial : Nat, cancel : BOOLEAN, ending : Endings \cup {"none"}]

NoTask == [at |-> "none", session |-> None, serial |-> 0, cancel |-> FALSE,
           ending |-> "none"]

NewTask(s, n) == [at |-> "created", session |-> s, serial |-> n,
                  cancel |-> FALSE, ending |-> "none"]

Silence == [state |-> "nothing", calls |-> 0]

TypeOK ==
  /\ lock \in BOOLEAN
  /\ active \in Sessions \cup {None}
  /\ starting \in BOOLEAN
  /\ task \in Tasks
  /\ results \in [Sessions -> Nat]
  /\ armed \in SUBSET Nat
  /\ awaiting \in SUBSET Callers
  /\ subscribed \in [Listeners -> Sessions \cup {None}]
  /\ heard \in [Listeners ->
                  [state : Endings \cup {"nothing", "listening"}, calls : Nat]]
  /\ serial \in Nat

Init ==
  /\ lock = FALSE
  /\ active = None
  /\ starting = FALSE
  /\ task = NoTask
  /\ results = [s \in Sessions |-> 0]
  /\ armed = {}
  /\ awaiting = {}
  /\ subscribed = [k \in Listeners |-> None]
  /\ heard = [k \in Listeners |-> Silence]
  /\ serial = 0

-------------------------------------------------------------------------------
\* Mutant: only a task inside the provider's wait counts as capturing.
IsCapturingWaiting == task.at = "waiting"

IsCapturing == lock /\ active # None

\* Every callback subscribed to session s is called with state e.
Notify(s, e) ==
  heard' = [k \in Listeners |-> IF subscribed[k] = s
                               THEN [state |-> e, calls |-> heard[k].calls + 1]
                               ELSE heard[k]]

\* Cleanup and the release of the lock, by the task that is about to end:
\* the callers awaiting that task resume.
Finalize ==
  /\ lock' = FALSE
  /\ active' = None
  /\ task' = NoTask
  /\ awaiting' = {}

\* Mutant: the old result is kept.
AcquireKeepsResult(s) ==
  /\ ~lock
  /\ serial < MaxSerial
  /\ serial' = serial + 1
  /\ UNCHANGED results

\* start_capture past its two guards (the lock is free, the provider is
\* available): the lock is acquired and the old result of s is dropped.
Acquire(s) ==
  /\ ~lock
  /\ serial < MaxSerial
  /\ serial' = serial + 1
  /\ results' = [results EXCEPT ![s] = 0]

\* The provider started: LISTENING is announced and the task created.
Listen(s, n) ==
  /\ lock' = TRUE
  /\ active' = s
  /\ starting' = FALSE
  /\ armed' = armed \cup {n}
  /\ task' = NewTask(s, n)
  /\ Notify(s, "listening")
  /\ UNCHANGED <<awaiting, subscribed>>

Start(s) ==
  /\ Acquire(s)
  /\ Listen(s, serial + 1)

\* Mutant: the start raises and the lock is not released.
StartRaisesLocked(s) ==
  /\ Acquire(s)
  /\ lock' = TRUE
  /\ UNCHANGED <<active, starting, task, armed, awaiting, subscribed, heard>>

\* The provider's start raises: cleanup, release, and the caller gets the error.
StartRaises(s) ==
  /\ Acquire(s)
  /\ UNCHANGED <<lock, active, starting, task, armed, awaiting, subscribed, heard>>

StartSuspends(s) ==
  /\ ProviderSuspends
  /\ Acquire(s)
  /\ lock' = TRUE
  /\ active' = s
  /\ starting' = TRUE
  /\ UNCHANGED <<task, armed, awaiting, subscribed, heard>>

StartResumes ==
  /\ starting
  /\ Listen(active, serial)
  /\ UNCHANGED <<results, serial>>

\* Mutant: the same after a start that suspended.
StartResumesRaisingLocked ==
  /\ starting
  /\ active' = None
  /\ starting' = FALSE
  /\ UNCHANGED <<lock, task, results, armed, awaiting, subscribed, heard, serial>>

StartResumesRaising ==
  /\ starting
  /\ lock' = FALSE
  /\ active' = None
  /\ starting' = FALSE
  /\ UNCHANGED <<task, results, armed, awaiting, subscribed, heard, serial>>

\* cancel_capture has a task to cancel: the session is the active one and its
\* task exists and is not done.
CanCancel(s) == active = s /\ task.at \in Live

\* Mutant: cancel_capture releases the lock itself.
CancelTaskReleasing(c) ==
  /\ c \notin awaiting
  /\ task' = [task EXCEPT !.cancel = TRUE]
  /\ awaiting' = awaiting \cup {c}
  /\ lock' = FALSE
  /\ UNCHANGED <<active, starting, results, armed, subscribed, heard, serial>>

CancelTask(c) ==
  /\ c \notin awaiting
  /\ task' = [task EXCEPT !.cancel = TRUE]
  /\ awaiting' = awaiting \cup {c}
  /\ UNCHANGED <<lock, active, starting, results, armed, subscribed, heard, serial>>

\* cancel_capture(s) called by c; otherwise than above it returns at once.
Cancel(c, s) == CanCancel(s) /\ CancelTask(c)

Subscribe(k, s) ==
  /\ subscribed[k] = None
  /\ subscribed' = [subscribed EXCEPT ![k] = s]
  /\ heard' = [heard EXCEPT ![k] = Silence]
  /\ UNCHANGED <<lock, active, starting, task, results, armed, awaiting, serial>>

Unsubscribe(k) ==
  /\ subscribed[k] # None
  /\ subscribed' = [subscribed EXCEPT ![k] = None]
  /\ UNCHANGED <<lock, active, starting, task, results, armed, awaiting, heard, serial>>

-------------------------------------------------------------------------------
(* The task: _capture_loop.                                                *)

TaskBegins ==
  /\ task.at = "created"
  /\ ~task.cancel
  /\ task' = [task EXCEPT !.at = "waiting"]
  /\ UNCHANGED <<lock, active, starting, results, armed, awaiting, subscribed,
                 heard, serial>>

\* A task cancelled before its first step: asyncio throws CancelledError into
\* the coroutine before its first line, outside its try, so nothing of it runs.
TaskCancelledUnbegun ==
  /\ task.at = "created"
  /\ task.cancel
  /\ task' = [task EXCEPT !.at = "dead"]
  /\ awaiting' = {}
  /\ UNCHANGED <<lock, active, starting, results, armed, subscribed, heard, serial>>

\* Mutant: the loop does not end when it is cancelled.
WaitOutcomeUncancelled(e) ==
  /\ task.at = "waiting"
  /\ ~task.cancel /\ e # "cancelled"

\* How the provider's wait may end: a cancellation that was requested is
\* thrown there, whatever the provider had ready.
WaitOutcome(e) ==
  /\ task.at = "waiting"
  /\ task.cancel <=> e = "cancelled"

\* Mutant: one result for all the sessions.
StoreForAll(e) ==
  results' = IF e = "captured" THEN [s \in Sessions |-> task.serial] ELSE results

\* What a captured session leaves behind for get_session_result.
Store(e) ==
  results' = IF e = "captured"
             THEN [results EXCEPT ![task.session] = task.serial] ELSE results

\* The wait ends and the provider's stop does not suspend: the rest of the
\* loop is one step.  The stop's own exceptions are swallowed.
WaitEnds(e) ==
  /\ WaitOutcome(e)
  /\ armed' = armed \ {task.serial}
  /\ Store(e)
  /\ Notify(task.session, e)
  /\ Finalize
  /\ UNCHANGED <<starting, subscribed, serial>>

\* Mutant: the lock is released before the provider is stopped.
WaitEndsReleasing(e) ==
  /\ ProviderSuspends
  /\ WaitOutcome(e)
  /\ task' = [task EXCEPT !.at = "stopping", !.ending = e, !.cancel = FALSE]
  /\ lock' = FALSE
  /\ UNCHANGED <<active, starting, results, armed, awaiting, subscribed, heard, serial>>

\* The wait ends and the stop suspends.  CANCELLED and ERROR are announced
\* before the stop, CAPTURED and TIMEOUT after it.
WaitEndsThenSuspends(e) ==
  /\ ProviderSuspends
  /\ WaitOutcome(e)
  /\ task' = [task EXCEPT !.at = "stopping", !.ending = e, !.cancel = FALSE]
  /\ IF e \in {"cancelled", "error"}
     THEN Notify(task.session, e) ELSE UNCHANGED heard
  /\ UNCHANGED <<lock, active, starting, results, armed, awaiting, subscribed, serial>>

\* Mutant: every ending is announced after the stop, also those that were before.
StopResumesAnnouncing ==
  /\ task.at = "stopping"
  /\ ~task.cancel
  /\ armed' = armed \ {task.serial}
  /\ Store(task.ending)
  /\ Notify(task.session, task.ending)
  /\ Finalize
  /\ UNCHANGED <<starting, subscribed, serial>>

StopResumes ==
  /\ task.at = "stopping"
  /\ ~task.cancel
  /\ armed' = armed \ {task.serial}
  /\ Store(task.ending)
  /\ IF task.ending \in {"captured", "timeout"}
     THEN Notify(task.session, task.ending) ELSE UNCHANGED heard
  /\ Finalize
  /\ UNCHANGED <<starting, subscribed, serial>>

\* A cancellation thrown into the stop is no Exception: it leaves _safe_stop
\* and the loop with it, and the provider may or may not have stopped.
StopCancelled ==
  /\ task.at = "stopping"
  /\ task.cancel
  /\ task' = [task EXCEPT !.at = "dead"]
  /\ awaiting' = {}
  /\ armed' \in {armed, armed \ {task.serial}}
  /\ UNCHANGED <<lock, active, starting, results, subscribed, heard, serial>>

TaskEndsWait == \E e \in Endings : WaitEnds(e) \/ WaitEndsThenSuspends(e)

TaskStep == TaskBegins \/ TaskCancelledUnbegun \/ TaskEndsWait \/ StopResumes
            \/ StopCancelled

StartEnds == StartResumes \/ StartResumesRaising

Next ==
  \/ \E s \in Sessions : Start(s) \/ StartRaises(s) \/ StartSuspends(s)
  \/ StartEnds
  \/ \E c \in Callers, s \in Sessions : Cancel(c, s)
  \/ \E k \in Listeners, s \in Sessions : Subscribe(k, s)
  \/ \E k \in Listeners : Unsubscribe(k)
  \/ TaskStep

Spec == Init /\ [][Next]_vars

\* The event loop runs what is ready, and a provider's wait, start and stop end:
\* each wait has a timeout of its own, and the others only call the hardware.
Fairness == WF_vars(TaskStep) /\ WF_vars(StartEnds)

FairSpec == Spec /\ Fairness

-------------------------------------------------------------------------------
(* Safety.                                                                 *)

\* "Only ONE capture session runs at a time": a provider that is listening
\* belongs to the latest session, and the lock is held for it.
SingleFlight ==
  \A n \in armed : n = serial /\ lock

\* The task that will release the lock, with no check of whose lock it is, is
\* the task of the session that acquired it.
ReleaserIsOwner ==
  task.at # "none" => /\ lock /\ ~starting
                      /\ task.session = active
                      /\ task.serial = serial

\* When the lock is free nothing of the last session is left: no provider
\* listening, no active id, no task, and nobody waits for one.
FreeMeansClean ==
  ~lock => /\ armed = {} /\ awaiting = {}
           /\ active = None /\ task = NoTask /\ ~starting

\* The inductive strengthening: the three above, the start that is suspended,
\* callers waiting only for a task that can still end, and the serials in use.
IInv ==
  /\ TypeOK
  /\ SingleFlight
  /\ ReleaserIsOwner
  /\ FreeMeansClean
  /\ lock => active \in Sessions /\ serial > 0
  /\ starting => lock /\ task = NoTask /\ armed = {}
  /\ task.at = "none" => task = NoTask
  /\ awaiting # {} => task.at \in Live
  /\ serial <= MaxSerial

\* A listener that stays subscribed hears sessions begin and end in turn: called
\* again after an ending, it hears the next session listen; called again after
\* LISTENING, it hears an ending.  A state announced twice is a call like another.
OneEndingPerSession ==
  [][\A k \in Listeners :
       (subscribed[k] # None /\ subscribed'[k] = subscribed[k] /\ heard'[k] # heard[k])
         => /\ heard[k].state \in Endings => heard'[k].state = "listening"
            /\ heard[k].state = "listening" => heard'[k].state \in Endings]_vars

\* The orchestrator does what CaptureSessions promises.
Promise == INSTANCE CaptureSessions
             WITH current <- active, Captures <- 1 .. MaxSerial

ImplementsCaptureSessions == Promise!Spec

(* Liveness.                                                               *)

\* cancel_capture returns.
CancelReturns == \A c \in Callers : c \in awaiting ~> c \notin awaiting

\* The lock is released, or its task died before it could.
ReleasedUnlessDead == lock ~> (~lock \/ task.at = "dead")

(* What the sources say and the code does not do.                          *)

\* "Cancellation propagates to the active provider" (orchestrator.py): once
\* the cancelled task is done, its provider no longer listens.
CancellationStopsProvider == task.at = "dead" => armed = {}

===============================================================================
