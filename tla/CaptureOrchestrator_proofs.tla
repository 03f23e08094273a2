---------------------- MODULE CaptureOrchestrator_proofs -----------------------
(***************************************************************************)
(* Single flight, for any sessions, callers, listeners and providers: the  *)
(* inductive invariant IInv, and that the orchestrator implements          *)
(* CaptureSessions.                                                        *)
(***************************************************************************)
EXTENDS CaptureOrchestrator, TLAPS

-------------------------------------------------------------------------------
(* The invariant.                                                          *)

\* The initial state satisfies the inductive invariant.
LEMMA InitIInv == Init => IInv
<1> SUFFICES ASSUME Init PROVE IInv
  OBVIOUS
<1>1. TypeOK
  BY DEF Init, TypeOK, Tasks, NoTask, Live, Endings, Silence
<1> QED
  BY <1>1, OrchestratorAssumption
     DEF Init, IInv, SingleFlight, ReleaserIsOwner, FreeMeansClean, NoTask

\* What the listeners may have heard.
Hearing == [Listeners -> [state : Endings \cup {"nothing", "listening"}, calls : Nat]]

\* What listeners hear keeps its type when they are called with a state.
LEMMA NotifyTyped ==
  ASSUME TypeOK, NEW s, NEW e \in Endings \cup {"listening"}, Notify(s, e)
  PROVE  heard' \in Hearing
BY DEF TypeOK, Notify, Hearing

\* Opening a session, whether its provider starts, raises or suspends,
\* preserves the inductive invariant: the lock was free, so nothing was left.
LEMMA StartIInv ==
  ASSUME IInv, NEW s \in Sessions,
         Start(s) \/ StartRaises(s) \/ StartSuspends(s)
  PROVE  IInv'
<1> USE OrchestratorAssumption DEF IInv
<1>1. /\ serial' = serial + 1 /\ serial' <= MaxSerial
      /\ results' \in [Sessions -> Nat]
      /\ armed = {} /\ awaiting = {} /\ task = NoTask /\ ~starting
      /\ active = None /\ ~lock
  BY DEF Start, StartRaises, StartSuspends, Acquire, TypeOK, FreeMeansClean
<1>2. CASE Start(s)
  <2>1. /\ lock' = TRUE /\ active' = s /\ starting' = FALSE
        /\ armed' = {serial'} /\ task' = NewTask(s, serial')
        /\ awaiting' = {} /\ subscribed' = subscribed
        /\ Notify(s, "listening")
    BY <1>1, <1>2 DEF Start, Listen
  <2>2. task' \in Tasks
    BY <1>1, <2>1 DEF Tasks, NewTask, Live, Endings, TypeOK
  <2>3. heard' \in Hearing
    BY <2>1, NotifyTyped
  <2>4. serial' \in Nat /\ armed' \in SUBSET Nat
    BY <1>1, <2>1 DEF TypeOK
  <2>5. TypeOK'
    BY <1>1, <2>1, <2>2, <2>3, <2>4 DEF TypeOK, Hearing
  <2> QED
    BY <1>1, <2>1, <2>5
       DEF SingleFlight, ReleaserIsOwner, FreeMeansClean, NewTask, Live, TypeOK
<1>3. CASE StartRaises(s)
  <2>1. TypeOK'
    BY <1>1, <1>3 DEF StartRaises, TypeOK
  <2> QED
    BY <1>1, <1>3, <2>1
       DEF StartRaises, SingleFlight, ReleaserIsOwner, FreeMeansClean, NoTask
<1>4. CASE StartSuspends(s)
  <2>1. TypeOK'
    BY <1>1, <1>4 DEF StartSuspends, TypeOK
  <2> QED
    BY <1>1, <1>4, <2>1
       DEF StartSuspends, SingleFlight, ReleaserIsOwner, FreeMeansClean, NoTask, TypeOK
<1> QED
  BY <1>2, <1>3, <1>4

\* A suspended start that returns or raises preserves the inductive invariant.
LEMMA StartEndsIInv ==
  ASSUME IInv, StartEnds
  PROVE  IInv'
<1> USE OrchestratorAssumption DEF IInv
<1>1. starting /\ lock /\ task = NoTask /\ armed = {} /\ awaiting = {}
      /\ active \in Sessions /\ serial > 0
  BY DEF StartEnds, StartResumes, StartResumesRaising, NoTask, Live
<1>2. CASE StartResumes
  <2>1. /\ lock' = TRUE /\ active' = active /\ starting' = FALSE
        /\ armed' = {serial} /\ task' = NewTask(active, serial)
        /\ awaiting' = {} /\ subscribed' = subscribed
        /\ Notify(active, "listening")
        /\ results' = results /\ serial' = serial
    BY <1>1, <1>2 DEF StartResumes, Listen
  <2>2. task' \in Tasks
    BY <1>1, <2>1 DEF Tasks, NewTask, Live, Endings, TypeOK
  <2>3. heard' \in Hearing
    BY <2>1, NotifyTyped
  <2>4. serial' \in Nat /\ armed' \in SUBSET Nat
    BY <1>1, <2>1 DEF TypeOK
  <2>5. TypeOK'
    BY <1>1, <2>1, <2>2, <2>3, <2>4 DEF TypeOK, Hearing
  <2> QED
    BY <1>1, <2>1, <2>5
       DEF SingleFlight, ReleaserIsOwner, FreeMeansClean, NewTask, Live, TypeOK
<1>3. CASE StartResumesRaising
  <2>1. TypeOK'
    BY <1>1, <1>3 DEF StartResumesRaising, TypeOK
  <2> QED
    BY <1>1, <1>3, <2>1
       DEF StartResumesRaising, SingleFlight, ReleaserIsOwner, FreeMeansClean, NoTask
<1> QED
  BY <1>2, <1>3 DEF StartEnds

\* Cancelling a task preserves the inductive invariant.
LEMMA CancelIInv ==
  ASSUME IInv, NEW c \in Callers, NEW s \in Sessions, Cancel(c, s)
  PROVE  IInv'
<1> USE OrchestratorAssumption DEF IInv
<1>1. /\ task.at \in Live /\ task \in Tasks
      /\ task' = [task EXCEPT !.cancel = TRUE]
      /\ awaiting' = awaiting \cup {c}
      /\ UNCHANGED <<lock, active, starting, results, armed, subscribed, heard, serial>>
  BY DEF Cancel, CanCancel, CancelTask, TypeOK
<1>2. /\ task' \in Tasks
      /\ task'.at = task.at /\ task'.session = task.session /\ task'.serial = task.serial
  BY <1>1 DEF Tasks
<1>3. TypeOK'
  BY <1>1, <1>2 DEF TypeOK
<1>4. task.at # "none"
  BY <1>1 DEF Live
<1> QED
  BY <1>1, <1>2, <1>3, <1>4
     DEF SingleFlight, ReleaserIsOwner, FreeMeansClean, NoTask

\* Subscribing and unsubscribing preserve the inductive invariant.
LEMMA ListenersIInv ==
  ASSUME IInv, NEW k \in Listeners,
         Unsubscribe(k) \/ \E s \in Sessions : Subscribe(k, s)
  PROVE  IInv'
<1>1. Silence \in [state : Endings \cup {"nothing", "listening"}, calls : Nat]
  BY DEF Silence
<1>2. heard' \in Hearing
  BY <1>1 DEF IInv, TypeOK, Subscribe, Unsubscribe, Hearing
<1>3. subscribed' \in [Listeners -> Sessions \cup {None}]
  BY DEF IInv, TypeOK, Subscribe, Unsubscribe
<1>4. TypeOK'
  BY <1>2, <1>3 DEF IInv, TypeOK, Subscribe, Unsubscribe, Hearing
<1> QED
  BY <1>4 DEF IInv, Subscribe, Unsubscribe, SingleFlight, ReleaserIsOwner, FreeMeansClean

\* Every step of the capture task preserves the inductive invariant: the lock
\* the task releases is its own session's, and it stops its own provider.
LEMMA TaskIInv ==
  ASSUME IInv, TaskStep
  PROVE  IInv'
<1> USE OrchestratorAssumption DEF IInv
<1>1. /\ task.at \in Live /\ task \in Tasks /\ lock /\ ~starting
      /\ task.session = active /\ task.serial = serial
      /\ active \in Sessions /\ serial > 0 /\ armed \subseteq {serial}
  BY DEF TaskStep, TaskBegins, TaskCancelledUnbegun, TaskEndsWait, WaitEnds,
         WaitEndsThenSuspends, WaitOutcome, StopResumes, StopCancelled,
         ReleaserIsOwner, SingleFlight, Live, TypeOK
<1>2. CASE TaskBegins
  <2>1. /\ task' \in Tasks /\ task'.at = "waiting"
        /\ task'.session = task.session /\ task'.serial = task.serial
    BY <1>1, <1>2 DEF TaskBegins, Tasks, Live
  <2>2. TypeOK'
    BY <1>2, <2>1 DEF TaskBegins, TypeOK
  <2> QED
    BY <1>1, <1>2, <2>1, <2>2
       DEF TaskBegins, SingleFlight, ReleaserIsOwner, FreeMeansClean, Live
<1>3. CASE TaskCancelledUnbegun \/ StopCancelled
  <2>1. /\ task' \in Tasks /\ task'.at = "dead"
        /\ task'.session = task.session /\ task'.serial = task.serial
    BY <1>1, <1>3 DEF TaskCancelledUnbegun, StopCancelled, Tasks, Live
  <2>2. awaiting' = {} /\ armed' \subseteq armed
    BY <1>3 DEF TaskCancelledUnbegun, StopCancelled
  <2>3. UNCHANGED <<lock, active, starting, results, subscribed, heard, serial>>
    BY <1>3 DEF TaskCancelledUnbegun, StopCancelled
  <2>4. TypeOK'
    BY <2>1, <2>2, <2>3 DEF TypeOK
  <2> QED
    BY <1>1, <2>1, <2>2, <2>3, <2>4
       DEF SingleFlight, ReleaserIsOwner, FreeMeansClean, Live
<1>4. CASE \E e \in Endings : WaitEndsThenSuspends(e)
  <2> PICK e \in Endings : WaitEndsThenSuspends(e)
    BY <1>4
  <2>1. /\ task' \in Tasks /\ task'.at = "stopping"
        /\ task'.session = task.session /\ task'.serial = task.serial
    BY <1>1 DEF WaitEndsThenSuspends, Tasks, Live
  <2>2. heard' \in Hearing
    BY NotifyTyped DEF WaitEndsThenSuspends, TypeOK, Hearing
  <2>3. UNCHANGED <<lock, active, starting, results, armed, awaiting, subscribed, serial>>
    BY DEF WaitEndsThenSuspends
  <2>4. TypeOK'
    BY <2>1, <2>2, <2>3 DEF TypeOK, Hearing
  <2> QED
    BY <1>1, <2>1, <2>3, <2>4
       DEF SingleFlight, ReleaserIsOwner, FreeMeansClean, Live
<1>5. CASE StopResumes \/ \E e \in Endings : WaitEnds(e)
  <2>1. /\ Finalize /\ armed' = {} /\ starting' = starting
        /\ UNCHANGED <<subscribed, serial>>
    BY <1>1, <1>5 DEF StopResumes, WaitEnds
  <2>2. results' \in [Sessions -> Nat]
    BY <1>1, <1>5 DEF StopResumes, WaitEnds, Store, TypeOK, Tasks
  <2>3. heard' \in Hearing
    <3>1. CASE \E e \in Endings : WaitEnds(e)
      BY <3>1, NotifyTyped DEF WaitEnds
    <3>2. CASE StopResumes
      BY <3>2, NotifyTyped DEF StopResumes, TypeOK, Endings, Hearing
    <3> QED
      BY <1>5, <3>1, <3>2
  <2>4. NoTask \in Tasks
    BY DEF NoTask, Tasks
  <2>5. TypeOK'
    BY <1>1, <2>1, <2>2, <2>3, <2>4 DEF Finalize, TypeOK, Hearing
  <2> QED
    BY <1>1, <2>1, <2>5
       DEF Finalize, SingleFlight, ReleaserIsOwner, FreeMeansClean, NoTask
<1> QED
  BY <1>2, <1>3, <1>4, <1>5 DEF TaskStep, TaskEndsWait

\* Every step of the orchestrator preserves the inductive invariant.
LEMMA NextIInv == IInv /\ [Next]_vars => IInv'
<1> SUFFICES ASSUME IInv, [Next]_vars PROVE IInv'
  OBVIOUS
<1>1. CASE \E s \in Sessions : Start(s) \/ StartRaises(s) \/ StartSuspends(s)
  BY <1>1, StartIInv
<1>2. CASE StartEnds
  BY <1>2, StartEndsIInv
<1>3. CASE \E c \in Callers, s \in Sessions : Cancel(c, s)
  BY <1>3, CancelIInv
<1>4. CASE \E k \in Listeners, s \in Sessions : Subscribe(k, s)
  BY <1>4, ListenersIInv
<1>5. CASE \E k \in Listeners : Unsubscribe(k)
  BY <1>5, ListenersIInv
<1>6. CASE TaskStep
  BY <1>6, TaskIInv
<1>7. CASE UNCHANGED vars
  BY <1>7 DEF vars, IInv, TypeOK, SingleFlight, ReleaserIsOwner, FreeMeansClean
<1> QED
  BY <1>1, <1>2, <1>3, <1>4, <1>5, <1>6, <1>7 DEF Next

\* The inductive invariant holds in every reachable state.
THEOREM Invariance == Spec => []IInv
BY InitIInv, NextIInv, PTL DEF Spec

\* Every variable keeps its type.
THEOREM TypeCorrect == Spec => []TypeOK
<1>1. IInv => TypeOK
  BY DEF IInv
<1> QED
  BY <1>1, Invariance, PTL

\* Only one capture session runs at a time: at most one provider listens, it is
\* the latest session's, and the lock is held for it.
THEOREM OneSessionAtATime == Spec => []SingleFlight
<1>1. IInv => SingleFlight
  BY DEF IInv
<1> QED
  BY <1>1, Invariance, PTL

\* The lock is released only by the session that acquired it.
THEOREM LockReleasedByItsOwner == Spec => []ReleaserIsOwner
<1>1. IInv => ReleaserIsOwner
  BY DEF IInv
<1> QED
  BY <1>1, Invariance, PTL

\* A free lock means that nothing of the last session is left behind.
THEOREM NothingLeftBehind == Spec => []FreeMeansClean
<1>1. IInv => FreeMeansClean
  BY DEF IInv
<1> QED
  BY <1>1, Invariance, PTL

-------------------------------------------------------------------------------
(* The refinement.                                                         *)

\* A session that opens, or fails to, does what CaptureSessions allows.
LEMMA StartImplements ==
  ASSUME IInv, NEW s \in Sessions,
         Start(s) \/ StartRaises(s) \/ StartSuspends(s)
  PROVE  [Promise!Next]_Promise!vars
<1>1. active = None /\ results' = [results EXCEPT ![s] = 0]
  BY DEF IInv, FreeMeansClean, Start, StartRaises, StartSuspends, Acquire
<1>2. active' = s \/ active' = active
  BY DEF Start, Listen, StartRaises, StartSuspends
<1> QED
  BY <1>1, <1>2 DEF Promise!Next, Promise!Open, Promise!OpenFails

\* A suspended start that raises closes the session; one that returns changes
\* neither the session nor a result.
LEMMA StartEndsImplements ==
  ASSUME IInv, StartEnds
  PROVE  [Promise!Next]_Promise!vars
<1>1. CASE StartResumes
  BY <1>1 DEF StartResumes, Listen, Promise!vars
<1>2. CASE StartResumesRaising
  <2>1. active # None
    BY <1>2, OrchestratorAssumption DEF StartResumesRaising, IInv
  <2> QED
    BY <1>2, <2>1 DEF StartResumesRaising, Promise!Next, Promise!Close
<1> QED
  BY <1>1, <1>2 DEF StartEnds

\* The task changes the session and the results only when it ends the session
\* it runs for, and then stores nothing under any other.
LEMMA TaskImplements ==
  ASSUME IInv, TaskStep
  PROVE  [Promise!Next]_Promise!vars
<1>1. CASE TaskBegins \/ TaskCancelledUnbegun \/ StopCancelled
           \/ \E e \in Endings : WaitEndsThenSuspends(e)
  <2>1. UNCHANGED <<active, results>>
    BY <1>1 DEF TaskBegins, TaskCancelledUnbegun, StopCancelled, WaitEndsThenSuspends
  <2> QED
    BY <2>1 DEF Promise!vars
<1>2. CASE StopResumes \/ \E e \in Endings : WaitEnds(e)
  <2>1. task.session = active /\ active # None
    BY <1>2, OrchestratorAssumption
       DEF StopResumes, WaitEnds, WaitOutcome, IInv, ReleaserIsOwner
  <2>2. task.serial \in 1 .. MaxSerial
    BY <1>2, OrchestratorAssumption
       DEF StopResumes, WaitEnds, WaitOutcome, IInv, ReleaserIsOwner, TypeOK
  <2>3. active' = None
    BY <1>2 DEF StopResumes, WaitEnds, Finalize
  <2>4. \/ UNCHANGED results
        \/ results' = [results EXCEPT ![active] = task.serial]
    BY <1>2, <2>1 DEF StopResumes, WaitEnds, Store
  <2> QED
    BY <2>1, <2>2, <2>3, <2>4 DEF Promise!Next, Promise!Close
<1> QED
  BY <1>1, <1>2 DEF TaskStep, TaskEndsWait

\* The orchestrator implements CaptureSessions: sessions one at a time, an old
\* result gone once its session opens again, results only by the session that
\* runs.
THEOREM Implements == Spec => ImplementsCaptureSessions
<1>1. Init => Promise!Init
  BY DEF Init, Promise!Init
<1>2. IInv /\ [Next]_vars => [Promise!Next]_Promise!vars
  <2> SUFFICES ASSUME IInv, [Next]_vars PROVE [Promise!Next]_Promise!vars
    OBVIOUS
  <2>1. CASE \E s \in Sessions : Start(s) \/ StartRaises(s) \/ StartSuspends(s)
    BY <2>1, StartImplements
  <2>2. CASE StartEnds
    BY <2>2, StartEndsImplements
  <2>3. CASE TaskStep
    BY <2>3, TaskImplements
  <2>4. CASE \/ \E c \in Callers, s \in Sessions : Cancel(c, s)
             \/ \E k \in Listeners, s \in Sessions : Subscribe(k, s)
             \/ \E k \in Listeners : Unsubscribe(k)
             \/ UNCHANGED vars
    BY <2>4 DEF Cancel, CancelTask, Subscribe, Unsubscribe, vars, Promise!vars
  <2> QED
    BY <2>1, <2>2, <2>3, <2>4 DEF Next
<1> QED
  BY <1>1, <1>2, Invariance, PTL DEF Spec, Promise!Spec, ImplementsCaptureSessions

-------------------------------------------------------------------------------
(* The listeners.                                                          *)

\* Until the running session has announced its ending, none of its listeners has
\* heard one: those that heard the last session's were told that this one listens,
\* and those that came since have heard nothing.
Unannounced ==
  \/ task.at \in {"created", "waiting"}
  \/ task.at = "stopping" /\ task.ending \in {"captured", "timeout"}

NoneHeardItsEnd ==
  Unannounced => \A k \in Listeners : subscribed[k] = task.session => heard[k].state \notin Endings

\* A listener told that a session listens is still to hear how it ends, or the
\* session's task died and no session comes after it.
IsStillToHear ==
  \A k \in Listeners : subscribed[k] # None /\ heard[k].state = "listening"
    => /\ lock /\ ~starting /\ active = subscribed[k]
       /\ Unannounced \/ task.at = "dead"

InStep == NoneHeardItsEnd /\ IsStillToHear

ListenersInv == IInv /\ InStep

\* What a listener that stays subscribed is called with in a step.
Hears(k) == subscribed[k] # None /\ heard'[k] # heard[k] /\ subscribed'[k] = subscribed[k]
InTurn(k) ==
  Hears(k) => /\ heard[k].state \in Endings => heard'[k].state = "listening"
              /\ heard[k].state = "listening" => heard'[k].state \in Endings

\* A session that begins to listen tells all its listeners so; none of them was
\* still to hear how another ended.
LEMMA ListenTellsListeners ==
  ASSUME ListenersInv, ~lock \/ starting, NEW s \in Sessions, NEW n, Listen(s, n)
  PROVE  InStep' /\ \A k \in Listeners : InTurn(k)
<1>1. /\ lock' /\ ~starting' /\ active' = s /\ task'.session = s /\ task'.at = "created"
      /\ subscribed' = subscribed
      /\ \A k \in Listeners : /\ subscribed[k] = s => heard'[k].state = "listening"
                              /\ subscribed[k] # s => heard'[k] = heard[k]
  BY DEF Listen, NewTask, Notify
<1>2. "listening" \notin Endings
  BY DEF Endings
<1>3. \A k \in Listeners : subscribed[k] # None => heard[k].state # "listening"
  BY DEF ListenersInv, InStep, IsStillToHear
<1>4. NoneHeardItsEnd'
  BY ONLY <1>1, <1>2 DEF NoneHeardItsEnd
<1>5. IsStillToHear'
  BY ONLY <1>1, <1>3 DEF IsStillToHear, Unannounced
<1>6. \A k \in Listeners : InTurn(k)
  BY <1>1, <1>3 DEF InTurn, Hears
<1> QED
  BY <1>4, <1>5, <1>6 DEF InStep

\* A session announces its end to listeners that have heard no end of it, and
\* then none of them is still to hear one.
LEMMA EndTellsListeners ==
  ASSUME ListenersInv, Unannounced, NEW e \in Endings, Notify(task.session, e),
         subscribed' = subscribed, ~Unannounced'
  PROVE  InStep' /\ \A k \in Listeners : InTurn(k)
<1>1. \A k \in Listeners :
        /\ subscribed[k] = task.session => heard'[k].state = e
        /\ subscribed[k] # task.session => heard'[k] = heard[k]
  BY DEF Notify
<1>2. task.session = active
  BY DEF ListenersInv, IInv, ReleaserIsOwner, Unannounced
<1>3. e # "listening"
  BY DEF Endings
<1>4. \A k \in Listeners : subscribed[k] # None => heard'[k].state # "listening"
  BY <1>1, <1>2, <1>3 DEF ListenersInv, InStep, IsStillToHear
<1>5. InStep'
  BY <1>4 DEF InStep, IsStillToHear, NoneHeardItsEnd
<1>6. \A k \in Listeners : InTurn(k)
  BY <1>1 DEF InTurn, Hears, ListenersInv, InStep, NoneHeardItsEnd
<1> QED
  BY <1>5, <1>6

\* Nobody is called, and the session goes on.
LEMMA SilentStep ==
  ASSUME ListenersInv, UNCHANGED <<lock, active, starting, subscribed, heard>>,
         task'.session = task.session,
         Unannounced' <=> Unannounced, task.at = "dead" => task'.at = "dead"
  PROVE  InStep' /\ \A k \in Listeners : InTurn(k)
BY DEF ListenersInv, InStep, NoneHeardItsEnd, IsStillToHear, InTurn, Hears

\* Every step of the task tells its listeners one ending at most.
LEMMA TaskTellsListeners ==
  ASSUME ListenersInv, TaskStep
  PROVE  InStep' /\ \A k \in Listeners : InTurn(k)
<1>1. task \in Tasks /\ lock /\ ~starting /\ task.session = active
  BY DEF ListenersInv, IInv, TypeOK, ReleaserIsOwner, TaskStep, TaskBegins,
         TaskCancelledUnbegun, TaskEndsWait, WaitEnds, WaitEndsThenSuspends,
         WaitOutcome, StopResumes, StopCancelled
<1>2. CASE TaskBegins
  <2>1. /\ task' = [task EXCEPT !.at = "waiting"] /\ task.at = "created"
        /\ UNCHANGED <<lock, active, starting, subscribed, heard>>
    BY <1>2 DEF TaskBegins
  <2>2. task'.session = task.session /\ task'.at = "waiting"
    BY ONLY <1>1, <2>1 DEF Tasks
  <2> QED
    BY <2>1, <2>2, SilentStep DEF Unannounced
<1>3. CASE TaskCancelledUnbegun \/ StopCancelled
  <2>1. /\ task' = [task EXCEPT !.at = "dead"]
        /\ UNCHANGED <<lock, active, starting, subscribed, heard>>
    BY <1>3 DEF TaskCancelledUnbegun, StopCancelled
  <2>2. task'.at = "dead"
    BY ONLY <1>1, <2>1 DEF Tasks
  <2>3. NoneHeardItsEnd' /\ IsStillToHear'
    BY <2>1, <2>2 DEF ListenersInv, InStep, NoneHeardItsEnd, IsStillToHear, Unannounced
  <2> QED
    BY <2>1, <2>3 DEF InTurn, Hears, InStep
<1>4. ASSUME NEW e \in Endings, WaitEnds(e)
      PROVE  InStep' /\ \A k \in Listeners : InTurn(k)
  <2>1. /\ task.at = "waiting" /\ Notify(task.session, e) /\ subscribed' = subscribed
        /\ task' = NoTask
    BY <1>4 DEF WaitEnds, WaitOutcome, Finalize
  <2>2. Unannounced /\ ~Unannounced'
    BY <2>1 DEF Unannounced, NoTask
  <2> QED
    BY <2>1, <2>2, EndTellsListeners
<1>5. ASSUME NEW e \in Endings, WaitEndsThenSuspends(e)
      PROVE  InStep' /\ \A k \in Listeners : InTurn(k)
  <2>1. /\ task.at = "waiting" /\ UNCHANGED <<lock, active, starting, subscribed>>
        /\ task' = [task EXCEPT !.at = "stopping", !.ending = e, !.cancel = FALSE]
        /\ IF e \in {"cancelled", "error"}
           THEN Notify(task.session, e) ELSE heard' = heard
    BY <1>5 DEF WaitEndsThenSuspends, WaitOutcome
  <2>2. task'.at = "stopping" /\ task'.ending = e /\ task'.session = task.session
    BY ONLY <1>1, <2>1 DEF Tasks
  <2>3. Unannounced
    BY <2>1 DEF Unannounced
  <2>4. CASE e \in {"cancelled", "error"}
    <3>1. ~Unannounced'
      BY <2>2, <2>4 DEF Unannounced
    <3> QED
      BY <2>1, <2>3, <2>4, <3>1, EndTellsListeners
  <2>5. CASE e \notin {"cancelled", "error"}
    <3>1. Unannounced'
      BY <2>2, <2>5 DEF Unannounced, Endings
    <3> QED
      BY <2>1, <2>2, <2>3, <2>5, <3>1, SilentStep
  <2> QED
    BY <2>4, <2>5
<1>6. CASE StopResumes
  <2>1. task' = NoTask /\ subscribed' = subscribed /\ task.at = "stopping"
    BY <1>6 DEF StopResumes, Finalize
  <2>2. ~Unannounced'
    BY <2>1 DEF Unannounced, NoTask
  <2>3. CASE task.ending \in {"captured", "timeout"}
    <3>1. Unannounced /\ Notify(task.session, task.ending) /\ task.ending \in Endings
      BY <1>6, <2>1, <2>3 DEF Unannounced, StopResumes, Endings
    <3> QED
      BY <2>1, <2>2, <3>1, EndTellsListeners
  <2>4. CASE task.ending \notin {"captured", "timeout"}
    <3>1. heard' = heard /\ ~Unannounced
      BY <1>6, <2>1, <2>4 DEF StopResumes, Unannounced
    <3>2. \A k \in Listeners : subscribed[k] # None => heard[k].state # "listening"
      BY <2>1, <3>1 DEF ListenersInv, InStep, IsStillToHear
    <3> QED
      BY <2>1, <2>2, <3>1, <3>2 DEF InStep, IsStillToHear, NoneHeardItsEnd, InTurn, Hears
  <2> QED
    BY <2>3, <2>4
<1> QED
  BY <1>2, <1>3, <1>4, <1>5, <1>6 DEF TaskStep, TaskEndsWait

\* So does every step of the orchestrator.
LEMMA NextTellsListeners ==
  ASSUME ListenersInv, [Next]_vars
  PROVE  ListenersInv' /\ \A k \in Listeners : InTurn(k)
<1>0. IInv /\ IInv' /\ task \in Tasks /\ active \in Sessions \cup {None}
  BY NextIInv DEF ListenersInv, IInv, TypeOK
<1>1. ASSUME NEW s \in Sessions, Start(s)
      PROVE  InStep' /\ \A k \in Listeners : InTurn(k)
  BY <1>1, ListenTellsListeners DEF Start, Acquire
<1>2. ASSUME NEW s \in Sessions, StartRaises(s) \/ StartSuspends(s)
      PROVE  InStep' /\ \A k \in Listeners : InTurn(k)
  <2>1. UNCHANGED <<task, subscribed, heard>> /\ ~lock
    BY <1>2 DEF StartRaises, StartSuspends, Acquire
  <2>2. \A k \in Listeners : subscribed[k] # None => heard[k].state # "listening"
    BY <2>1 DEF ListenersInv, InStep, IsStillToHear
  <2> QED
    BY <2>1, <2>2 DEF ListenersInv, InStep, NoneHeardItsEnd, IsStillToHear, Unannounced,
                      InTurn, Hears
<1>3. ASSUME StartResumes
      PROVE  InStep' /\ \A k \in Listeners : InTurn(k)
  <2>1. active \in Sessions /\ starting
    BY <1>0, <1>3 DEF StartResumes, IInv
  <2> QED
    BY <1>3, <2>1, ListenTellsListeners DEF StartResumes
<1>4. ASSUME StartResumesRaising
      PROVE  InStep' /\ \A k \in Listeners : InTurn(k)
  <2>1. UNCHANGED <<task, subscribed, heard>> /\ starting
    BY <1>4 DEF StartResumesRaising
  <2>2. \A k \in Listeners : subscribed[k] # None => heard[k].state # "listening"
    BY <2>1 DEF ListenersInv, InStep, IsStillToHear
  <2> QED
    BY <2>1, <2>2 DEF ListenersInv, InStep, NoneHeardItsEnd, IsStillToHear, Unannounced,
                      InTurn, Hears
<1>5. ASSUME NEW c \in Callers, NEW s \in Sessions, Cancel(c, s)
      PROVE  InStep' /\ \A k \in Listeners : InTurn(k)
  <2>1. /\ task' = [task EXCEPT !.cancel = TRUE]
        /\ UNCHANGED <<lock, active, starting, subscribed, heard>>
    BY <1>5 DEF Cancel, CancelTask
  <2>2. task'.at = task.at /\ task'.ending = task.ending /\ task'.session = task.session
    BY ONLY <1>0, <2>1 DEF Tasks
  <2> QED
    BY <2>1, <2>2, SilentStep DEF Unannounced
<1>6. ASSUME NEW k \in Listeners, NEW s \in Sessions, Subscribe(k, s)
      PROVE  InStep' /\ \A j \in Listeners : InTurn(j)
  <2>1. /\ UNCHANGED <<task, lock, active, starting>> /\ subscribed[k] = None
        /\ subscribed' = [subscribed EXCEPT ![k] = s]
        /\ heard' = [heard EXCEPT ![k] = Silence]
        /\ s # None
    BY <1>6, OrchestratorAssumption DEF Subscribe
  <2>2. DOMAIN subscribed = Listeners /\ DOMAIN heard = Listeners
    BY <1>0 DEF IInv, TypeOK
  <2>3. /\ subscribed'[k] = s /\ heard'[k] = Silence
        /\ \A j \in Listeners \ {k} : subscribed'[j] = subscribed[j] /\ heard'[j] = heard[j]
    BY ONLY <2>1, <2>2, k \in Listeners
  <2>4. Silence.state \notin Endings \cup {"listening"}
    BY DEF Silence, Endings
  <2>5. NoneHeardItsEnd' /\ IsStillToHear'
    BY <2>1, <2>3, <2>4
       DEF ListenersInv, InStep, NoneHeardItsEnd, IsStillToHear, Unannounced
  <2> QED
    BY <2>1, <2>3, <2>5 DEF InStep, InTurn, Hears
<1>7. ASSUME NEW k \in Listeners, Unsubscribe(k)
      PROVE  InStep' /\ \A j \in Listeners : InTurn(j)
  <2>1. /\ UNCHANGED <<task, lock, active, starting, heard>>
        /\ subscribed' = [subscribed EXCEPT ![k] = None]
    BY <1>7 DEF Unsubscribe
  <2>2. DOMAIN subscribed = Listeners
    BY <1>0 DEF IInv, TypeOK
  <2>3. \A j \in Listeners : subscribed'[j] \in {None, subscribed[j]}
    BY ONLY <2>1, <2>2
  <2>4. Unannounced => task.session # None
    BY <1>0, OrchestratorAssumption DEF Unannounced, IInv, ReleaserIsOwner
  <2>5. NoneHeardItsEnd' /\ IsStillToHear'
    BY <2>1, <2>3, <2>4
       DEF ListenersInv, InStep, NoneHeardItsEnd, IsStillToHear, Unannounced
  <2> QED
    BY <2>1, <2>5 DEF InStep, InTurn, Hears
<1>8. ASSUME TaskStep
      PROVE  InStep' /\ \A k \in Listeners : InTurn(k)
  BY <1>8, TaskTellsListeners
<1>9. ASSUME UNCHANGED vars
      PROVE  InStep' /\ \A k \in Listeners : InTurn(k)
  BY <1>9, SilentStep DEF vars, Unannounced
<1>10. InStep' /\ \A k \in Listeners : InTurn(k)
  BY <1>1, <1>2, <1>3, <1>4, <1>5, <1>6, <1>7, <1>8, <1>9 DEF Next, StartEnds
<1> QED
  BY <1>0, <1>10 DEF ListenersInv

\* A listener that stays subscribed hears sessions begin and end in turn: after an
\* ending the next LISTENING, after LISTENING an ending, and neither of them twice.
THEOREM OneEndingHeard == Spec => OneEndingPerSession
<1> DEFINE Turns == \A k \in Listeners :
       (subscribed[k] # None /\ subscribed'[k] = subscribed[k] /\ heard'[k] # heard[k])
         => /\ heard[k].state \in Endings => heard'[k].state = "listening"
            /\ heard[k].state = "listening" => heard'[k].state \in Endings
<1>1. Init => ListenersInv
  BY InitIInv DEF Init, ListenersInv, InStep, NoneHeardItsEnd, IsStillToHear, Unannounced,
                  NoTask
<1>2. ListenersInv /\ [Next]_vars => ListenersInv'
  BY NextTellsListeners
<1>3. ListenersInv /\ [Next]_vars => [Turns]_vars
  BY NextTellsListeners DEF InTurn, Hears
<1>4. OneEndingPerSession <=> [][Turns]_vars
  BY DEF OneEndingPerSession
<1> HIDE DEF Turns
<1> QED
  BY <1>1, <1>2, <1>3, <1>4, PTL DEF Spec

===============================================================================
