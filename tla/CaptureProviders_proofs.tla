------------------------- MODULE CaptureProviders_proofs -------------------------
(***************************************************************************)
(* The orchestrator with its providers, for any sessions, callers and      *)
(* polls: no session is disturbed by requests that one before it left in   *)
(* the device's queue, or is given a pulse of before, and the device is    *)
(* not left sweeping but by a request that failed.                         *)
(***************************************************************************)
EXTENDS CaptureProviders, CaptureOrchestrator_proofs, SequenceTheorems

-------------------------------------------------------------------------------
(* The invariant.                                                          *)

\* A session's own request is awaited and has not been answered.
Awaits == phase \in Asked /\ answer.is = "none"

\* A wait of a Broadlink provider is suspended only while its task is in its wait,
\* and only a request can have an answer.
PhaseFits ==
  /\ phase # "none" => task.at = "waiting"
  /\ phase \notin {"none", "queue"} => kind \in Broadlink \ {"direct unset"}
  /\ phase = "queue" => kind = "native"
  /\ phase \notin Asked => answer = NoAnswer

\* The request that is awaited is the last in the queue, and all others are of
\* earlier sessions: once it is answered the queue is empty, and stays so until the
\* session asks again.
QueueFits ==
  /\ \A i \in 1 .. Len(requests) : requests[i].of <= serial
  /\ starting \/ task.at \in {"created", "waiting"} =>
       \A i \in 1 .. Len(requests) :
         requests[i].of = serial => Awaits /\ i = Len(requests)
  /\ Awaits => /\ requests # <<>>
               /\ requests[Len(requests)] = [what |-> phase, of |-> serial]
  /\ phase \notin {"none", "queue", "sweep", "arm"} /\ Awaits => Len(requests) = 1
  /\ phase \notin {"none", "queue"} /\ ~Awaits => requests = <<>>

\* The device sweeps for the session that looks for its carrier, and the memory of
\* a device it has armed is empty or holds a pulse of its own.
DeviceFits ==
  /\ phase \in {"sweeping", "look"} \/ (phase = "sweep" /\ answer.is = "done")
       => mode \in {"sweeping", "locked"}
  /\ phase \in {"armed", "data"} \/ (phase = "arm" /\ answer.is = "done")
       => code \in {0, serial}
  /\ answer.is = "code" => phase = "data" /\ answer.of = serial

\* A sweep is ended: by the session that runs it, or by a request that is already
\* in the queue, after every request to sweep.
SweepsEnd ==
  /\ \A i \in 1 .. Len(requests) :
       requests[i].what = "sweep" =>
         \/ phase = "sweep" /\ i = Len(requests)
         \/ \E j \in 1 .. Len(requests) : j > i /\ requests[j].what = "cancel"
  /\ mode = "sweeping" =>
       \/ failed
       \/ phase \in SweepPhases
       \/ \E j \in 1 .. Len(requests) : requests[j].what = "cancel"
  /\ phase = "found" \/ (phase = "look" /\ answer.is = "done") => mode = "locked"
  /\ phase = "cancel" /\ answer.is = "done" => mode # "sweeping"
  /\ answer.is = "failed" => failed

ProvidersInv ==
  /\ IInv
  /\ ProvidersTypeOK
  /\ PhaseFits
  /\ QueueFits
  /\ DeviceFits
  /\ SweepsEnd

-------------------------------------------------------------------------------
(* The queue.                                                              *)

\* A request joins the queue at its end.
LEMMA JoinsQueue ==
  ASSUME NEW q \in Seq(Requests), NEW r \in Requests, NEW q2, q2 = Append(q, r)
  PROVE  /\ q2 \in Seq(Requests) /\ q2 # <<>>
         /\ Len(q) \in Nat /\ Len(q2) = Len(q) + 1
         /\ q2[Len(q) + 1] = r
         /\ \A i \in 1 .. Len(q) : q2[i] = q[i]
<1> HIDE DEF Requests
<1>1. /\ Append(q, r) \in Seq(Requests)
      /\ Len(Append(q, r)) = Len(q) + 1
      /\ \A i \in 1 .. Len(q) : Append(q, r)[i] = q[i]
      /\ Append(q, r)[Len(q) + 1] = r
  BY AppendProperties
<1>2. Len(q) \in Nat
  OBVIOUS
<1>3. q2 # <<>>
  BY <1>1, <1>2, EmptySeq
<1> QED
  BY <1>1, <1>2, <1>3

\* The request at the head leaves the queue and the others move up.
LEMMA LeavesQueue ==
  ASSUME NEW q \in Seq(Requests), q # <<>>
  PROVE  /\ Head(q) = q[1] /\ Head(q) \in Requests
         /\ Tail(q) \in Seq(Requests)
         /\ Len(q) \in Nat \ {0} /\ Len(Tail(q)) = Len(q) - 1
         /\ \A i \in 1 .. Len(Tail(q)) : i + 1 \in 1 .. Len(q) /\ Tail(q)[i] = q[i + 1]
         /\ Tail(q) = <<>> <=> Len(q) = 1
<1>1. /\ Head(q) \in Requests /\ Tail(q) \in Seq(Requests)
      /\ Len(Tail(q)) = Len(q) - 1
      /\ \A i \in 1 .. Len(Tail(q)) : Tail(q)[i] = q[i + 1]
  BY HeadTailProperties
<1>2. /\ Head(q) = q[1] /\ DOMAIN q = 1 .. Len(q)
      /\ DOMAIN Tail(q) = 1 .. Len(Tail(q))
      /\ Len(q) \in Nat /\ Len(Tail(q)) \in Nat
  BY <1>1
<1>3. Tail(q) = <<>> <=> Len(Tail(q)) = 0
  BY <1>1, EmptySeq
<1> HIDE DEF Requests
<1> QED
  BY <1>1, <1>2, <1>3

-------------------------------------------------------------------------------
(* The steps.                                                              *)

\* With its providers the orchestrator does what it does with any.
LEMMA ProvidersOnlyOperate ==
  ASSUME [ProvidersNext]_allVars
  PROVE  [Next]_vars
<1>1. ASSUME NEW s \in Sessions, NEW k \in Kinds, Begin(s, k)
      PROVE  Next
  BY <1>1 DEF Begin, Next
<1>2. ASSUME NEW s \in Sessions, BeginFails(s)
      PROVE  Next
  BY <1>2 DEF BeginFails, Next
<1>3. ASSUME BeginResumes
      PROVE  Next
  BY <1>3 DEF BeginResumes, Next
<1>4. ASSUME NEW c \in Callers, NEW s \in Sessions, Cancels(c, s)
      PROVE  Next
  BY <1>4 DEF Cancels, Next
<1>5. ASSUME NEW k \in Listeners, NEW s \in Sessions, Listening(k, s)
      PROVE  Next
  BY <1>5 DEF Listening, Next
<1>6. ASSUME SessionStep
      PROVE  [Next]_vars
  <2>1. CASE WaitBegins
    BY <2>1 DEF WaitBegins, Next, TaskStep
  <2>2. CASE SleepEnds \/ Answered
    BY <2>2 DEF SleepEnds, Answered
  <2>3. CASE \E e \in Endings : WaitIsOver(e)
    BY <2>3 DEF WaitIsOver, Next, TaskStep, TaskEndsWait
  <2>4. CASE TaskDies
    BY <2>4 DEF TaskDies, Next, TaskStep
  <2> QED
    BY <1>6, <2>1, <2>2, <2>3, <2>4 DEF SessionStep, WaitStep
<1>7. ASSUME CarryOut \/ DeviceHears \/ ReceiverHears \/ Dispatch
      PROVE  UNCHANGED vars
  BY <1>7 DEF CarryOut, DeviceHears, ReceiverHears, Dispatch
<1>8. ASSUME UNCHANGED allVars
      PROVE  UNCHANGED vars
  BY <1>8 DEF allVars
<1> QED
  BY <1>1, <1>2, <1>3, <1>4, <1>5, <1>6, <1>7, <1>8 DEF ProvidersNext

\* What the orchestrator does while no wait runs leaves the device and its queue
\* alone, and a session that begins has made no request.
LEMMA BetweenWaits ==
  ASSUME ProvidersInv, IInv', phase = "none",
         UNCHANGED <<phase, polls, answer, requests, deviceVars, pulses>>,
         kind' \in Kinds \cup {"none"},
         serial' >= serial,
         task'.at # "waiting",
         starting' \/ task'.at = "created" =>
           serial' > serial \/ starting \/ task.at = "created"
  PROVE  ProvidersInv'
<1> USE DEF ProvidersInv
<1>1. serial \in Nat /\ serial' \in Nat /\ requests \in Seq(Requests) /\ answer = NoAnswer
  BY DEF IInv, TypeOK, ProvidersTypeOK, PhaseFits, Asked
<1>2. \A i \in 1 .. Len(requests) : requests[i].of \in Nat
  <2> SUFFICES ASSUME NEW i \in 1 .. Len(requests) PROVE requests[i] \in Requests
    BY DEF Requests
  <2> QED
    BY <1>1, ElementOfSeq
<1>3. ProvidersTypeOK'
  BY DEF ProvidersTypeOK, deviceVars
<1>4. PhaseFits'
  BY <1>1 DEF PhaseFits
<1>5. QueueFits'
  <2>1. ~Awaits /\ ~Awaits' /\ phase' = "none" /\ requests' = requests
    BY DEF Awaits, Asked
  <2>2. \A i \in 1 .. Len(requests) : requests[i].of <= serial'
    BY <1>1, <1>2 DEF QueueFits
  <2>3. ASSUME starting' \/ task'.at \in {"created", "waiting"},
               NEW i \in 1 .. Len(requests)
        PROVE  requests[i].of # serial'
    <3>1. CASE serial' > serial
      BY <1>1, <1>2, <3>1 DEF QueueFits
    <3>2. CASE starting \/ task.at = "created"
      BY <1>1, <1>2, <2>1, <2>2, <3>2 DEF QueueFits
    <3> QED
      BY <2>3, <3>1, <3>2
  <2> QED
    BY <2>1, <2>2, <2>3 DEF QueueFits
<1>6. DeviceFits' /\ SweepsEnd'
  BY <1>1 DEF DeviceFits, SweepsEnd, NoAnswer, SweepPhases, deviceVars
<1> QED
  BY <1>3, <1>4, <1>5, <1>6

\* A task in its wait is that of the session that holds the lock, the latest.
LEMMA WaitIsLatest ==
  ASSUME IInv, task.at \in {"created", "waiting"}
  PROVE  /\ task.serial = serial /\ serial \in Nat /\ ~starting
BY DEF IInv, TypeOK, ReleaserIsOwner

\* Only a phase with a request has an answer.
LEMMA OnlyAskedAnswer ==
  ASSUME PhaseFits
  PROVE  /\ phase \notin Asked => answer.is = "none"
         /\ phase \in {"none", "queue"} => answer.is = "none"
         /\ answer.is # "none" => phase \in Asked
<1>1. NoAnswer.is = "none"
  BY DEF NoAnswer
<1>2. phase \notin Asked => answer.is = "none"
  BY <1>1 DEF PhaseFits
<1> QED
  BY <1>2 DEF Asked

\* A session hands over a request: one that begins, whatever is still queued, or
\* one that has the queue to itself.
LEMMA AskKeeps ==
  ASSUME ProvidersInv, IInv', NEW what \in Asked \ {"cancel"}, Ask(what),
         task.at \in {"created", "waiting"}, task'.at = "waiting",
         UNCHANGED <<starting, serial, kind, deviceVars, pulses>>,
         polls' \in 0 .. MaxPolls,
         kind \in Broadlink \ {"direct unset"},
         phase \notin Asked,
         what \notin {"sweep", "arm"} => requests = <<>>,
         what = "look" => phase = "sweeping",
         what = "data" => phase = "armed",
         phase = "sweeping" => what = "look"
  PROVE  ProvidersInv'
<1> DEFINE r == [what |-> what, of |-> task.serial]
<1>0. ProvidersTypeOK /\ PhaseFits /\ QueueFits /\ DeviceFits /\ SweepsEnd /\ IInv
  BY DEF ProvidersInv
<1>1. /\ serial \in Nat /\ task.serial = serial /\ ~starting /\ r \in Requests
      /\ requests \in Seq(Requests)
  BY <1>0, WaitIsLatest DEF Requests, ProvidersTypeOK
<1>2. requests' = Append(requests, r) /\ phase' = what /\ answer' = NoAnswer
  BY DEF Ask
<1>r. r.of = serial /\ r.what = what
  BY <1>1
<1> HIDE DEF r
<1>3. /\ requests' \in Seq(Requests) /\ requests' # <<>>
      /\ Len(requests) \in Nat /\ Len(requests') = Len(requests) + 1
      /\ requests'[Len(requests) + 1] = r
      /\ \A i \in 1 .. Len(requests) : requests'[i] = requests[i]
  BY ONLY <1>1, <1>2, JoinsQueue
<1>4. ~Awaits /\ Awaits' /\ answer'.is = "none"
  BY <1>2 DEF Awaits, NoAnswer
<1>e. /\ what \in {"sweep", "look", "arm", "data"}
      /\ what \notin {"sweep", "arm"} => Len(requests) = 0
      /\ what = "look" => phase = "sweeping"
      /\ what = "data" => phase = "armed"
      /\ phase = "sweeping" => what = "look"
      /\ mode' = mode /\ code' = code /\ failed' = failed /\ serial' = serial
  BY EmptySeq DEF deviceVars, Asked
<1>5. ProvidersTypeOK'
  <2>1. NoAnswer \in Answers /\ what \in Phases
    BY DEF NoAnswer, Answers, Phases
  <2> QED
    BY <1>0, <1>2, <1>3, <2>1 DEF ProvidersTypeOK, deviceVars
<1>6. PhaseFits'
  BY <1>0, <1>2 DEF PhaseFits, Asked
<1>7. QueueFits'
  <2>1. \A i \in 1 .. Len(requests) : requests[i].of <= serial /\ requests[i].of # serial
    BY <1>0, <1>4 DEF QueueFits
  <2>2. ASSUME NEW i \in 1 .. Len(requests')
        PROVE  /\ requests'[i].of <= serial
               /\ requests'[i].of = serial => i = Len(requests')
    BY ONLY <1>1, <1>3, <1>r, <2>1
  <2>3. phase' \notin {"none", "queue", "sweep", "arm"} => Len(requests') = 1
    BY ONLY <1>2, <1>3, <1>e
  <2>4. requests'[Len(requests')] = [what |-> phase', of |-> serial]
    BY <1>1, <1>2, <1>3 DEF r
  <2> QED
    BY <1>0, <1>2, <1>3, <1>4, <2>2, <2>3, <2>4 DEF QueueFits
<1>8. DeviceFits'
  BY ONLY <1>0, <1>2, <1>4, <1>e DEF DeviceFits
<1>9. SweepsEnd'
  <2>1. ASSUME NEW i \in 1 .. Len(requests'), requests'[i].what = "sweep"
        PROVE  \/ phase' = "sweep" /\ i = Len(requests')
               \/ \E j \in 1 .. Len(requests') : j > i /\ requests'[j].what = "cancel"
    <3>1. CASE i \in 1 .. Len(requests)
      <4>1. PICK j \in 1 .. Len(requests) : j > i /\ requests[j].what = "cancel"
        BY <1>0, <1>3, <2>1, <3>1 DEF SweepsEnd, Asked
      <4> QED
        BY ONLY <1>3, <4>1
    <3>2. CASE i = Len(requests) + 1
      BY <1>2, <1>3, <1>r, <2>1, <3>2
    <3> QED
      BY ONLY <1>3, <3>1, <3>2
  <2>2. \A j \in 1 .. Len(requests) : j \in 1 .. Len(requests') /\ requests'[j] = requests[j]
    BY ONLY <1>3
  <2>3. phase \in SweepPhases => phase = "sweeping"
    BY DEF Asked, SweepPhases
  <2>4. mode' = "sweeping" => \/ failed'
                              \/ phase' \in SweepPhases
                              \/ \E j \in 1 .. Len(requests') : requests'[j].what = "cancel"
    BY <1>0, <1>2, <1>e, <2>2, <2>3 DEF SweepsEnd, SweepPhases
  <2> QED
    BY ONLY <1>0, <1>2, <1>4, <1>e, <2>1, <2>4 DEF SweepsEnd
<1> QED
  BY <1>5, <1>6, <1>7, <1>8, <1>9 DEF ProvidersInv

\* The first request of a wait meets what earlier sessions left in the queue.
LEMMA WaitBeginsKeeps ==
  ASSUME ProvidersInv, IInv', WaitBegins
  PROVE  ProvidersInv'
<1> USE DEF ProvidersInv
<1>1. /\ task.at = "created" /\ task'.at = "waiting" /\ task' = [task EXCEPT !.at = "waiting"]
      /\ UNCHANGED <<starting, serial, kind, deviceVars, pulses>>
      /\ polls' = 0 /\ 0 \in 0 .. MaxPolls
  <2>1. task \in Tasks /\ task.at = "created" /\ task' = [task EXCEPT !.at = "waiting"]
    BY DEF WaitBegins, TaskBegins, IInv, TypeOK
  <2>2. task'.at = "waiting"
    BY ONLY <2>1 DEF Tasks
  <2>3. UNCHANGED <<starting, serial, kind, deviceVars, pulses>> /\ polls' = 0
    BY DEF WaitBegins, TaskBegins
  <2> QED
    BY <2>1, <2>2, <2>3, ProvidersAssumption
<1>2. phase = "none" /\ answer = NoAnswer /\ ~Awaits
  BY <1>1 DEF PhaseFits, Asked, Awaits
<1>3. CASE kind \in Broadlink \ {"direct unset"}
  <2>1. Ask(FirstPhase(kind)) /\ FirstPhase(kind) \in {"sweep", "arm"}
    BY <1>3 DEF WaitBegins, FirstPhase
  <2> HIDE DEF ProvidersInv
  <2> QED
    BY <1>1, <1>2, <1>3, <2>1, AskKeeps DEF Asked
<1>4. CASE kind \notin Broadlink \ {"direct unset"}
  <2>1. /\ phase' = IF kind = "native" THEN "queue" ELSE "none"
        /\ UNCHANGED <<answer, requests>>
    BY <1>4 DEF WaitBegins
  <2>2. /\ ProvidersTypeOK' /\ PhaseFits' /\ ~Awaits'
    BY <1>1, <1>2, <2>1 DEF ProvidersTypeOK, PhaseFits, Awaits, Phases, Asked, deviceVars
  <2>3. QueueFits'
    BY <1>1, <1>2, <2>1, <2>2 DEF QueueFits
  <2>4. DeviceFits' /\ SweepsEnd'
    BY <1>1, <1>2, <2>1 DEF DeviceFits, SweepsEnd, NoAnswer, SweepPhases, deviceVars
  <2> QED
    BY <2>2, <2>3, <2>4
<1> QED
  BY <1>3, <1>4

\* After a sleep the session has the queue to itself.
LEMMA SleepEndsKeeps ==
  ASSUME ProvidersInv, IInv', SleepEnds
  PROVE  ProvidersInv'
<1>1. /\ task.at = "waiting" /\ task' = task
      /\ UNCHANGED <<starting, serial, kind, deviceVars, pulses>> /\ polls' = polls
      /\ polls \in 0 .. MaxPolls
  BY DEF SleepEnds, Running, vars, ProvidersInv, ProvidersTypeOK
<1>2. phase \in {"sweeping", "found", "armed"} /\ phase \notin Asked
  BY DEF SleepEnds, Asked
<1>3. requests = <<>> /\ kind \in Broadlink \ {"direct unset"}
  BY <1>2 DEF ProvidersInv, QueueFits, PhaseFits, Awaits
<1>4. PICK what \in {"look", "arm", "data"} :
        /\ Ask(what)
        /\ what = "look" <=> phase = "sweeping"
        /\ what = "data" => phase = "armed"
  BY DEF SleepEnds
<1> QED
  BY <1>1, <1>2, <1>3, <1>4, AskKeeps DEF Asked

\* A reply finds the queue empty; the sweep goes on, is over since the carrier was
\* found, or is handed a request to end it.
LEMMA AnsweredKeeps ==
  ASSUME ProvidersInv, IInv', Answered
  PROVE  ProvidersInv'
<1> USE DEF ProvidersInv
<1>1. /\ task.at = "waiting" /\ task' = task
      /\ UNCHANGED <<starting, serial, kind, deviceVars, pulses>>
      /\ answer' = NoAnswer /\ polls \in 0 .. MaxPolls
  BY DEF Answered, Running, vars, ProvidersTypeOK
<1>2. phase \in Asked /\ answer.is # "none" /\ ~Awaits /\ requests = <<>>
  BY DEF Answered, QueueFits, Asked, Awaits
<1>3. /\ kind \in Broadlink \ {"direct unset"}
      /\ task.serial = serial /\ serial \in Nat
  BY <1>1, <1>2, WaitIsLatest DEF PhaseFits, Asked
<1>4. answer'.is = "none" /\ NoAnswer \in Answers
  BY <1>1 DEF NoAnswer, Answers
<1>5. CASE requests' = requests
  <2>1. /\ requests' = <<>>
        /\ \/ phase = "sweep" /\ answer.is = "done" /\ phase' = "sweeping" /\ polls' = 0
           \/ phase = "look" /\ answer.is = "done" /\ phase' = "found" /\ polls' = polls
           \/ phase = "look" /\ phase' = "sweeping" /\ polls' = polls + 1
              /\ polls + 1 < MaxPolls
           \/ phase = "arm" /\ answer.is = "done" /\ phase' = "armed" /\ polls' = 0
           \/ phase = "data" /\ phase' = "armed" /\ polls' = polls + 1
              /\ polls + 1 < MaxPolls
    <3>1. Append(requests, [what |-> "cancel", of |-> task.serial]) # requests
      <4>1. [what |-> "cancel", of |-> task.serial] \in Requests
        BY <1>3 DEF Requests, Asked
      <4> QED
        BY <1>2, <4>1, JoinsQueue, EmptySeq
    <3> QED
      BY <1>2, <1>5, <3>1 DEF Answered
  <2>2. polls' \in 0 .. MaxPolls
    BY <1>1, <2>1, ProvidersAssumption
  <2>3. phase' \in {"sweeping", "found", "armed"} /\ ~Awaits'
    BY ONLY <1>4, <2>1 DEF Awaits, Asked
  <2>4. ProvidersTypeOK' /\ PhaseFits' /\ QueueFits'
    BY <1>1, <1>2, <1>3, <1>4, <2>1, <2>2, <2>3
       DEF ProvidersTypeOK, Phases, PhaseFits, QueueFits, Asked, deviceVars
  <2>5. DeviceFits'
    BY <1>1, <1>4, <2>1 DEF DeviceFits, deviceVars
  <2>6. SweepsEnd'
    BY <1>1, <1>2, <1>4, <2>1 DEF SweepsEnd, SweepPhases, deviceVars
  <2> QED
    BY <2>4, <2>5, <2>6
<1>6. CASE requests' # requests
  <2> DEFINE r == [what |-> "cancel", of |-> task.serial]
  <2>1. requests' = Append(requests, r) /\ phase' = "cancel" /\ polls' = polls
    BY <1>6 DEF Answered
  <2>2. /\ r \in Requests /\ requests \in Seq(Requests) /\ Len(requests) = 0
        /\ r = [what |-> "cancel", of |-> serial]
    BY <1>2, <1>3, EmptySeq DEF Requests, Asked
  <2> HIDE DEF r
  <2>3. /\ requests' \in Seq(Requests) /\ requests' # <<>> /\ Len(requests') = 1
        /\ requests'[1] = [what |-> "cancel", of |-> serial]
    BY ONLY <2>1, <2>2, JoinsQueue
  <2>4. \A i \in 1 .. Len(requests') :
          requests'[i].of = serial /\ requests'[i].what = "cancel" /\ i = Len(requests')
    BY <2>3
  <2>5. Awaits' /\ 1 \in 1 .. Len(requests')
    BY <1>4, <2>1, <2>3 DEF Awaits, Asked
  <2>6. ProvidersTypeOK' /\ PhaseFits'
    BY <1>1, <1>3, <1>4, <2>1, <2>3
       DEF ProvidersTypeOK, Phases, PhaseFits, Asked, deviceVars
  <2>7. QueueFits'
    <3>1. serial' = serial /\ serial \in Nat
      BY <1>1, <1>3
    <3> QED
      BY ONLY <3>1, <2>1, <2>3, <2>4, <2>5 DEF QueueFits
  <2>8. DeviceFits' /\ SweepsEnd'
    BY <1>4, <2>1, <2>4, <2>5 DEF DeviceFits, SweepsEnd, SweepPhases
  <2> QED
    BY <2>6, <2>7, <2>8
<1> QED
  BY <1>5, <1>6

\* A wait that ends by itself has the reply to its last request, or made none; one
\* that is cancelled in sweep_frequency leaves a request to end the sweep behind.
LEMMA WaitIsOverKeeps ==
  ASSUME ProvidersInv, IInv', NEW e \in Endings, WaitIsOver(e)
  PROVE  ProvidersInv'
<1> DEFINE r == [what |-> "cancel", of |-> task.serial]
           cleans == e = "cancelled" /\ phase \in SweepPhases
<1>0. ProvidersTypeOK /\ PhaseFits /\ QueueFits /\ DeviceFits /\ SweepsEnd /\ IInv
  BY DEF ProvidersInv
<1>1. task \in Tasks /\ task.at = "waiting"
  BY <1>0 DEF WaitIsOver, WaitEnds, WaitEndsThenSuspends, WaitOutcome, IInv, TypeOK
<1>2. task.serial = serial /\ serial \in Nat /\ ~starting
  BY <1>0, <1>1, WaitIsLatest
<1>3. ~starting' /\ serial' = serial /\ kind' = kind
      /\ mode' = mode /\ code' = code /\ failed' = failed
  BY <1>2 DEF WaitIsOver, WaitEnds, WaitEndsThenSuspends, deviceVars
<1>4. phase' = "none" /\ polls' = 0 /\ answer' = NoAnswer /\ answer'.is = "none"
  BY DEF WaitIsOver, NoAnswer
<1>5. task'.at \in {"none", "stopping"}
  <2>1. CASE WaitEnds(e)
    BY <2>1 DEF WaitEnds, Finalize, NoTask
  <2>2. CASE WaitEndsThenSuspends(e)
    <3>1. task' = [task EXCEPT !.at = "stopping", !.ending = e, !.cancel = FALSE]
      BY <2>2 DEF WaitEndsThenSuspends
    <3> QED
      BY ONLY <3>1, <1>1 DEF Tasks
  <2> QED
    BY <2>1, <2>2 DEF WaitIsOver
<1>6. requests' = IF cleans THEN Append(requests, r) ELSE requests
  BY DEF WaitIsOver, CleanUp
<1>7. requests \in Seq(Requests) /\ r \in Requests /\ r.what = "cancel" /\ r.of = serial
  BY <1>0, <1>2 DEF ProvidersTypeOK, Requests, Asked
<1>8. e # "cancelled" =>
        \/ phase \in {"none", "queue"}
        \/ /\ phase \in Asked /\ answer.is # "none" /\ requests = <<>>
           /\ \/ answer.is = "failed"
              \/ phase = "cancel" /\ answer.is = "done"
              \/ phase = "data"
  <2> SUFFICES ASSUME e # "cancelled", phase \notin {"none", "queue"}
               PROVE  /\ phase \in Asked /\ answer.is # "none" /\ requests = <<>>
                      /\ \/ answer.is = "failed"
                         \/ phase = "cancel" /\ answer.is = "done"
                         \/ phase = "data"
    OBVIOUS
  <2>1. Gives(e) /\ kind \in Broadlink \ {"direct unset"}
    BY <1>0 DEF WaitIsOver, PhaseFits
  <2>2. kind \notin {"other", "native", "direct unset"}
    BY <2>1 DEF Broadlink
  <2>3. \/ answer.is = "failed"
        \/ phase = "cancel" /\ answer.is = "done"
        \/ phase = "data" /\ answer.is \in {"code", "nothing"}
    BY <2>1, <2>2 DEF Gives
  <2>4. phase \in Asked /\ answer.is # "none"
    BY <1>0, <2>3, OnlyAskedAnswer
  <2>5. requests = <<>>
    BY <1>0, <2>4 DEF QueueFits, Awaits, Asked
  <2> QED
    BY <2>3, <2>4, <2>5
<1> HIDE DEF r
<1>9. /\ requests' \in Seq(Requests)
      /\ Len(requests) \in Nat /\ Len(requests') \in Nat
      /\ Len(requests) <= Len(requests')
      /\ \A i \in 1 .. Len(requests) : requests'[i] = requests[i]
      /\ cleans => Len(requests') = Len(requests) + 1 /\ requests'[Len(requests')] = r
      /\ ~cleans => requests' = requests
  BY ONLY <1>6, <1>7, JoinsQueue
<1>10. ProvidersTypeOK'
  <2>1. pulses' \in [1 .. MaxSerial -> {"none", "dispatched", "queued"}]
    BY <1>0 DEF ProvidersTypeOK, WaitIsOver
  <2>2. NoAnswer \in Answers /\ "none" \in Phases /\ 0 \in 0 .. MaxPolls
    BY ProvidersAssumption DEF NoAnswer, Answers, Phases
  <2> QED
    BY ONLY <1>0, <1>3, <1>4, <1>9, <2>1, <2>2 DEF ProvidersTypeOK
<1>11. PhaseFits' /\ ~Awaits'
  BY ONLY <1>4 DEF PhaseFits, Awaits, Asked
<1>12. QueueFits'
  <2>1. ASSUME NEW i \in 1 .. Len(requests')
        PROVE  requests'[i].of <= serial
    BY ONLY <1>0, <1>2, <1>7, <1>9, <2>1 DEF QueueFits
  <2> QED
    BY ONLY <1>3, <1>4, <1>5, <1>11, <2>1 DEF QueueFits
<1>13. DeviceFits'
  BY ONLY <1>4 DEF DeviceFits
<1>14. SweepsEnd'
  <2>1. ASSUME NEW i \in 1 .. Len(requests'), requests'[i].what = "sweep"
        PROVE  \E j \in 1 .. Len(requests') : j > i /\ requests'[j].what = "cancel"
    <3>1. CASE cleans
      BY ONLY <1>7, <1>9, <2>1, <3>1
    <3>2. CASE ~cleans
      <4>1. i \in 1 .. Len(requests) /\ requests[i].what = "sweep" /\ requests # <<>>
        BY ONLY <1>7, <1>9, <2>1, <3>2, EmptySeq
      <4>2. phase # "sweep"
        BY <1>8, <3>2, <4>1 DEF SweepPhases
      <4> QED
        BY ONLY <1>0, <1>9, <3>2, <4>1, <4>2 DEF SweepsEnd
    <3> QED
      BY <3>1, <3>2
  <2>2. ASSUME mode = "sweeping"
        PROVE  failed \/ \E j \in 1 .. Len(requests') : requests'[j].what = "cancel"
    <3>1. CASE cleans
      BY ONLY <1>7, <1>9, <3>1
    <3>2. CASE ~cleans /\ phase \in SweepPhases
      <4>1. answer.is = "failed" \/ (phase = "cancel" /\ answer.is = "done")
        BY <1>8, <3>2 DEF SweepPhases
      <4> QED
        BY ONLY <1>0, <2>2, <4>1 DEF SweepsEnd
    <3>3. CASE ~cleans /\ phase \notin SweepPhases
      BY ONLY <1>0, <1>9, <2>2, <3>3 DEF SweepsEnd
    <3> QED
      BY <3>1, <3>2, <3>3
  <2> QED
    BY ONLY <1>3, <1>4, <2>1, <2>2 DEF SweepsEnd
<1> QED
  BY <1>10, <1>11, <1>12, <1>13, <1>14 DEF ProvidersInv

\* What a request finds, one by one.
LEMMA OutcomeIs ==
  ASSUME NEW what \in Asked, ProvidersTypeOK
  PROVE  LET out == Outcome(what)
         IN /\ out[1] \in {"done", "nothing", "code"}
            /\ out[2] \in {"idle", "sweeping", "locked", "armed"}
            /\ out[3] \in {0, code}
            /\ what = "sweep" => out[2] = "sweeping"
            /\ what = "look" => out[2] = mode /\ (out[1] = "done" => mode = "locked")
            /\ what = "cancel" => out[2] # "sweeping"
            /\ what = "arm" => out[2] = "armed" /\ out[3] = 0
            /\ what = "data" => out[2] \in {mode, "idle"} /\ out[3] = 0
            /\ out[1] = "code" => what = "data" /\ code # 0
<1>1. what \in {"sweep", "look", "cancel", "arm", "data"}
  BY DEF Asked
<1>2. mode \in {"idle", "sweeping", "locked", "armed"} /\ code \in Nat
  BY DEF ProvidersTypeOK
<1>3. CASE what = "sweep"
  <2>1. Outcome(what) = <<"done", "sweeping", code>>
    BY <1>3 DEF Outcome
  <2> QED
    BY ONLY <1>2, <1>3, <2>1
<1>4. CASE what = "look"
  <2>1. Outcome(what) = <<IF mode = "locked" THEN "done" ELSE "nothing", mode, code>>
    BY <1>4 DEF Outcome
  <2> QED
    BY ONLY <1>2, <1>4, <2>1
<1>5. CASE what = "cancel"
  <2>1. Outcome(what) = <<"done", IF mode \in {"sweeping", "locked"} THEN "idle" ELSE mode,
                          code>>
    BY <1>5 DEF Outcome
  <2> QED
    BY ONLY <1>2, <1>5, <2>1
<1>6. CASE what = "arm"
  <2>1. Outcome(what) = <<"done", "armed", 0>>
    BY <1>6 DEF Outcome
  <2> QED
    BY ONLY <1>2, <1>6, <2>1
<1>7. CASE what = "data"
  <2>1. Outcome(what) = IF code = 0 THEN <<"nothing", mode, 0>> ELSE <<"code", "idle", 0>>
    BY <1>7 DEF Outcome
  <2> QED
    BY ONLY <1>2, <1>7, <2>1
<1> QED
  BY <1>1, <1>3, <1>4, <1>5, <1>6, <1>7

\* A request is carried out for the session that awaits it, and then it was the
\* last; or for one before, and the session that runs still awaits its first.
LEMMA CarryOutKeeps ==
  ASSUME ProvidersInv, IInv', CarryOut
  PROVE  ProvidersInv'
<1> DEFINE h == requests[1]
           out == Outcome(h.what)
           mine == task.at = "waiting" /\ phase = h.what /\ h.of = task.serial
           n == Len(requests)
<1>0. ProvidersTypeOK /\ PhaseFits /\ QueueFits /\ DeviceFits /\ SweepsEnd /\ IInv
  BY DEF ProvidersInv
<1>1. /\ phase' = phase /\ kind' = kind /\ polls' = polls /\ pulses' = pulses
      /\ task' = task /\ starting' = starting /\ serial' = serial
  BY DEF CarryOut, vars
<1>2. requests \in Seq(Requests) /\ requests # <<>> /\ requests' = Tail(requests)
  BY <1>0 DEF CarryOut, ProvidersTypeOK
<1>3. /\ Head(requests) = h /\ h \in Requests
      /\ requests' \in Seq(Requests) /\ n \in Nat \ {0} /\ Len(requests') = n - 1
      /\ \A i \in 1 .. n - 1 : requests'[i] = requests[i + 1]
      /\ requests' = <<>> <=> n = 1
  BY ONLY <1>2, LeavesQueue
<1>4. h.what \in Asked /\ h.of \in Nat /\ serial \in Nat
  BY ONLY <1>0, <1>3 DEF Requests, IInv, TypeOK
<1>5. \/ /\ answer' = IF mine
                      THEN [is |-> out[1], of |-> IF h.what = "data" THEN code ELSE 0]
                      ELSE answer
         /\ mode' = out[2] /\ code' = out[3] /\ failed' = (failed /\ h.what # "sweep")
      \/ /\ answer' = IF mine THEN [is |-> "failed", of |-> 0] ELSE answer
         /\ mode' \in {mode, out[2]} /\ code' = code /\ failed' = TRUE
  BY <1>3 DEF CarryOut, Reply
<1>6. /\ out[1] \in {"done", "nothing", "code"}
      /\ out[2] \in {"idle", "sweeping", "locked", "armed"}
      /\ out[3] \in {0, code}
      /\ h.what = "sweep" => out[2] = "sweeping"
      /\ h.what = "look" => out[2] = mode /\ (out[1] = "done" => mode = "locked")
      /\ h.what = "cancel" => out[2] # "sweeping"
      /\ h.what = "arm" => out[2] = "armed" /\ out[3] = 0
      /\ h.what = "data" => out[2] \in {mode, "idle"} /\ out[3] = 0
      /\ out[1] = "code" => h.what = "data" /\ code # 0
  BY ONLY <1>0, <1>4, OutcomeIs
<1> HIDE DEF out, h, n
<1>7. phase # "none" => task.serial = serial /\ task.at = "waiting"
  BY <1>0, WaitIsLatest DEF PhaseFits
<1>8. ASSUME mine
      PROVE  Awaits /\ n = 1 /\ requests' = <<>> /\ phase = h.what
  <2>1. h.of = serial /\ 1 \in 1 .. n
    BY <1>0, <1>3, <1>8, WaitIsLatest
  <2>2. \A i \in 1 .. n : requests[i].of = serial => Awaits /\ i = n
    BY <1>0, <1>8 DEF QueueFits, n
  <2> QED
    BY <1>3, <1>8, <2>1, <2>2 DEF h
<1>9. ASSUME ~mine
      PROVE  /\ answer' = answer /\ answer.is = "none"
             /\ \/ phase \in {"none", "queue"}
                \/ Awaits /\ n > 1 /\ phase \in {"sweep", "arm"}
  <2>1. answer' = answer
    BY ONLY <1>5, <1>9
  <2>2. ASSUME phase \notin {"none", "queue"}
        PROVE  Awaits
    BY <1>0, <1>2, <2>2 DEF QueueFits
  <2>3. ASSUME Awaits
        PROVE  n > 1 /\ phase \in {"sweep", "arm"}
    <3>1. phase \in Asked /\ phase \notin {"none", "queue"}
      BY ONLY <2>3 DEF Awaits, Asked
    <3>2. requests[n] = [what |-> phase, of |-> serial]
      BY <1>0, <2>3 DEF QueueFits, n
    <3>3. n # 1
      BY <1>7, <1>9, <3>1, <3>2 DEF h
    <3>4. phase \in {"sweep", "arm"}
      BY <1>0, <2>3, <3>1, <3>3 DEF QueueFits, n
    <3> QED
      BY ONLY <1>3, <3>3, <3>4
  <2>4. answer.is = "none"
    BY <1>0, <2>2, <2>3, OnlyAskedAnswer DEF Awaits
  <2> QED
    BY <2>1, <2>2, <2>3, <2>4
<1>10. /\ mine => answer'.is # "none" /\ ~Awaits'
       /\ ~mine => Awaits' = Awaits
  <2>1. ASSUME mine PROVE answer'.is # "none"
    BY ONLY <1>5, <1>6, <2>1
  <2> QED
    BY <1>1, <1>9, <2>1 DEF Awaits
<1>11. ProvidersTypeOK'
  <2>1. mode' \in {"idle", "sweeping", "locked", "armed"} /\ failed' \in BOOLEAN
    BY ONLY <1>0, <1>5, <1>6 DEF ProvidersTypeOK
  <2>2. code' \in Nat
    BY ONLY <1>0, <1>5, <1>6 DEF ProvidersTypeOK
  <2>3. answer' \in Answers
    <3>1. code \in Nat /\ answer \in Answers
      BY <1>0 DEF ProvidersTypeOK
    <3> QED
      BY ONLY <1>5, <1>6, <3>1 DEF Answers
  <2> QED
    BY ONLY <1>0, <1>1, <1>3, <2>1, <2>2, <2>3 DEF ProvidersTypeOK
<1>12. PhaseFits'
  <2>1. phase \notin Asked => ~mine
    BY <1>8 DEF Awaits
  <2> QED
    BY ONLY <1>0, <1>1, <1>9, <2>1 DEF PhaseFits
<1>13. QueueFits'
  <2>1. CASE mine
    <3>1. Len(requests') = 0 /\ requests' = <<>>
      BY <1>3, <1>8, <2>1
    <3> QED
      BY ONLY <1>10, <2>1, <3>1 DEF QueueFits
  <2>2. CASE ~mine
    <3>1. ASSUME NEW i \in 1 .. Len(requests')
          PROVE  /\ requests'[i].of <= serial
                 /\ starting \/ task.at \in {"created", "waiting"} =>
                      (requests'[i].of = serial => Awaits /\ i = Len(requests'))
      <4>1. i + 1 \in 1 .. n /\ requests'[i] = requests[i + 1] /\ i + 1 = n <=> i = n - 1
        BY ONLY <1>3, <3>1
      <4> QED
        BY ONLY <1>0, <1>3, <3>1, <4>1 DEF QueueFits, n
    <3>2. ASSUME Awaits
          PROVE  /\ requests' # <<>>
                 /\ requests'[Len(requests')] = [what |-> phase, of |-> serial]
                 /\ phase \in {"sweep", "arm"}
      <4>1. n > 1 /\ phase \in {"sweep", "arm"}
        BY <1>9, <2>2, <3>2 DEF Awaits, Asked
      <4>2. requests[n] = [what |-> phase, of |-> serial]
        BY <1>0, <3>2 DEF QueueFits, n
      <4> QED
        BY ONLY <1>3, <4>1, <4>2
    <3>3. ~Awaits => phase \in {"none", "queue"}
      BY <1>9, <2>2
    <3> QED
      BY ONLY <1>1, <1>10, <2>2, <3>1, <3>2, <3>3 DEF QueueFits
  <2> QED
    BY <2>1, <2>2
<1>14. DeviceFits'
  <2>1. phase \notin {"sweeping", "armed", "found"}
    BY <1>8, <1>9 DEF Awaits, Asked
  <2>2. CASE mine
    <3>1. phase = h.what
      BY <1>8, <2>2
    <3>2. phase \in {"look"} => mode \in {"sweeping", "locked"}
      BY <1>0 DEF DeviceFits
    <3>3. phase \in {"data"} => code \in {0, serial}
      BY <1>0 DEF DeviceFits
    <3>4. answer'.is = "done" /\ phase = "sweep" => mode' = "sweeping"
      BY ONLY <1>5, <1>6, <2>2, <3>1
    <3>5. answer'.is = "done" /\ phase = "arm" => code' = 0
      BY ONLY <1>5, <1>6, <2>2, <3>1
    <3>6. phase = "look" => mode' = mode
      BY ONLY <1>5, <1>6, <3>1
    <3>7. phase = "data" => code' \in {0, code}
      BY ONLY <1>5, <1>6, <3>1
    <3>8. answer'.is = "code" => phase = "data" /\ code # 0 /\ answer'.of = code
      BY ONLY <1>5, <1>6, <2>2, <3>1
    <3> QED
      BY ONLY <1>1, <2>1, <3>2, <3>3, <3>4, <3>5, <3>6, <3>7, <3>8 DEF DeviceFits
  <2>3. CASE ~mine
    <3>1. phase \in {"none", "queue", "sweep", "arm"} /\ answer'.is = "none"
      BY <1>9, <2>3
    <3> QED
      BY ONLY <1>1, <3>1 DEF DeviceFits
  <2> QED
    BY <2>2, <2>3
<1>15. SweepsEnd'
  <2>1. ASSUME NEW i \in 1 .. Len(requests'), requests'[i].what = "sweep"
        PROVE  \/ phase = "sweep" /\ i = Len(requests')
               \/ \E j \in 1 .. Len(requests') : j > i /\ requests'[j].what = "cancel"
    <3>1. i + 1 \in 1 .. n /\ requests[i + 1].what = "sweep" /\ i \in Nat
      BY ONLY <1>3, <2>1
    <3>2. CASE phase = "sweep" /\ i + 1 = n
      BY ONLY <1>3, <3>1, <3>2
    <3>3. CASE \E j \in 1 .. n : j > i + 1 /\ requests[j].what = "cancel"
      <4>1. PICK j \in 1 .. n : j > i + 1 /\ requests[j].what = "cancel"
        BY <3>3
      <4>2. j - 1 \in 1 .. Len(requests') /\ j - 1 > i /\ requests'[j - 1] = requests[j]
        BY ONLY <1>3, <3>1, <4>1
      <4> QED
        BY <4>1, <4>2
    <3> QED
      BY <1>0, <3>1, <3>2, <3>3 DEF SweepsEnd, n
  <2>2. ASSUME NEW j \in 1 .. n, j # 1, requests[j].what = "cancel"
        PROVE  \E i \in 1 .. Len(requests') : requests'[i].what = "cancel"
    <3>1. j - 1 \in 1 .. Len(requests') /\ requests'[j - 1] = requests[j]
      BY ONLY <1>3, <2>2
    <3> QED
      BY <2>2, <3>1
  <2>3. ASSUME mode' = "sweeping", ~failed', phase \notin SweepPhases
        PROVE  \E i \in 1 .. Len(requests') : requests'[i].what = "cancel"
    <3>1. CASE h.what = "sweep"
      <4>1. h = requests[1] /\ 1 \in 1 .. n /\ phase # "sweep"
        BY <1>3, <2>3 DEF h, SweepPhases
      <4>2. PICK j \in 1 .. n : j > 1 /\ requests[j].what = "cancel"
        BY <1>0, <3>1, <4>1 DEF SweepsEnd, n
      <4> QED
        BY <2>2, <4>2
    <3>2. CASE h.what # "sweep"
      <4>1. mode = "sweeping" /\ ~failed /\ h.what # "cancel"
        BY ONLY <1>0, <1>4, <1>5, <1>6, <2>3, <3>2 DEF Asked, ProvidersTypeOK
      <4>2. PICK j \in 1 .. n : requests[j].what = "cancel"
        BY <1>0, <2>3, <4>1 DEF SweepsEnd, n
      <4>3. j # 1
        BY <4>1, <4>2 DEF h
      <4> QED
        BY <2>2, <4>2, <4>3
    <3> QED
      BY <3>1, <3>2
  <2>4. phase # "found"
    BY <1>8, <1>9 DEF Awaits, Asked
  <2>5. CASE mine
    <3>1. phase = h.what
      BY <1>8, <2>5
    <3>2. phase = "look" /\ answer'.is = "done" => mode' = "locked"
      BY ONLY <1>5, <1>6, <2>5, <3>1
    <3>3. phase = "cancel" /\ answer'.is = "done" => mode' # "sweeping"
      BY ONLY <1>5, <1>6, <2>5, <3>1
    <3>4. answer'.is = "failed" => failed'
      BY ONLY <1>5, <1>6, <2>5
    <3> QED
      BY ONLY <1>1, <2>1, <2>3, <2>4, <3>2, <3>3, <3>4 DEF SweepsEnd
  <2>6. CASE ~mine
    <3>1. answer'.is = "none"
      BY <1>9, <2>6
    <3> QED
      BY ONLY <1>1, <2>1, <2>3, <2>4, <3>1 DEF SweepsEnd
  <2> QED
    BY <2>5, <2>6
<1> QED
  BY <1>11, <1>12, <1>13, <1>14, <1>15 DEF ProvidersInv

\* A key that is pressed, on either receiver, and a pulse that is brought to its
\* provider change nothing but what the hardware holds.
LEMMA OutsideKeeps ==
  ASSUME ProvidersInv, IInv', DeviceHears \/ ReceiverHears \/ Dispatch
  PROVE  ProvidersInv'
<1>0. ProvidersTypeOK /\ PhaseFits /\ QueueFits /\ DeviceFits /\ SweepsEnd /\ IInv
  BY DEF ProvidersInv
<1>1. /\ phase' = phase /\ kind' = kind /\ polls' = polls /\ answer' = answer
      /\ task' = task /\ starting' = starting /\ serial' = serial
      /\ requests' = requests /\ failed' = failed
  BY DEF DeviceHears, ReceiverHears, Dispatch, vars, waitVars, deviceVars
<1>2. \/ mode = "sweeping" /\ mode' = "locked" /\ code' = code
      \/ mode' = mode /\ code' \in {code, serial}
  BY DEF DeviceHears, ReceiverHears, Dispatch, deviceVars
<1>3. serial \in Nat
  BY <1>0 DEF IInv, TypeOK
<1>4. ProvidersTypeOK'
  <2>1. mode' \in {"idle", "sweeping", "locked", "armed"} /\ code' \in Nat
    BY <1>0, <1>2, <1>3 DEF ProvidersTypeOK
  <2>2. pulses' \in [1 .. MaxSerial -> {"none", "dispatched", "queued"}]
    BY <1>0 DEF ProvidersTypeOK, DeviceHears, ReceiverHears, Dispatch
  <2> QED
    BY ONLY <1>0, <1>1, <2>1, <2>2 DEF ProvidersTypeOK
<1>5. PhaseFits' /\ QueueFits'
  BY ONLY <1>0, <1>1 DEF PhaseFits, QueueFits, Awaits
<1>6. DeviceFits' /\ SweepsEnd'
  BY ONLY <1>0, <1>1, <1>2 DEF DeviceFits, SweepsEnd
<1> QED
  BY <1>4, <1>5, <1>6 DEF ProvidersInv

\* A caller cancels the task, and listeners come and go, at any time.
LEMMA CallersKeep ==
  ASSUME ProvidersInv, IInv',
         \/ \E c \in Callers, s \in Sessions : Cancels(c, s)
         \/ \E k \in Listeners, s \in Sessions : Listening(k, s)
  PROVE  ProvidersInv'
<1>0. ProvidersTypeOK /\ PhaseFits /\ QueueFits /\ DeviceFits /\ SweepsEnd /\ IInv
  BY DEF ProvidersInv
<1>1. /\ phase' = phase /\ kind' = kind /\ polls' = polls /\ answer' = answer
      /\ requests' = requests /\ mode' = mode /\ code' = code /\ failed' = failed
      /\ pulses' = pulses
  BY DEF Cancels, Listening, providerVars, waitVars, deviceVars
<1>2. starting' = starting /\ serial' = serial
  BY DEF Cancels, Cancel, CancelTask, Listening, Subscribe, Unsubscribe
<1>3. task \in Tasks /\ (task' = task \/ task' = [task EXCEPT !.cancel = TRUE])
  BY <1>0 DEF Cancels, Cancel, CancelTask, Listening, Subscribe, Unsubscribe, IInv, TypeOK
<1>4. task'.at = task.at
  BY ONLY <1>3 DEF Tasks
<1>5. ProvidersTypeOK'
  BY ONLY <1>0, <1>1 DEF ProvidersTypeOK
<1>6. PhaseFits' /\ QueueFits'
  BY ONLY <1>0, <1>1, <1>2, <1>4 DEF PhaseFits, QueueFits, Awaits
<1>7. DeviceFits' /\ SweepsEnd'
  BY ONLY <1>0, <1>1, <1>2 DEF DeviceFits, SweepsEnd
<1> QED
  BY <1>5, <1>6, <1>7 DEF ProvidersInv

\* Sessions that begin and tasks that die meet no wait: phase is "none".
LEMMA BeginsKeep ==
  ASSUME ProvidersInv, IInv',
         \/ \E s \in Sessions, k \in Kinds : Begin(s, k)
         \/ \E s \in Sessions : BeginFails(s)
         \/ BeginResumes
         \/ TaskDies /\ UNCHANGED providerVars
  PROVE  ProvidersInv'
<1>0. ProvidersTypeOK /\ PhaseFits /\ IInv
  BY DEF ProvidersInv
<1>1. task \in Tasks /\ serial \in Nat /\ kind \in Kinds \cup {"none"}
  BY <1>0 DEF ProvidersTypeOK, IInv, TypeOK
<1>2. UNCHANGED <<phase, polls, answer, requests, deviceVars, pulses>>
  BY DEF Begin, BeginFails, BeginResumes, providerVars, waitVars
<1>3. kind' \in Kinds \cup {"none"}
  BY <1>1 DEF Begin, BeginFails, BeginResumes, providerVars, waitVars
<1>4. ASSUME \/ \E s \in Sessions, k \in Kinds : Begin(s, k)
             \/ \E s \in Sessions : BeginFails(s)
      PROVE  task.at = "none" /\ serial' = serial + 1 /\ task'.at \in {"none", "created"}
  <2>1. PICK s \in Sessions : Start(s) \/ StartRaises(s) \/ StartSuspends(s)
    BY <1>4 DEF Begin, BeginFails
  <2>2. task = NoTask /\ serial' = serial + 1
    BY <1>0, <2>1 DEF IInv, FreeMeansClean, Start, StartRaises, StartSuspends, Acquire
  <2>3. task' = task \/ task' = NewTask(s, serial + 1)
    BY <2>1 DEF Start, StartRaises, StartSuspends, Listen
  <2> QED
    BY <2>2, <2>3 DEF NoTask, NewTask
<1>5. ASSUME BeginResumes
      PROVE  task.at = "none" /\ starting /\ serial' = serial /\ ~starting'
             /\ task'.at \in {"none", "created"}
  <2>1. task = NoTask /\ starting
    BY <1>0, <1>5 DEF IInv, BeginResumes, StartEnds, StartResumes, StartResumesRaising
  <2> QED
    BY <1>5, <2>1 DEF BeginResumes, StartEnds, StartResumes, StartResumesRaising, Listen,
                      NewTask, NoTask
<1>6. ASSUME TaskDies
      PROVE  /\ task.at \in {"created", "stopping"} /\ task'.at \in {"none", "dead"}
             /\ serial' = serial /\ starting' = starting /\ ~starting
  <2>1. task.at \in {"created", "stopping"} /\ serial' = serial /\ starting' = starting
    BY <1>6 DEF TaskDies, TaskCancelledUnbegun, StopResumes, StopCancelled
  <2>2. task' = NoTask \/ task' = [task EXCEPT !.at = "dead"]
    BY <1>6 DEF TaskDies, TaskCancelledUnbegun, StopResumes, StopCancelled, Finalize
  <2>3. task'.at \in {"none", "dead"}
    BY ONLY <1>1, <2>2 DEF Tasks, NoTask
  <2>4. ~starting
    BY <1>0, <2>1 DEF IInv, ReleaserIsOwner
  <2> QED
    BY <2>1, <2>3, <2>4
<1>7. /\ task.at # "waiting" /\ task'.at # "waiting" /\ serial' >= serial
      /\ starting' \/ task'.at = "created" =>
           serial' > serial \/ starting \/ task.at = "created"
  BY <1>1, <1>4, <1>5, <1>6
<1>8. phase = "none"
  BY <1>0, <1>7 DEF PhaseFits
<1> QED
  BY <1>2, <1>3, <1>7, <1>8, BetweenWaits

-------------------------------------------------------------------------------
(* The theorems.                                                           *)

\* With the providers the program has, the orchestrator does nothing that it may
\* not do with any: what is proved of it holds.
THEOREM ProvidersRefinement == ProvidersSpec => Spec
<1>1. ProvidersInit => Init
  BY DEF ProvidersInit
<1> QED
  BY <1>1, ProvidersOnlyOperate, PTL DEF ProvidersSpec, Spec

\* At the start nothing is asked, and the device is idle.
LEMMA ProvidersInitially == ProvidersInit => ProvidersInv
<1> SUFFICES ASSUME ProvidersInit PROVE ProvidersInv
  OBVIOUS
<1>1. IInv
  BY InitIInv DEF ProvidersInit
<1>2. requests = <<>> /\ Len(requests) = 0 /\ requests \in Seq(Requests)
  BY EmptySeq DEF ProvidersInit
<1>3. phase = "none" /\ answer = NoAnswer /\ answer.is = "none" /\ mode = "idle"
  BY DEF ProvidersInit, NoAnswer
<1>4. ProvidersTypeOK
  <2>1. NoAnswer \in Answers /\ "none" \in Phases /\ 0 \in 0 .. MaxPolls
    BY ProvidersAssumption DEF NoAnswer, Answers, Phases
  <2> QED
    BY <1>2, <2>1 DEF ProvidersInit, ProvidersTypeOK
<1>5. PhaseFits /\ QueueFits
  BY ONLY <1>2, <1>3 DEF PhaseFits, QueueFits, Awaits, Asked
<1>6. DeviceFits /\ SweepsEnd
  BY ONLY <1>2, <1>3 DEF DeviceFits, SweepsEnd
<1> QED
  BY <1>1, <1>4, <1>5, <1>6 DEF ProvidersInv

\* Every step of sessions, device and receiver keeps the invariant.
LEMMA ProvidersStep ==
  ASSUME ProvidersInv, [ProvidersNext]_allVars
  PROVE  ProvidersInv'
<1>1. IInv'
  BY ProvidersOnlyOperate, NextIInv DEF ProvidersInv
<1>2. CASE UNCHANGED allVars
  <2>1. /\ UNCHANGED <<phase, kind, polls, answer, requests, mode, code, failed, pulses>>
        /\ UNCHANGED <<task, starting, serial>>
    BY <1>2 DEF allVars, vars, providerVars, waitVars, deviceVars
  <2>2. ProvidersTypeOK' /\ PhaseFits' /\ QueueFits'
    BY <2>1 DEF ProvidersInv, ProvidersTypeOK, PhaseFits, QueueFits, Awaits
  <2>3. DeviceFits' /\ SweepsEnd'
    BY <2>1 DEF ProvidersInv, DeviceFits, SweepsEnd
  <2> QED
    BY <1>1, <2>2, <2>3 DEF ProvidersInv
<1>3. CASE ProvidersNext
  <2>1. CASE CarryOut
    BY <1>1, <2>1, CarryOutKeeps
  <2>2. CASE DeviceHears \/ ReceiverHears \/ Dispatch
    BY <1>1, <2>2, OutsideKeeps
  <2>3. CASE WaitStep
    BY <1>1, <2>3, WaitBeginsKeeps, SleepEndsKeeps, AnsweredKeeps, WaitIsOverKeeps
       DEF WaitStep
  <2>4. CASE \/ \E c \in Callers, s \in Sessions : Cancels(c, s)
             \/ \E k \in Listeners, s \in Sessions : Listening(k, s)
    BY <1>1, <2>4, CallersKeep
  <2>5. CASE \/ \E s \in Sessions, k \in Kinds : Begin(s, k)
             \/ \E s \in Sessions : BeginFails(s)
             \/ BeginResumes
             \/ TaskDies /\ UNCHANGED providerVars
    BY <1>1, <2>5, BeginsKeep
  <2> QED
    BY <1>3, <2>1, <2>2, <2>3, <2>4, <2>5 DEF ProvidersNext, SessionStep
<1> QED
  BY <1>2, <1>3

\* The inductive invariant of the orchestrator with its providers.
THEOREM ProvidersInvariance == ProvidersSpec => []ProvidersInv
BY ProvidersInitially, ProvidersStep, PTL DEF ProvidersSpec

\* While a session looks for a carrier the device sweeps for it: no request that a
\* session before it left in the queue stops the sweep.
THEOREM SweepNotStopped == ProvidersSpec => []SweepIsNotStopped
<1>1. ProvidersInv => SweepIsNotStopped
  BY DEF ProvidersInv, DeviceFits, SweepIsNotStopped
<1> QED
  BY <1>1, ProvidersInvariance, PTL

\* With no session and no request left, the device sweeps only if a request to look
\* at its sweep or to end it failed.
THEOREM SweepEnded == ProvidersSpec => []SweepIsEnded
<1>1. ProvidersInv => SweepIsEnded
  <2> SUFFICES ASSUME ProvidersInv, ~lock, requests = <<>>, mode = "sweeping"
               PROVE  failed
    BY DEF SweepIsEnded
  <2>1. task = NoTask /\ task.at = "none"
    BY DEF ProvidersInv, IInv, FreeMeansClean, NoTask
  <2>2. phase = "none"
    BY <2>1 DEF ProvidersInv, PhaseFits
  <2>3. Len(requests) = 0
    BY EmptySeq
  <2> QED
    BY <2>2, <2>3 DEF ProvidersInv, SweepsEnd, SweepPhases
<1> QED
  BY <1>1, ProvidersInvariance, PTL

\* The code a session is given was pressed while it ran.
THEOREM OwnPulse == ProvidersSpec => []PulseOfItsSession
<1>1. ProvidersInv => PulseOfItsSession
  <2> SUFFICES ASSUME ProvidersInv, answer.is = "code"
               PROVE  answer.of = task.serial
    BY DEF PulseOfItsSession
  <2>1. answer.of = serial /\ task.at = "waiting" /\ IInv
    BY DEF ProvidersInv, DeviceFits, PhaseFits
  <2> QED
    BY <2>1, WaitIsLatest
<1> QED
  BY <1>1, ProvidersInvariance, PTL

================================================================================
