---------------------------- MODULE CaptureProviders ----------------------------
(***************************************************************************)
(* The capture orchestrator with the providers command/learn gives it      *)
(* (adapters/capture/native_ir.py, adapters/capture/broadlink_rf.py and    *)
(* the receiver in adapters/receivers/broadlink_rf.py).                    *)
(*                                                                         *)
(* A native provider subscribes to an infrared receiver and waits on a     *)
(* queue.  A Broadlink provider does nothing at its start and its stop:    *)
(* its wait sends the device one request after the other and polls it once *)
(* a second, up to LEARNING_TIMEOUT_S a phase.  Requests go through the    *)
(* Broadlink integration's async_request, which carries them out one at a  *)
(* time, in order; a request that was handed over is carried out even if   *)
(* the coroutine that awaits it is cancelled.  All the sessions share the  *)
(* device.  "other" is any provider the orchestrator's contract admits.    *)
(***************************************************************************)
EXTENDS CaptureOrchestrator, Sequences

CONSTANT
  MaxPolls  \* polls of one phase before LEARNING_TIMEOUT_S is over

ASSUME ProvidersAssumption == MaxPolls \in Nat \ {0}

VARIABLES
  kind,      \* kind of the provider of the latest session
  phase,     \* where its async_wait_for_signal is suspended: in a request it
             \* awaits, in a sleep, or "none"
  polls,     \* unanswered polls of this phase
  answer,    \* the reply to the request it awaits, "none" while there is none
  requests,  \* requests handed to async_request and not carried out, in order
  mode,      \* what the Broadlink device is doing
  code,      \* the pulse its memory holds: the session it was pressed in, or 0
  failed,    \* history: a request that looks at or ends the latest sweep failed
  pulses     \* pulses[n]: where a pulse heard by native provider n is

deviceVars == <<mode, code, failed>>
waitVars == <<kind, phase, polls, answer>>
providerVars == <<waitVars, requests, deviceVars, pulses>>
allVars == <<vars, providerVars>>

-------------------------------------------------------------------------------
Broadlink == {"sweep", "direct", "direct unset", "ir"}
Kinds == Broadlink \cup {"native", "other"}

\* What may be asked of the device: find_rf_packet and enter_learning arm it,
\* check_frequency looks at a sweep and check_data at what was heard.
Asked == {"sweep", "look", "cancel", "arm", "data"}

\* Phases in which sweep_frequency, with its handler for a cancellation, runs.
SweepPhases == {"sweep", "sweeping", "look", "cancel"}

Phases == Asked \cup {"none", "queue", "sweeping", "found", "armed"}

Requests == [what : Asked, of : Nat]
Answers == [is : {"none", "done", "nothing", "code", "failed"}, of : Nat]
NoAnswer == [is |-> "none", of |-> 0]

ProvidersTypeOK ==
  /\ kind \in Kinds \cup {"none"}
  /\ phase \in Phases
  /\ polls \in 0 .. MaxPolls
  /\ answer \in Answers
  /\ requests \in Seq(Requests)
  /\ mode \in {"idle", "sweeping", "locked", "armed"}
  /\ code \in Nat
  /\ failed \in BOOLEAN
  /\ pulses \in [1 .. MaxSerial -> {"none", "dispatched", "queued"}]

ProvidersInit ==
  /\ Init
  /\ kind = "none" /\ phase = "none" /\ polls = 0 /\ answer = NoAnswer
  /\ requests = <<>>
  /\ mode = "idle" /\ code = 0 /\ failed = FALSE
  /\ pulses = [n \in 1 .. MaxSerial |-> "none"]

-------------------------------------------------------------------------------
(* Sessions begin.                                                         *)

\* start_capture with a provider of kind k.
Begin(s, k) ==
  /\ Start(s) \/ (k = "other" /\ StartSuspends(s))
  /\ kind' = k
  /\ UNCHANGED <<phase, polls, answer, requests, deviceVars, pulses>>

\* No device behind the entity, or a receiver that cannot be subscribed to.
BeginFails(s) == StartRaises(s) /\ UNCHANGED providerVars

BeginResumes == StartEnds /\ UNCHANGED providerVars

Cancels(c, s) == Cancel(c, s) /\ UNCHANGED providerVars

Listening(k, s) == (Subscribe(k, s) \/ Unsubscribe(k)) /\ UNCHANGED providerVars

-------------------------------------------------------------------------------
(* async_wait_for_signal of the latest session.                            *)

Ask(what) ==
  /\ requests' = Append(requests, [what |-> what, of |-> task.serial])
  /\ phase' = what
  /\ answer' = NoAnswer

\* Mutant: a direct capture polls without having armed the device.
FirstPhaseUnarmed(k) ==
  IF k = "direct" THEN "data" ELSE IF k = "sweep" THEN "sweep" ELSE "arm"

\* The first request of a Broadlink wait: the sweep, or at once the capture.
FirstPhase(k) == IF k = "sweep" THEN "sweep" ELSE "arm"

\* The task's first step runs the wait to its first suspension.  A direct
\* capture without a frequency has none: the assertion fails, see Gives.
WaitBegins ==
  /\ TaskBegins
  /\ polls' = 0
  /\ IF kind \in Broadlink \ {"direct unset"}
     THEN Ask(FirstPhase(kind))
     ELSE /\ phase' = IF kind = "native" THEN "queue" ELSE "none"
          /\ UNCHANGED <<answer, requests>>
  /\ UNCHANGED <<kind, deviceVars, pulses>>

Running == task.at = "waiting" /\ ~task.cancel

\* A sleep ends: of one second between two polls, or between sweep and capture.
SleepEnds ==
  /\ Running
  /\ \/ phase = "sweeping" /\ Ask("look")
     \/ phase = "found" /\ Ask("arm")
     \/ phase = "armed" /\ Ask("data")
  /\ UNCHANGED <<vars, kind, polls, deviceVars, pulses>>

\* Mutant: the sweep is cancelled at the deadline and polled on for ever.
AnswerSweepsOn ==
  /\ Running
  /\ \/ /\ phase = "sweep" /\ answer.is = "done"
        /\ phase' = "sweeping" /\ polls' = 0
        /\ UNCHANGED requests
     \/ /\ phase = "look" /\ answer.is = "done"
        /\ phase' = "found"
        /\ UNCHANGED <<polls, requests>>
     \/ /\ phase = "look" /\ answer.is = "nothing"
        /\ phase' = "sweeping" /\ polls' = polls + 1
        /\ requests' = IF polls + 1 = MaxPolls
                       THEN Append(requests, [what |-> "cancel", of |-> task.serial])
                       ELSE requests
     \/ /\ phase = "arm" /\ answer.is = "done"
        /\ phase' = "armed" /\ polls' = 0
        /\ UNCHANGED requests
     \/ /\ phase = "data" /\ answer.is = "nothing"
        /\ polls + 1 < MaxPolls
        /\ phase' = "armed" /\ polls' = polls + 1
        /\ UNCHANGED requests
  /\ answer' = NoAnswer
  /\ UNCHANGED <<vars, kind, deviceVars, pulses>>

\* A reply that does not end the wait.  A poll without success is followed by
\* another, or by the end of the phase, which may come after any poll: only the
\* time they take counts.
Answered ==
  /\ Running
  /\ \/ /\ phase = "sweep" /\ answer.is = "done"
        /\ phase' = "sweeping" /\ polls' = 0
        /\ UNCHANGED requests
     \/ /\ phase = "look" /\ answer.is = "done"
        /\ phase' = "found"
        /\ UNCHANGED <<polls, requests>>
     \/ /\ phase = "look" /\ answer.is = "nothing"
        /\ polls + 1 < MaxPolls
        /\ phase' = "sweeping" /\ polls' = polls + 1
        /\ UNCHANGED requests
     \/ /\ phase = "look" /\ answer.is = "nothing"
        /\ requests' = Append(requests, [what |-> "cancel", of |-> task.serial])
        /\ phase' = "cancel"
        /\ UNCHANGED polls
     \/ /\ phase = "arm" /\ answer.is = "done"
        /\ phase' = "armed" /\ polls' = 0
        /\ UNCHANGED requests
     \/ /\ phase = "data" /\ answer.is = "nothing"
        /\ polls + 1 < MaxPolls
        /\ phase' = "armed" /\ polls' = polls + 1
        /\ UNCHANGED requests
  /\ answer' = NoAnswer
  /\ UNCHANGED <<vars, kind, deviceVars, pulses>>

\* What the wait gives the orchestrator when it ends by itself.  The provider
\* turns every exception of a Broadlink capture into None: an error of the
\* device, a packet that cannot be decoded, a direct capture without frequency.
Gives(e) ==
  \/ kind = "other"
  \/ e = "captured" /\ kind \in Broadlink /\ phase = "data" /\ answer.is = "code"
  \/ e = "captured" /\ kind = "native" /\ pulses[task.serial] = "queued"
  \/ e = "timeout" /\ kind \in Broadlink
     /\ \/ kind = "direct unset"
        \/ answer.is = "failed"
        \/ phase = "cancel" /\ answer.is = "done"
        \/ phase = "data" /\ answer.is \in {"code", "nothing"}
  \/ e = "timeout" /\ kind = "native"

\* Mutant: a cancelled sweep goes on.
CleanUpNothing(e) == UNCHANGED requests

\* A cancellation inside sweep_frequency hands over the end of the sweep
\* without awaiting it.
CleanUp(e) ==
  requests' = IF e = "cancelled" /\ phase \in SweepPhases
              THEN Append(requests, [what |-> "cancel", of |-> task.serial])
              ELSE requests

\* The wait ends; async_stop_capture of a native provider unsubscribes and
\* drains its queue.  Only "other" providers suspend in their stop.
WaitIsOver(e) ==
  /\ WaitEnds(e) \/ (kind = "other" /\ WaitEndsThenSuspends(e))
  /\ e = "cancelled" \/ Gives(e)
  /\ CleanUp(e)
  /\ phase' = "none" /\ polls' = 0 /\ answer' = NoAnswer
  /\ pulses' = IF kind = "native" /\ pulses[task.serial] = "queued"
               THEN [pulses EXCEPT ![task.serial] = "none"] ELSE pulses
  /\ UNCHANGED <<kind, deviceVars>>

WaitStep == WaitBegins \/ SleepEnds \/ Answered \/ \E e \in Endings : WaitIsOver(e)

\* The ends of a task that is not in its wait.
TaskDies == TaskCancelledUnbegun \/ StopResumes \/ StopCancelled

SessionStep == WaitStep \/ (TaskDies /\ UNCHANGED providerVars)

-------------------------------------------------------------------------------
(* Outside: the device, its queue of requests, the infrared receiver.      *)

\* What a request that is carried out finds: the reply and the device after it.
\* Arming the device empties its memory.
Outcome(what) ==
  CASE what = "sweep"  -> <<"done", "sweeping", code>>
    [] what = "look"   -> <<IF mode = "locked" THEN "done" ELSE "nothing", mode, code>>
    [] what = "cancel" -> <<"done", IF mode \in {"sweeping", "locked"} THEN "idle" ELSE mode,
                            code>>
    [] what = "arm"    -> <<"done", "armed", 0>>
    [] what = "data"   -> IF code = 0 THEN <<"nothing", mode, 0>> ELSE <<"code", "idle", 0>>

\* The reply r reaches the coroutine that still waits for it.
Reply(r, pulse) ==
  answer' = IF task.at = "waiting" /\ phase = Head(requests).what
               /\ Head(requests).of = task.serial
            THEN [is |-> r, of |-> pulse] ELSE answer

CarryOut ==
  /\ requests # <<>>
  /\ requests' = Tail(requests)
  /\ LET what == Head(requests).what
         out == Outcome(what)
     IN \/ /\ Reply(out[1], IF what = "data" THEN code ELSE 0)
           /\ mode' = out[2]
           /\ code' = out[3]
           /\ failed' = (failed /\ what # "sweep")
        \/ /\ Reply("failed", 0)
           /\ mode' \in {mode, out[2]}
           /\ code' = code
           /\ failed' = TRUE
  /\ UNCHANGED <<vars, kind, phase, polls, pulses>>

\* The user presses a key of a remote while the device listens.
DeviceHears ==
  /\ \/ mode = "sweeping" /\ mode' = "locked" /\ UNCHANGED code
     \/ mode = "armed" /\ code' = serial /\ UNCHANGED mode
  /\ UNCHANGED <<vars, waitVars, requests, failed, pulses>>

\* The receiver hears a key while provider n is subscribed; a task of its own
\* brings the pulse to the provider's queue, perhaps after the provider stopped.
ReceiverHears ==
  /\ kind = "native" /\ serial \in armed
  /\ pulses[serial] = "none"
  /\ pulses' = [pulses EXCEPT ![serial] = "dispatched"]
  /\ UNCHANGED <<vars, waitVars, requests, deviceVars>>

Dispatch ==
  /\ \E n \in 1 .. MaxSerial :
       /\ pulses[n] = "dispatched"
       /\ pulses' = [pulses EXCEPT ![n] = "queued"]
  /\ UNCHANGED <<vars, waitVars, requests, deviceVars>>

ProvidersNext ==
  \/ \E s \in Sessions, k \in Kinds : Begin(s, k)
  \/ \E s \in Sessions : BeginFails(s)
  \/ BeginResumes
  \/ \E c \in Callers, s \in Sessions : Cancels(c, s)
  \/ \E k \in Listeners, s \in Sessions : Listening(k, s)
  \/ SessionStep
  \/ CarryOut \/ DeviceHears \/ ReceiverHears \/ Dispatch

ProvidersSpec == ProvidersInit /\ [][ProvidersNext]_allVars

\* The event loop runs what is ready, sleeps and the wait on the queue end, and
\* the integration carries out its requests: nobody needs to press a key.
ProvidersFairness ==
  /\ WF_allVars(SessionStep) /\ WF_allVars(BeginResumes) /\ WF_allVars(CarryOut)

ProvidersFairSpec == ProvidersSpec /\ ProvidersFairness

-------------------------------------------------------------------------------
(* Safety.                                                                 *)

\* While a session looks for the carrier the device sweeps for it: no request
\* an earlier session left behind stops the sweep or puts the device to another
\* use under the session that owns the orchestrator.
SweepIsNotStopped == phase \in {"sweeping", "look"} => mode \in {"sweeping", "locked"}

\* With no session and no request under way the device is not left sweeping,
\* unless a request to look at the sweep or to end it failed: a read error leaves
\* sweep_frequency without ending the sweep.
SweepIsEnded == (~lock /\ requests = <<>> /\ mode = "sweeping") => failed

\* The code a session is given was pressed in that session, not left in the
\* device's memory by one before it.
PulseOfItsSession == answer.is = "code" => answer.of = task.serial

===============================================================================
