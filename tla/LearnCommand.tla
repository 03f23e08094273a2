----------------------------- MODULE LearnCommand ------------------------------
(***************************************************************************)
(* The WebSocket handlers command/learn and command/learn/cancel           *)
(* (websocket_api.py) driving the capture orchestrator.                    *)
(*                                                                         *)
(* A learn handler opens a session, then polls the orchestrator every      *)
(* 0.1 s: first for the result stored under its session id, then for       *)
(* whether anything is being captured at all; at its deadline it cancels   *)
(* the session id and gives up.  Nothing ties a handler to the session it  *)
(* opened but the id, which a second handler for the same command shares.  *)
(* A deadline may strike at any poll: the provider's own timeouts (30 s a  *)
(* phase on Broadlink) may outlive the handler's.                          *)
(***************************************************************************)
EXTENDS CaptureOrchestrator

CONSTANTS
  Learners,   \* handlers of command/learn
  Cancellers  \* handlers of command/learn/cancel

ASSUME LearnAssumption ==
  /\ Learners \cap Cancellers = {}
  /\ Callers = Learners \cup Cancellers

VARIABLES
  at,      \* at[h]: where handler h is suspended, "idle" before and after a call
  wanted,  \* wanted[h]: the session id of the call that suspended it last
  opened,  \* opened[l]: serial of the session that handler l opened
  reply,   \* reply[h]: what its last call returned or raised
  got      \* got[l]: the capture that handler l returned, or 0

handlerVars == <<at, wanted, opened, reply, got>>
allVars == <<vars, handlerVars>>

Places == {"idle", "starting", "polling", "cancelling"}
Replies == {"none", "busy", "refused", "captured", "cancelled", "timed out",
            "cancelled true"}

LearnTypeOK ==
  /\ TypeOK
  /\ at \in [Callers -> Places]
  /\ wanted \in [Callers -> Sessions \cup {None}]
  /\ opened \in [Learners -> Nat]
  /\ reply \in [Callers -> Replies]
  /\ got \in [Learners -> Nat]

LearnInit ==
  /\ Init
  /\ at = [h \in Callers |-> "idle"]
  /\ wanted = [h \in Callers |-> None]
  /\ opened = [l \in Learners |-> 0]
  /\ reply = [h \in Callers |-> "none"]
  /\ got = [l \in Learners |-> 0]

-------------------------------------------------------------------------------
(* Moves of one handler.                                                   *)

Calls(h, s, place) ==
  /\ at[h] = "idle"
  /\ at' = [at EXCEPT ![h] = place]
  /\ wanted' = [wanted EXCEPT ![h] = s]
  /\ reply' = [reply EXCEPT ![h] = "none"]

CallReturns(h, r) ==
  /\ at[h] = "idle"
  /\ reply' = [reply EXCEPT ![h] = r]
  /\ UNCHANGED <<at, wanted, opened>>

Returns(h, from, r) ==
  /\ at[h] = from
  /\ at' = [at EXCEPT ![h] = "idle"]
  /\ reply' = [reply EXCEPT ![h] = r]
  /\ UNCHANGED <<wanted, opened>>

-------------------------------------------------------------------------------
(* command/learn                                                           *)

Opens(l, s, place) ==
  /\ Calls(l, s, place)
  /\ opened' = [opened EXCEPT ![l] = serial']
  /\ got' = [got EXCEPT ![l] = 0]

\* start_capture returns and the first poll follows with no suspension: the old
\* result was dropped and the session is active, so the handler sleeps.
Learn(l, s) == Start(s) /\ Opens(l, s, "polling")

LearnSuspends(l, s) == StartSuspends(s) /\ Opens(l, s, "starting")

\* The start is resumed for the handler that opened the session.
LearnStarts(l) ==
  /\ at[l] = "starting"
  /\ StartResumes
  /\ at' = [at EXCEPT ![l] = "polling"]
  /\ UNCHANGED <<wanted, opened, reply, got>>

LearnStartFails(l) ==
  /\ StartResumesRaising
  /\ Returns(l, "starting", "refused")
  /\ UNCHANGED got

LearnStartRaises(l, s) ==
  /\ StartRaises(s)
  /\ CallReturns(l, "refused")
  /\ UNCHANGED got

\* CaptureInProgressError.
LearnBusy(l) ==
  /\ lock
  /\ CallReturns(l, "busy")
  /\ UNCHANGED <<vars, got>>

\* A bad request, an unknown device or a provider that is not available.
LearnRefused(l) ==
  /\ CallReturns(l, "refused")
  /\ UNCHANGED <<vars, got>>

PollFinds(l) ==
  /\ at[l] = "polling"
  /\ results[wanted[l]] # 0
  /\ Returns(l, "polling", "captured")
  /\ got' = [got EXCEPT ![l] = results[wanted[l]]]
  /\ UNCHANGED vars

\* Nothing is being captured, in any session: "Capture was cancelled".
PollFindsIdle(l) ==
  /\ at[l] = "polling"
  /\ results[wanted[l]] = 0
  /\ ~IsCapturing
  /\ Returns(l, "polling", "cancelled")
  /\ UNCHANGED <<vars, got>>

\* The deadline strikes: cancel_capture for the session id, then give up.
DeadlineCancels(l) ==
  /\ at[l] = "polling"
  /\ CanCancel(wanted[l])
  /\ CancelTask(l)
  /\ at' = [at EXCEPT ![l] = "cancelling"]
  /\ UNCHANGED <<wanted, opened, reply, got>>

\* Mutant: at the deadline the handler waits for the lock to be free.
DeadlineReturnsUnlocked(l) ==
  /\ ~lock
  /\ Returns(l, "polling", "timed out")
  /\ UNCHANGED <<vars, got>>

DeadlineReturns(l) ==
  /\ ~CanCancel(wanted[l])
  /\ Returns(l, "polling", "timed out")
  /\ UNCHANGED <<vars, got>>

DeadlineCancelled(l) ==
  /\ l \notin awaiting
  /\ Returns(l, "cancelling", "timed out")
  /\ UNCHANGED <<vars, got>>

-------------------------------------------------------------------------------
(* command/learn/cancel: {"cancelled": True} whatever cancel_capture did.  *)

CancelCalls(x, s) ==
  /\ Cancel(x, s)
  /\ Calls(x, s, "cancelling")
  /\ UNCHANGED <<opened, got>>

CancelReplies(x) ==
  /\ x \notin awaiting
  /\ Returns(x, "cancelling", "cancelled true")
  /\ UNCHANGED <<vars, got>>

CancelFindsNothing(x, s) ==
  /\ ~CanCancel(s)
  /\ CallReturns(x, "cancelled true")
  /\ UNCHANGED <<vars, got>>

-------------------------------------------------------------------------------
HandlerStep(l) ==
  \/ PollFinds(l) \/ PollFindsIdle(l)
  \/ DeadlineCancels(l) \/ DeadlineReturns(l) \/ DeadlineCancelled(l)

Capture == TaskStep /\ UNCHANGED handlerVars

LearnNext ==
  \/ \E l \in Learners, s \in Sessions :
       Learn(l, s) \/ LearnSuspends(l, s) \/ LearnStartRaises(l, s)
  \/ \E l \in Learners :
       \/ LearnBusy(l) \/ LearnRefused(l)
       \/ LearnStarts(l) \/ LearnStartFails(l) \/ HandlerStep(l)
  \/ \E x \in Cancellers, s \in Sessions : CancelCalls(x, s) \/ CancelFindsNothing(x, s)
  \/ \E x \in Cancellers : CancelReplies(x)
  \/ Capture

LearnSpec == LearnInit /\ [][LearnNext]_allVars

\* A handler's sleep ends and its deadline comes; the loop runs what is ready.
LearnFairness ==
  /\ WF_allVars(Capture)
  /\ \A l \in Learners : WF_allVars(LearnStarts(l) \/ LearnStartFails(l) \/ HandlerStep(l))
  /\ \A x \in Cancellers : WF_allVars(CancelReplies(x))

LearnFairSpec == LearnSpec /\ LearnFairness

-------------------------------------------------------------------------------
(* Safety.                                                                 *)

\* What a learn call returns was captured after that call began, never left
\* over from an earlier session of the same command ("a re-learn of the same
\* key would instantly succeed with the previous capture's timings").
FreshCapture ==
  \A l \in Learners : reply[l] = "captured" => got[l] >= opened[l]

\* What a learn call returns was captured for the command it asked for, whoever
\* opened the session that captured it.
CaptureOfItsCommand ==
  \A l, m \in Learners :
    (reply[l] = "captured" /\ got[l] = opened[m]) => wanted[l] = wanted[m]

\* A handler that opened a session and is told it was cancelled is not told so
\* while that session is still running.
NotCancelledWhileRunning ==
  [][\A l \in Learners :
       (reply'[l] = "cancelled" /\ reply[l] # "cancelled")
         => ~(task.at \in Live /\ task.serial = opened[l])]_allVars

(* Liveness.                                                               *)

\* Every learn call returns, even after a session that never ends.
LearnReturns == \A l \in Learners : at[l] # "idle" ~> at[l] = "idle"

===============================================================================
