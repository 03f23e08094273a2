-------------------------- MODULE LearnCommand_proofs ---------------------------
(***************************************************************************)
(* What a learn call returns, for any handlers, sessions and listeners.    *)
(* The handlers drive the orchestrator by its operations only, so that its *)
(* invariant holds; what they know of a session, its id and its serial, is *)
(* tied to it by the lock.                                                 *)
(***************************************************************************)
EXTENDS LearnCommand, CaptureOrchestrator_proofs

-------------------------------------------------------------------------------
(* The inductive invariant.                                                *)

HandlersTypeOK ==
  /\ at \in [Callers -> Places]
  /\ wanted \in [Callers -> Sessions \cup {None}]
  /\ opened \in [Learners -> Nat]
  /\ reply \in [Callers -> Replies]
  /\ got \in [Learners -> Nat]
  /\ \A l \in Learners : at[l] # "idle" => wanted[l] \in Sessions

\* No serial in use is ahead of the orchestrator's.
SerialsInUse ==
  /\ \A l \in Learners : opened[l] <= serial /\ got[l] <= serial
  /\ \A s \in Sessions : results[s] <= serial

\* What a handler would find now is no older than its session.
ResultsAreFresh ==
  \A l \in Learners :
    at[l] # "idle" => results[wanted[l]] = 0 \/ results[wanted[l]] >= opened[l]

\* A handler whose session holds the lock, or left a result, asked for that id.
SessionsAreWanted ==
  /\ \A m \in Learners : lock /\ opened[m] = serial => wanted[m] = active
  /\ \A m \in Learners, s \in Sessions :
       results[s] # 0 /\ results[s] = opened[m] => wanted[m] = s

LearnInv ==
  /\ IInv
  /\ HandlersTypeOK
  /\ SerialsInUse
  /\ ResultsAreFresh
  /\ SessionsAreWanted
  /\ FreshCapture
  /\ CaptureOfItsCommand

-------------------------------------------------------------------------------
(* What a step of the handlers is to the orchestrator.                     *)

\* A new serial comes with an empty result; a result comes with the lock, for the
\* session that holds it.
LEMMA StartMoves ==
  ASSUME IInv, NEW s \in Sessions, Start(s) \/ StartRaises(s) \/ StartSuspends(s)
  PROVE  /\ serial' = serial + 1 /\ serial' \in Nat
         /\ results' = [results EXCEPT ![s] = 0]
         /\ ~lock
         /\ lock' => active' = s
BY DEF IInv, TypeOK, FreeMeansClean, Start, StartRaises, StartSuspends, Acquire, Listen

LEMMA OtherMoves ==
  ASSUME IInv, TaskStep \/ StartEnds \/ \E c \in Callers : CancelTask(c)
  PROVE  /\ serial' = serial
         /\ \/ results' = results
            \/ lock /\ results' = [results EXCEPT ![active] = serial]
         /\ lock' => lock /\ active' = active
<1>1. CASE TaskBegins \/ TaskCancelledUnbegun \/ StopCancelled
  BY <1>1 DEF TaskBegins, TaskCancelledUnbegun, StopCancelled
<1>2. ASSUME NEW e \in Endings, WaitEnds(e)
      PROVE  /\ serial' = serial
             /\ \/ results' = results
                \/ lock /\ results' = [results EXCEPT ![active] = serial]
             /\ ~lock'
  <2>1. lock /\ task.session = active /\ task.serial = serial
    BY <1>2 DEF WaitEnds, WaitOutcome, IInv, ReleaserIsOwner
  <2>2. /\ lock' = FALSE /\ serial' = serial
        /\ results' = IF e = "captured"
                      THEN [results EXCEPT ![task.session] = task.serial] ELSE results
    BY <1>2 DEF WaitEnds, Store, Finalize
  <2>3. CASE e = "captured"
    BY <2>1, <2>2, <2>3
  <2>4. CASE e # "captured"
    BY <2>2, <2>4
  <2> QED
    BY <2>2, <2>3, <2>4
<1>3. ASSUME NEW e \in Endings, WaitEndsThenSuspends(e)
      PROVE  UNCHANGED <<serial, results, lock, active>>
  BY <1>3 DEF WaitEndsThenSuspends
<1>4. CASE StopResumes
  BY <1>4 DEF StopResumes, Store, Finalize, IInv, ReleaserIsOwner
<1>5. CASE StartEnds
  BY <1>5 DEF StartEnds, StartResumes, StartResumesRaising, Listen, IInv
<1>6. CASE \E c \in Callers : CancelTask(c)
  BY <1>6 DEF CancelTask
<1> QED
  BY <1>1, <1>2, <1>3, <1>4, <1>5, <1>6 DEF TaskStep, TaskEndsWait

\* Every step is one of the orchestrator's or none.
LEMMA HandlersOnlyOperate ==
  ASSUME HandlersTypeOK, [LearnNext]_allVars
  PROVE  [Next]_vars
<1> USE LearnAssumption
<1>1. CASE UNCHANGED allVars
  BY <1>1 DEF allVars, vars
<1>2. ASSUME NEW l \in Learners, NEW s \in Sessions,
             Learn(l, s) \/ LearnSuspends(l, s) \/ LearnStartRaises(l, s)
      PROVE  Next
  BY <1>2 DEF Learn, LearnSuspends, LearnStartRaises, Next
<1>3. ASSUME NEW l \in Learners, LearnStarts(l) \/ LearnStartFails(l)
      PROVE  Next
  BY <1>3 DEF LearnStarts, LearnStartFails, Next, StartEnds
<1>4. ASSUME NEW l \in Learners,
             \/ LearnBusy(l) \/ LearnRefused(l) \/ PollFinds(l) \/ PollFindsIdle(l)
             \/ DeadlineReturns(l) \/ DeadlineCancelled(l)
      PROVE  UNCHANGED vars
  BY <1>4 DEF LearnBusy, LearnRefused, PollFinds, PollFindsIdle, DeadlineReturns,
              DeadlineCancelled
<1>5. ASSUME NEW l \in Learners, DeadlineCancels(l)
      PROVE  Next
  <2>1. wanted[l] \in Sessions /\ Cancel(l, wanted[l])
    BY <1>5 DEF DeadlineCancels, HandlersTypeOK, Cancel
  <2> QED
    BY <2>1 DEF Next
<1>6. ASSUME NEW x \in Cancellers, NEW s \in Sessions, CancelCalls(x, s)
      PROVE  Next
  BY <1>6 DEF CancelCalls, Next
<1>7. ASSUME NEW x \in Cancellers,
             CancelReplies(x) \/ \E s \in Sessions : CancelFindsNothing(x, s)
      PROVE  UNCHANGED vars
  BY <1>7 DEF CancelReplies, CancelFindsNothing
<1>8. CASE Capture
  BY <1>8 DEF Capture, Next
<1> QED
  BY <1>1, <1>2, <1>3, <1>4, <1>5, <1>6, <1>7, <1>8 DEF LearnNext, HandlerStep

-------------------------------------------------------------------------------
(* The parts of the invariant, one step per action.                        *)

\* Opening a session does.
LEMMA OpensTyped ==
  ASSUME HandlersTypeOK, NEW l \in Learners, NEW s \in Sessions,
         NEW place \in {"polling", "starting"}, Opens(l, s, place), serial' \in Nat
  PROVE  HandlersTypeOK'
<1> USE LearnAssumption DEF HandlersTypeOK, Places, Replies
<1>1. /\ at' = [at EXCEPT ![l] = place]
      /\ wanted' = [wanted EXCEPT ![l] = s]
      /\ reply' = [reply EXCEPT ![l] = "none"]
      /\ opened' = [opened EXCEPT ![l] = serial']
      /\ got' = [got EXCEPT ![l] = 0]
  BY DEF Opens, Calls
<1>2. /\ at' \in [Callers -> Places]
      /\ wanted' \in [Callers -> Sessions \cup {None}]
      /\ opened' \in [Learners -> Nat]
      /\ reply' \in [Callers -> Replies]
      /\ got' \in [Learners -> Nat]
  BY <1>1
<1>3. \A m \in Learners : at'[m] # "idle" => wanted'[m] \in Sessions
  BY <1>1
<1> QED
  BY <1>2, <1>3

\* Every step keeps the types.
LEMMA HandlersTypeStep ==
  ASSUME IInv, HandlersTypeOK, [LearnNext]_allVars
  PROVE  HandlersTypeOK'
<1> USE LearnAssumption DEF HandlersTypeOK, Places, Replies
<1>1. CASE UNCHANGED allVars
  BY <1>1 DEF allVars, handlerVars
<1>2. ASSUME NEW l \in Learners, NEW s \in Sessions,
             Learn(l, s) \/ LearnSuspends(l, s)
      PROVE  HandlersTypeOK'
  <2>1. serial' \in Nat
    BY <1>2, StartMoves DEF Learn, LearnSuspends
  <2> QED
    BY <1>2, <2>1, OpensTyped DEF Learn, LearnSuspends
<1>3. ASSUME NEW l \in Learners,
             \/ \E s \in Sessions : LearnStartRaises(l, s)
             \/ LearnBusy(l) \/ LearnRefused(l)
      PROVE  HandlersTypeOK'
  BY <1>3 DEF LearnStartRaises, LearnBusy, LearnRefused, CallReturns
<1>4. ASSUME NEW l \in Learners,
             \/ LearnStartFails(l) \/ PollFindsIdle(l)
             \/ DeadlineReturns(l) \/ DeadlineCancelled(l)
      PROVE  HandlersTypeOK'
  BY <1>4 DEF LearnStartFails, PollFindsIdle, DeadlineReturns, DeadlineCancelled, Returns
<1>5. ASSUME NEW l \in Learners, LearnStarts(l) \/ DeadlineCancels(l)
      PROVE  HandlersTypeOK'
  BY <1>5 DEF LearnStarts, DeadlineCancels
<1>6. ASSUME NEW l \in Learners, PollFinds(l)
      PROVE  HandlersTypeOK'
  <2>1. results[wanted[l]] \in Nat
    BY <1>6 DEF PollFinds, IInv, TypeOK
  <2> QED
    BY <1>6, <2>1 DEF PollFinds, Returns
<1>7. ASSUME NEW x \in Cancellers, NEW s \in Sessions,
             CancelCalls(x, s) \/ CancelFindsNothing(x, s)
      PROVE  HandlersTypeOK'
  <2>1. CASE CancelCalls(x, s)
    <3>1. /\ at' = [at EXCEPT ![x] = "cancelling"]
          /\ wanted' = [wanted EXCEPT ![x] = s]
          /\ reply' = [reply EXCEPT ![x] = "none"]
          /\ UNCHANGED <<opened, got>>
      BY <2>1 DEF CancelCalls, Calls
    <3>2. \A l \in Learners : at'[l] = at[l] /\ wanted'[l] = wanted[l]
      BY <3>1
    <3> QED
      BY <3>1, <3>2
  <2>2. CASE CancelFindsNothing(x, s)
    BY <2>2 DEF CancelFindsNothing, CallReturns
  <2> QED
    BY <1>7, <2>1, <2>2
<1>8. ASSUME NEW x \in Cancellers, CancelReplies(x)
      PROVE  HandlersTypeOK'
  BY <1>8 DEF CancelReplies, Returns
<1>9. CASE Capture
  BY <1>9 DEF Capture, handlerVars
<1> QED
  BY <1>1, <1>2, <1>3, <1>4, <1>5, <1>6, <1>7, <1>8, <1>9 DEF LearnNext, HandlerStep

\* What a step that opens no session may do to the serials, the results and the
\* lock, while a handler, if any, returns.
Quiet ==
  /\ serial \in Nat /\ serial' \in Nat /\ serial' >= serial
  /\ results \in [Sessions -> Nat]
  /\ \/ results' = results
     \/ \E s \in Sessions : serial' > serial /\ results' = [results EXCEPT ![s] = 0]
     \/ /\ lock /\ active \in Sessions /\ serial' = serial
        /\ results' = [results EXCEPT ![active] = serial]
  /\ lock' => lock /\ active' = active /\ serial' = serial

LEMMA QuietSteps ==
  ASSUME IInv,
         \/ UNCHANGED vars \/ TaskStep \/ StartEnds
         \/ \E c \in Callers : CancelTask(c)
         \/ \E s \in Sessions : StartRaises(s)
  PROVE  Quiet
<1>1. serial \in Nat /\ results \in [Sessions -> Nat] /\ (lock => active \in Sessions)
  BY DEF IInv, TypeOK
<1>2. CASE UNCHANGED vars
  BY <1>1, <1>2 DEF vars, Quiet
<1>3. CASE TaskStep \/ StartEnds \/ \E c \in Callers : CancelTask(c)
  BY <1>1, <1>3, OtherMoves DEF Quiet
<1>4. CASE \E s \in Sessions : StartRaises(s)
  <2>1. PICK s \in Sessions : StartRaises(s)
    BY <1>4
  <2>2. ~lock /\ UNCHANGED lock
    BY <2>1 DEF StartRaises, Acquire
  <2> QED
    BY <1>1, <2>1, <2>2, StartMoves DEF Quiet
<1> QED
  BY <1>2, <1>3, <1>4

\* What it may do to the handlers: a learner that is told "captured" finds what
\* its session id holds.
Follows ==
  /\ opened' = opened
  /\ \A l \in Learners :
       /\ wanted'[l] = wanted[l]
       /\ at'[l] # "idle" => at[l] # "idle"
       /\ \/ got'[l] = got[l] /\ (reply'[l] = "captured" => reply[l] = "captured")
          \/ /\ at[l] # "idle" /\ results[wanted[l]] # 0
             /\ got'[l] = results[wanted[l]]

\* Such a step keeps what ties the handlers to their sessions.
LEMMA QuietKeeps ==
  ASSUME HandlersTypeOK, HandlersTypeOK', SerialsInUse, ResultsAreFresh,
         SessionsAreWanted, Quiet, Follows
  PROVE  SerialsInUse' /\ ResultsAreFresh' /\ SessionsAreWanted'
<1> USE LearnAssumption DEF Quiet, HandlersTypeOK
<1>1. \A l \in Learners : /\ opened[l] \in Nat /\ opened'[l] = opened[l]
                          /\ wanted'[l] = wanted[l]
                          /\ opened[l] <= serial
                          /\ got[l] \in Nat /\ got[l] <= serial
                          /\ got'[l] \in Nat
  BY DEF SerialsInUse, Follows
<1>2. \A s \in Sessions : results[s] \in Nat /\ results[s] <= serial
  BY DEF SerialsInUse
<1>3. \A s \in Sessions :
        \/ results'[s] = results[s]
        \/ results'[s] = 0
        \/ lock /\ s = active /\ serial' = serial /\ results'[s] = serial
  OBVIOUS
<1>4. SerialsInUse'
  <2>1. \A l \in Learners : opened'[l] <= serial'
    BY <1>1
  <2>2. \A l \in Learners : got'[l] <= serial'
    <3> SUFFICES ASSUME NEW l \in Learners
                 PROVE  got'[l] <= serial'
      OBVIOUS
    <3>1. CASE got'[l] = got[l]
      BY <1>1, <3>1
    <3>2. CASE at[l] # "idle" /\ got'[l] = results[wanted[l]]
      <4>1. results[wanted[l]] \in Nat /\ results[wanted[l]] <= serial
        BY <1>2, <3>2
      <4> QED
        BY <3>2, <4>1
    <3> QED
      BY <3>1, <3>2 DEF Follows
  <2>3. \A s \in Sessions : results'[s] <= serial'
    BY <1>2, <1>3
  <2> QED
    BY <2>1, <2>2, <2>3 DEF SerialsInUse
<1>5. ResultsAreFresh'
  <2> SUFFICES ASSUME NEW l \in Learners, at'[l] # "idle"
               PROVE  results'[wanted'[l]] = 0 \/ results'[wanted'[l]] >= opened'[l]
    BY DEF ResultsAreFresh
  <2>1. at[l] # "idle" /\ wanted[l] \in Sessions
    BY DEF Follows
  <2>2. results[wanted[l]] = 0 \/ results[wanted[l]] >= opened[l]
    BY <2>1 DEF ResultsAreFresh
  <2> QED
    BY <1>1, <1>3, <2>1, <2>2
<1>6. SessionsAreWanted'
  <2>1. ASSUME NEW m \in Learners, lock', opened'[m] = serial'
        PROVE  wanted'[m] = active'
    BY <1>1, <2>1 DEF SessionsAreWanted
  <2>2. ASSUME NEW m \in Learners, NEW s \in Sessions,
               results'[s] # 0, results'[s] = opened'[m]
        PROVE  wanted'[m] = s
    <3>1. CASE results'[s] = results[s]
      <4>1. results[s] # 0 /\ results[s] = opened[m]
        BY <1>1, <2>2, <3>1
      <4>2. wanted[m] = s
        BY <4>1 DEF SessionsAreWanted
      <4> QED
        BY <1>1, <4>2
    <3>2. CASE lock /\ s = active /\ results'[s] = serial
      BY <1>1, <2>2, <3>2 DEF SessionsAreWanted
    <3> QED
      BY <1>3, <2>2, <3>1, <3>2
  <2> QED
    BY <2>1, <2>2 DEF SessionsAreWanted
<1> QED
  BY <1>4, <1>5, <1>6

\* What it lets a learner return is fresh and of its command.
LEMMA QuietReturns ==
  ASSUME HandlersTypeOK, SerialsInUse, ResultsAreFresh, SessionsAreWanted, Follows,
         results \in [Sessions -> Nat], FreshCapture, CaptureOfItsCommand
  PROVE  FreshCapture' /\ CaptureOfItsCommand'
<1>1. ASSUME NEW l \in Learners, reply'[l] = "captured"
      PROVE  \/ reply[l] = "captured" /\ got'[l] = got[l]
             \/ /\ at[l] # "idle" /\ wanted[l] \in Sessions
                /\ results[wanted[l]] # 0 /\ got'[l] = results[wanted[l]]
  BY <1>1 DEF Follows, HandlersTypeOK
<1>2. FreshCapture'
  <2> SUFFICES ASSUME NEW l \in Learners, reply'[l] = "captured"
               PROVE  got'[l] >= opened[l]
    BY DEF FreshCapture, Follows
  <2> QED
    BY <1>1 DEF FreshCapture, ResultsAreFresh
<1>3. CaptureOfItsCommand'
  <2> SUFFICES ASSUME NEW l \in Learners, NEW m \in Learners,
                      reply'[l] = "captured", got'[l] = opened[m]
               PROVE  wanted[l] = wanted[m]
    BY DEF CaptureOfItsCommand, Follows
  <2> QED
    BY <1>1 DEF CaptureOfItsCommand, SessionsAreWanted
<1> QED
  BY <1>2, <1>3

\* Opening a session keeps all of it: the serial is new, the old result dropped.
LEMMA OpensKeeps ==
  ASSUME LearnInv, NEW l \in Learners, NEW s \in Sessions, NEW place,
         Opens(l, s, place),
         serial' = serial + 1, results' = [results EXCEPT ![s] = 0], lock' => active' = s
  PROVE  /\ SerialsInUse' /\ ResultsAreFresh' /\ SessionsAreWanted'
         /\ FreshCapture' /\ CaptureOfItsCommand'
<1> USE LearnAssumption DEF LearnInv, HandlersTypeOK
<1>1. serial \in Nat /\ results \in [Sessions -> Nat]
  BY DEF IInv, TypeOK
<1>2. /\ opened'[l] = serial + 1 /\ got'[l] = 0 /\ wanted'[l] = s
      /\ reply'[l] = "none"
  BY DEF Opens, Calls
<1>3. \A m \in Learners \ {l} :
        /\ opened'[m] = opened[m] /\ got'[m] = got[m] /\ wanted'[m] = wanted[m]
        /\ at'[m] = at[m] /\ reply'[m] = reply[m]
  BY DEF Opens, Calls
<1>4. \A m \in Learners : /\ opened[m] \in Nat /\ opened[m] <= serial
                          /\ got[m] \in Nat /\ got[m] <= serial
                          /\ at[m] # "idle" => wanted[m] \in Sessions
  BY DEF SerialsInUse
<1>5. \A r \in Sessions : /\ results[r] \in Nat /\ results[r] <= serial
                          /\ results'[r] = IF r = s THEN 0 ELSE results[r]
  BY <1>1 DEF SerialsInUse
<1>6. SerialsInUse'
  <2>1. \A m \in Learners : opened'[m] <= serial' /\ got'[m] <= serial'
    <3> SUFFICES ASSUME NEW m \in Learners
                 PROVE  opened'[m] <= serial' /\ got'[m] <= serial'
      OBVIOUS
    <3>1. CASE m = l
      BY <1>1, <1>2, <3>1
    <3>2. CASE m # l
      BY <1>1, <1>3, <1>4, <3>2
    <3> QED
      BY <3>1, <3>2
  <2>2. \A r \in Sessions : results'[r] <= serial'
    BY <1>1, <1>5
  <2> QED
    BY <2>1, <2>2 DEF SerialsInUse
<1>7. ResultsAreFresh'
  <2> SUFFICES ASSUME NEW m \in Learners, at'[m] # "idle"
               PROVE  results'[wanted'[m]] = 0 \/ results'[wanted'[m]] >= opened'[m]
    BY DEF ResultsAreFresh
  <2>1. CASE m = l
    BY <1>2, <1>5, <2>1
  <2>2. CASE m # l
    <3>1. at[m] # "idle" /\ wanted'[m] = wanted[m] /\ opened'[m] = opened[m]
      BY <1>3, <2>2
    <3>2. wanted[m] \in Sessions
      BY <1>4, <3>1
    <3>3. results[wanted[m]] = 0 \/ results[wanted[m]] >= opened[m]
      BY <3>1 DEF ResultsAreFresh
    <3> QED
      BY <1>5, <3>1, <3>2, <3>3
  <2> QED
    BY <2>1, <2>2
<1>8. SessionsAreWanted'
  <2>1. ASSUME NEW m \in Learners, lock', opened'[m] = serial'
        PROVE  wanted'[m] = active'
    <3>1. m = l
      BY <1>1, <1>3, <1>4, <2>1
    <3> QED
      BY <1>2, <2>1, <3>1
  <2>2. ASSUME NEW m \in Learners, NEW r \in Sessions,
               results'[r] # 0, results'[r] = opened'[m]
        PROVE  wanted'[m] = r
    <3>1. results[r] # 0 /\ results[r] = opened'[m]
      BY <1>5, <2>2
    <3>2. m # l
      BY <1>1, <1>2, <1>5, <3>1
    <3> QED
      BY <1>3, <3>1, <3>2 DEF SessionsAreWanted
  <2> QED
    BY <2>1, <2>2 DEF SessionsAreWanted
<1>9. FreshCapture'
  <2> SUFFICES ASSUME NEW m \in Learners, reply'[m] = "captured"
               PROVE  got'[m] >= opened'[m]
    BY DEF FreshCapture
  <2>1. m # l
    BY <1>2
  <2> QED
    BY <1>3, <2>1 DEF FreshCapture
<1>10. CaptureOfItsCommand'
  <2> SUFFICES ASSUME NEW m \in Learners, NEW n \in Learners,
                      reply'[m] = "captured", got'[m] = opened'[n]
               PROVE  wanted'[m] = wanted'[n]
    BY DEF CaptureOfItsCommand
  <2>1. m # l
    BY <1>2
  <2>2. n # l
    BY <1>1, <1>2, <1>3, <1>4, <2>1
  <2> QED
    BY <1>3, <2>1, <2>2 DEF CaptureOfItsCommand
<1> QED
  BY <1>6, <1>7, <1>8, <1>9, <1>10

\* Every step that opens no session is quiet and lets the learners follow.
LEMMA OthersAreQuiet ==
  ASSUME IInv, HandlersTypeOK, [LearnNext]_allVars,
         ~ \E l \in Learners, s \in Sessions : Learn(l, s) \/ LearnSuspends(l, s)
  PROVE  Quiet /\ Follows
<1> USE LearnAssumption DEF HandlersTypeOK
<1>1. CASE UNCHANGED allVars
  BY <1>1, QuietSteps DEF allVars, vars, handlerVars, Follows
<1>2. ASSUME NEW l \in Learners, NEW s \in Sessions, LearnStartRaises(l, s)
      PROVE  Quiet /\ Follows
  BY <1>2, QuietSteps DEF LearnStartRaises, CallReturns, Follows
<1>3. ASSUME NEW l \in Learners, LearnStarts(l)
      PROVE  Quiet /\ Follows
  BY <1>3, QuietSteps DEF LearnStarts, StartEnds, Follows
<1>4. ASSUME NEW l \in Learners, LearnStartFails(l)
      PROVE  Quiet /\ Follows
  BY <1>4, QuietSteps DEF LearnStartFails, StartEnds, Returns, Follows
<1>5. ASSUME NEW l \in Learners, LearnBusy(l) \/ LearnRefused(l)
      PROVE  Quiet /\ Follows
  BY <1>5, QuietSteps DEF LearnBusy, LearnRefused, CallReturns, Follows
<1>6. ASSUME NEW l \in Learners,
             PollFindsIdle(l) \/ DeadlineReturns(l) \/ DeadlineCancelled(l)
      PROVE  Quiet /\ Follows
  BY <1>6, QuietSteps DEF PollFindsIdle, DeadlineReturns, DeadlineCancelled, Returns, Follows
<1>7. ASSUME NEW l \in Learners, DeadlineCancels(l)
      PROVE  Quiet /\ Follows
  BY <1>7, QuietSteps DEF DeadlineCancels, Follows
<1>8. ASSUME NEW l \in Learners, PollFinds(l)
      PROVE  Quiet /\ Follows
  <2>1. Quiet
    BY <1>8, QuietSteps DEF PollFinds
  <2>2. /\ at[l] = "polling" /\ results[wanted[l]] # 0
        /\ at' = [at EXCEPT ![l] = "idle"]
        /\ reply' = [reply EXCEPT ![l] = "captured"]
        /\ got' = [got EXCEPT ![l] = results[wanted[l]]]
        /\ UNCHANGED <<wanted, opened>>
    BY <1>8 DEF PollFinds, Returns
  <2>3. ASSUME NEW m \in Learners
        PROVE  /\ at'[m] # "idle" => at[m] # "idle"
               /\ \/ got'[m] = got[m] /\ (reply'[m] = "captured" => reply[m] = "captured")
                  \/ /\ at[m] # "idle" /\ results[wanted[m]] # 0
                     /\ got'[m] = results[wanted[m]]
    <3>1. CASE m = l
      BY <2>2, <3>1
    <3>2. CASE m # l
      BY <2>2, <3>2
    <3> QED
      BY <3>1, <3>2
  <2> QED
    BY <2>1, <2>2, <2>3 DEF Follows
<1>9. ASSUME NEW x \in Cancellers, NEW s \in Sessions,
             CancelCalls(x, s) \/ CancelFindsNothing(x, s)
      PROVE  Quiet /\ Follows
  <2>1. CASE CancelCalls(x, s)
    BY <2>1, QuietSteps DEF CancelCalls, Cancel, Calls, Follows
  <2>2. CASE CancelFindsNothing(x, s)
    BY <2>2, QuietSteps DEF CancelFindsNothing, CallReturns, Follows
  <2> QED
    BY <1>9, <2>1, <2>2
<1>10. ASSUME NEW x \in Cancellers, CancelReplies(x)
       PROVE  Quiet /\ Follows
  BY <1>10, QuietSteps DEF CancelReplies, Returns, Follows
<1>11. CASE Capture
  BY <1>11, QuietSteps DEF Capture, handlerVars, Follows
<1> QED
  BY <1>1, <1>2, <1>3, <1>4, <1>5, <1>6, <1>7, <1>8, <1>9, <1>10, <1>11
     DEF LearnNext, HandlerStep

-------------------------------------------------------------------------------
(* The theorems.                                                           *)

\* Before any call nothing was opened, stored or returned.
LEMMA LearnStarted == LearnInit => LearnInv
<1> SUFFICES ASSUME LearnInit PROVE LearnInv
  OBVIOUS
<1> USE LearnAssumption DEF LearnInit
<1>1. IInv
  BY InitIInv
<1>2. HandlersTypeOK
  BY DEF HandlersTypeOK, Places, Replies
<1>3. SerialsInUse /\ ResultsAreFresh /\ SessionsAreWanted
  BY DEF SerialsInUse, ResultsAreFresh, SessionsAreWanted, Init
<1> QED
  BY <1>1, <1>2, <1>3 DEF LearnInv, FreshCapture, CaptureOfItsCommand

\* Every step keeps the invariant.
LEMMA LearnSteps == LearnInv /\ [LearnNext]_allVars => LearnInv'
<1> SUFFICES ASSUME LearnInv, [LearnNext]_allVars PROVE LearnInv'
  OBVIOUS
<1> USE DEF LearnInv
<1>1. IInv' /\ HandlersTypeOK'
  BY NextIInv, HandlersOnlyOperate, HandlersTypeStep
<1>2. ASSUME NEW l \in Learners, NEW s \in Sessions, Learn(l, s) \/ LearnSuspends(l, s)
      PROVE  /\ SerialsInUse' /\ ResultsAreFresh' /\ SessionsAreWanted'
             /\ FreshCapture' /\ CaptureOfItsCommand'
  <2>1. /\ serial' = serial + 1 /\ results' = [results EXCEPT ![s] = 0]
        /\ lock' => active' = s
    BY <1>2, StartMoves DEF Learn, LearnSuspends
  <2>2. CASE Opens(l, s, "polling")
    BY <2>1, <2>2, OpensKeeps
  <2>3. CASE Opens(l, s, "starting")
    BY <2>1, <2>3, OpensKeeps
  <2> QED
    BY <1>2, <2>2, <2>3 DEF Learn, LearnSuspends
<1>3. CASE ~ \E l \in Learners, s \in Sessions : Learn(l, s) \/ LearnSuspends(l, s)
  <2>1. Quiet /\ Follows
    BY <1>3, OthersAreQuiet
  <2>2. SerialsInUse' /\ ResultsAreFresh' /\ SessionsAreWanted'
    BY <1>1, <2>1, QuietKeeps
  <2>3. FreshCapture' /\ CaptureOfItsCommand'
    BY <2>1, QuietReturns DEF Quiet
  <2> QED
    BY <1>1, <2>2, <2>3
<1> QED
  BY <1>1, <1>2, <1>3

\* The invariant of the handlers and the orchestrator they drive.
THEOREM LearnInvariance == LearnSpec => []LearnInv
<1> QED
  BY LearnStarted, LearnSteps, PTL DEF LearnSpec

\* What a learn call returns was captured after it began.
THEOREM FreshCaptureProved == LearnSpec => []FreshCapture
<1>1. LearnInv => FreshCapture
  BY DEF LearnInv
<1> QED
  BY <1>1, LearnInvariance, PTL

\* What a learn call returns was captured for the command it asked for.
THEOREM CaptureOfItsCommandProved == LearnSpec => []CaptureOfItsCommand
<1>1. LearnInv => CaptureOfItsCommand
  BY DEF LearnInv
<1> QED
  BY <1>1, LearnInvariance, PTL

\* A learn call is told "cancelled" only when nothing is being captured: with the
\* lock held there is a session, and with the lock free there is no task.
THEOREM NotCancelledWhileRunningProved == LearnSpec => NotCancelledWhileRunning
<1> DEFINE Told == \A l \in Learners :
                     (reply'[l] = "cancelled" /\ reply[l] # "cancelled")
                       => ~(task.at \in Live /\ task.serial = opened[l])
<1>1. ASSUME LearnInv, [LearnNext]_allVars
      PROVE  [Told]_allVars
  <2> SUFFICES ASSUME NEW l \in Learners, reply'[l] = "cancelled", reply[l] # "cancelled"
               PROVE  task.at \notin Live
    OBVIOUS
  <2> USE LearnAssumption, <1>1 DEF LearnInv, HandlersTypeOK
  <2>1. ~IsCapturing
    BY DEF LearnNext, HandlerStep, allVars, handlerVars, Learn, LearnSuspends, Opens,
           Calls, LearnStartRaises, CallReturns, LearnBusy, LearnRefused, LearnStarts,
           LearnStartFails, Returns, PollFinds, PollFindsIdle, DeadlineCancels,
           DeadlineReturns, DeadlineCancelled, CancelCalls, CancelFindsNothing,
           CancelReplies, Capture
  <2>2. ~lock
    BY <2>1, OrchestratorAssumption DEF IsCapturing, IInv
  <2> QED
    BY <2>2 DEF IInv, FreeMeansClean, NoTask, Live
<1> QED
  BY <1>1, LearnInvariance, PTL DEF LearnSpec, NotCancelledWhileRunning

=================================================================================
