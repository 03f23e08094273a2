---------------------------- MODULE CaptureSessions ----------------------------
(***************************************************************************)
(* What the capture orchestrator promises its callers, without the lock,   *)
(* the task or the provider: sessions run one at a time, opening a session *)
(* forgets what an earlier session with the same id captured, and a result *)
(* appears only when the session that is running ends.                     *)
(***************************************************************************)
EXTENDS Naturals

CONSTANTS
  Sessions,  \* session ids, "<device_id>.<command_key>"
  Captures,  \* what a session may capture, told apart by a serial number
  None       \* no session

VARIABLES
  current,   \* the session that is running, or None
  results    \* results[s]: the capture s holds, 0 for none

vars == <<current, results>>

Init ==
  /\ current = None
  /\ results = [s \in Sessions |-> 0]

\* A session opens: nothing else runs, and its old result is gone.
Open(s) ==
  /\ current = None
  /\ current' = s
  /\ results' = [results EXCEPT ![s] = 0]

\* A session that could not be opened has dropped its old result all the same.
OpenFails(s) ==
  /\ current = None
  /\ results' = [results EXCEPT ![s] = 0]
  /\ UNCHANGED current

\* The running session ends, with a capture or without one.
Close ==
  /\ current # None
  /\ current' = None
  /\ \/ UNCHANGED results
     \/ \E c \in Captures : results' = [results EXCEPT ![current] = c]

Next ==
  \/ \E s \in Sessions : Open(s) \/ OpenFails(s)
  \/ Close

Spec == Init /\ [][Next]_vars

===============================================================================
