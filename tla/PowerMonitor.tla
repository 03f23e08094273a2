------------------------------ MODULE PowerMonitor ------------------------------
(***************************************************************************)
(* adapters/power_monitor.py: the verdicts a wattage sensor gives about a  *)
(* device, and their debounce.  The in-memory monitor of the tests has the *)
(* same rules (inject).                                                    *)
(*                                                                         *)
(* The listener runs in the step in which Home Assistant changes the       *)
(* sensor's state.  Nothing in the integration starts a monitor yet.       *)
(***************************************************************************)
EXTENDS Integers

CONSTANTS
  Watts,       \* readings of the sensor
  NoNumber,    \* a state that is no number: unknown, unavailable, removed
  OnAbove,     \* on_above_w
  OffBelow,    \* off_below_w
  Debounce,    \* debounce_seconds
  None

ASSUME PowerAssumption ==
  /\ Watts \subseteq Int /\ OnAbove \in Int /\ OffBelow \in Int
  /\ NoNumber \notin Watts
  /\ Debounce \in Nat
  /\ None \notin {"on", "off", "unknown"}

Verdicts == {"on", "off", "unknown"}

VARIABLES
  sensor,    \* state of the sensor
  watching,  \* is the listener registered?
  verdict,   \* _last_verdict
  since,     \* age of _last_verdict_monotonic
  reading,   \* history: the last number that reached the monitor
  bounced    \* history: it came within the debounce of a verdict

powerVars == <<sensor, watching, verdict, since, reading, bounced>>

PowerTypeOK ==
  /\ sensor \in Watts \cup {NoNumber}
  /\ watching \in BOOLEAN
  /\ verdict \in Verdicts \cup {None}
  /\ since \in 0 .. Debounce
  /\ reading \in Watts \cup {NoNumber}
  /\ bounced \in BOOLEAN

PowerInit ==
  /\ sensor \in Watts \cup {NoNumber}
  /\ watching = FALSE
  /\ verdict = None
  /\ since = Debounce
  /\ reading = NoNumber
  /\ bounced = FALSE

-------------------------------------------------------------------------------
\* Mutant: the thresholds themselves are still in between.
ClassifyStrictly(w) ==
  CASE w > OnAbove -> "on"
    [] w <= OnAbove /\ w < OffBelow -> "off"
    [] OTHER -> "unknown"

\* classify_reading
Classify(w) ==
  CASE w >= OnAbove -> "on"
    [] w < OnAbove /\ w <= OffBelow -> "off"
    [] OTHER -> "unknown"

\* A change of verdict within the debounce of the last one is dropped.
Suppressed == verdict # None /\ since < Debounce

\* _evaluate_and_emit
Evaluate(w) ==
  LET new == Classify(w)
  IN /\ reading' = w
     /\ bounced' = (since < Debounce)
     /\ IF new = verdict \/ Suppressed THEN UNCHANGED <<verdict, since>>
        ELSE verdict' = new /\ since' = 0

\* What a state of the sensor does to a monitor that looks at it.
Look(state) ==
  IF state \in Watts THEN Evaluate(state)
  ELSE UNCHANGED <<verdict, since, reading, bounced>>

\* start: listen, and look at the present state.
StartWatching ==
  /\ ~watching
  /\ watching' = TRUE
  /\ Look(sensor)
  /\ UNCHANGED sensor

StopWatching ==
  /\ watching
  /\ watching' = FALSE
  /\ UNCHANGED <<sensor, verdict, since, reading, bounced>>

\* _on_state_change, if anybody listens
SensorChanges ==
  \E state \in Watts \cup {NoNumber} :
    /\ sensor' = state
    /\ IF watching THEN Look(state) ELSE UNCHANGED <<verdict, since, reading, bounced>>
    /\ UNCHANGED watching

PowerStep == StartWatching \/ StopWatching \/ SensorChanges

PowerTick ==
  /\ since' = IF since = Debounce THEN since ELSE since + 1
  /\ UNCHANGED <<sensor, watching, verdict, reading, bounced>>

PowerSpec == PowerInit /\ [][PowerStep \/ PowerTick]_powerVars

-------------------------------------------------------------------------------
(* Correctness.                                                            *)

\* The last verdict is that of the last reading, unless the reading came within
\* the debounce of a verdict: then it was dropped and nothing looks again until
\* the sensor changes.
StaleOnlyIfBounced ==
  reading # NoNumber /\ ~bounced =>
    /\ reading >= OnAbove => verdict = "on"
    /\ reading < OnAbove /\ reading <= OffBelow => verdict = "off"
    /\ reading < OnAbove /\ reading > OffBelow => verdict = "unknown"

================================================================================
