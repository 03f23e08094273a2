-------------------------------- MODULE MCParts --------------------------------
(* The parts that run one at a time and share no state with each other: the  *)
(* platform entities, the trigger engine, the power monitor, the pulse       *)
(* codec, and the life of the config entry.  A behaviour is one of them.     *)
(*                                                                           *)
(* Entities: two callers; a four-speed fan, a light of three levels,         *)
(* positions on both sides of the middle, temperatures half way between      *)
(* whole degrees.  Triggers: a binding of two presses that any receiver may  *)
(* count and one of a single press that listens to one receiver; a window of *)
(* two or more ticks, longer than the dedup.  Power: readings on both        *)
(* thresholds and between them.  Codec: the packets of MCPulseCodec.         *)
(* Lifecycle: two calls, devices, setups and entries, one platform.          *)
EXTENDS Entities, TriggerEngine, PowerMonitor, MCPulseCodec, Lifecycle, TLC

CONSTANTS b1, b2, s1, r1

MCBinding ==
  (b1 :> [signal |-> s1, minHits |-> 2, scope |-> {}, enabled |-> TRUE])
  @@ (b2 :> [signal |-> s1, minHits |-> 1, scope |-> {r1}, enabled |-> TRUE])

\* A named speed sent as a percentage comes back as itself, but for the first, which
\* is zero percent.
ASSUME NamesComeBack ==
  \A n \in 2 .. 25 :
    /\ \A i \in 2 .. n : PercentToNamed(NamedToPercent(i, n), n) = i
    /\ PercentToNamed(NamedToPercent(1, n), n) = 0

\* Of four speeds the third alone is shown by a percentage that was rounded up: 67.
ASSUME ThirdOfFourRoundedUp ==
  {s \in 1 .. 4 : DiscreteToPercent(s, 4) * 3 > 100 * (s - 1)} = {3}

\* Nothing tells one call or one device of the lifecycle from another.
Symmetry == Permutations(Tasks) \cup Permutations(Devices)

VARIABLE part

MCInit ==
  /\ part \in {"entities", "triggers", "power", "codec", "lifecycle"}
  /\ Init /\ TriggerInit /\ PowerInit /\ CodecInit /\ LifecycleInit
  /\ part # "entities" => kind = "remote" /\ commands = KeysOf("remote") /\ taught = commands
                          /\ emitters = "match"
  /\ part # "power" => sensor = NoNumber

MCNext ==
  /\ \/ part = "entities" /\ Next
        /\ UNCHANGED <<triggerVars, powerVars, codecVars, lifecycleVars>>
     \/ part = "triggers" /\ (TriggerStep \/ TriggerTick)
        /\ UNCHANGED <<vars, powerVars, codecVars, lifecycleVars>>
     \/ part = "power" /\ (PowerStep \/ PowerTick)
        /\ UNCHANGED <<vars, triggerVars, codecVars, lifecycleVars>>
     \/ part = "codec" /\ CodecStep
        /\ UNCHANGED <<vars, triggerVars, powerVars, lifecycleVars>>
     \/ part = "lifecycle" /\ LifecycleStep
        /\ UNCHANGED <<vars, triggerVars, powerVars, codecVars>>
  /\ UNCHANGED part

MCSpec == MCInit /\ [][MCNext]_<<part, vars, triggerVars, powerVars, codecVars, lifecycleVars>>
================================================================================
