-------------------------------- MODULE Entities --------------------------------
(***************************************************************************)
(* The platform entities (fan.py, light.py, switch.py, cover.py,           *)
(* media_player.py, climate.py, remote.py, button.py over                  *)
(* _platform_support/_base.py) and the send path of the coordinator        *)
(* (_platform_support/_coordinator.py).                                    *)
(*                                                                         *)
(* One entity of one kind.  A remote is one way: the entity shows what its *)
(* last handler assumed, and the device is in the state of the pulses it   *)
(* heard.  A handler awaits its pulses and then sets what is shown; calls  *)
(* of the same entity overlap, since the transmission gate (TxGate) holds  *)
(* no lock while the emitter sends.  Buttons, the send_command service and *)
(* action bindings send pulses past the entity.                            *)
(*                                                                         *)
(* A command key is <<name, index>>, a shown field is a number, and a      *)
(* pulse or a handler that changes fields is a function of those fields.   *)
(***************************************************************************)
EXTENDS SpeedMapper, Sequences, FiniteSets

CONSTANTS
  Callers,      \* tasks in a handler of the device
  Kinds,        \* the categories considered
  Speeds,       \* discrete_speed_count of a fan
  Levels,       \* the k of the keys brightness_k
  Percentages,  \* arguments of async_set_percentage
  Brightnesses, \* arguments of async_turn_on of a light
  Positions,    \* arguments of async_set_cover_position
  Sources,      \* the sources of a media player
  Modes,        \* hvac modes other than off
  Temperatures, \* requested temperatures, in half degrees
  FanModes,     \* fan modes of a climate entity
  MaxCalls      \* bound on the calls

Unknown == -1
On  == 1
Off == 0

AllKinds == {"fan", "light", "switch", "cover", "media_player", "climate", "remote"}

ASSUME EntityAssumption ==
  /\ Kinds \subseteq AllKinds
  /\ Speeds \in Nat \ {0}
  /\ Levels \subseteq Nat /\ IsFiniteSet(Levels)
  /\ Percentages \subseteq 0 .. 100
  /\ Brightnesses \subseteq 0 .. 255
  /\ Positions \subseteq 0 .. 100
  /\ Sources \subseteq Nat /\ Modes \subseteq Nat \ {0} /\ FanModes \subseteq Nat
  /\ Temperatures \subseteq Nat
  /\ MaxCalls \in Nat

VARIABLES
  kind,      \* category of the device
  commands,  \* keys of the commands in the entity's copy of the device
  taught,    \* those among them with a payload
  emitters,  \* the transmitters configured: none, of another transport only, or a match
  down,      \* is the chosen emitter unavailable?
  shown,     \* the fields of the entity
  actual,    \* the same fields of the device itself
  calls,     \* calls[c]: the handler c runs
  made,      \* calls so far
  drift      \* history: fields not set by the handler whose pulse was heard last

vars == <<kind, commands, taught, emitters, down, shown, actual, calls, made, drift>>

-------------------------------------------------------------------------------
(* Kinds of devices.                                                       *)

K(name) == <<name, 0>>
Indexed(name, S) == {<<name, i>> : i \in S}

\* round() of a temperature given in half degrees
Rounded(t) == RoundHalfToEven(t, 2)

\* The keys the handlers of a kind know.
KeysOf(kd) ==
  CASE kd = "fan" -> {K("on"), K("off")} \cup Indexed("speed", 1 .. Speeds)
    [] kd = "light" -> {K("on"), K("off")} \cup Indexed("brightness", Levels)
    [] kd = "switch" -> {K("on"), K("off")}
    [] kd = "cover" -> {K("open"), K("close"), K("stop"), K("position_open"),
                        K("position_close")}
    [] kd = "media_player" -> {K("power_on"), K("power_off"), K("volume_up"), K("mute")}
                              \cup Indexed("source", Sources)
    [] kd = "climate" -> {K("off")} \cup Indexed("mode", Modes)
                         \cup Indexed("temp", {Rounded(t) : t \in Temperatures})
                         \cup Indexed("fan", FanModes)
    [] kd = "remote" -> {K("first"), K("second")}

FieldsOf(kd) ==
  CASE kd \in {"fan", "light"} -> {"on", "level"}
    [] kd = "switch" -> {"on"}
    [] kd = "cover" -> {"closed"}
    [] kd = "media_player" -> {"on", "source"}
    [] kd = "climate" -> {"mode", "temp", "fan"}
    [] kd = "remote" -> {}

Sets(field, value) == [f \in {field} |-> value]
Nothing == [f \in {} |-> Unknown]

\* What the device does on hearing a key; a cover that is stopped is in between.
Meaning(kd, key) ==
  LET name == key[1]
      index == key[2]
  IN CASE name = "speed" -> [on |-> On, level |-> index]
       [] name = "brightness" -> [on |-> On, level |-> index]
       [] name = "on" \/ name = "power_on" -> Sets("on", On)
       [] (name = "off" /\ kd # "climate") \/ name = "power_off" -> Sets("on", Off)
       [] name \in {"open", "position_open"} -> Sets("closed", 0)
       [] name \in {"close", "position_close"} -> Sets("closed", 1)
       [] name = "stop" -> Sets("closed", Unknown)
       [] name = "source" -> Sets("source", index)
       [] name = "off" /\ kd = "climate" -> Sets("mode", Off)
       [] name \in {"mode", "temp", "fan"} -> Sets(name, index)
       [] OTHER -> Nothing

\* The fields of f changed as g says.
Changed(f, g) == [x \in DOMAIN f |-> IF x \in DOMAIN g THEN g[x] ELSE f[x]]

-------------------------------------------------------------------------------
NoCall == [at |-> "idle", keys |-> <<>>, sets |-> Nothing, crossed |-> {}]

Values == {Unknown} \cup (0 .. 255)

\* A handler: in the gate or its pulse on the air, the keys it has still to
\* send, the one on the air first, what it sets at the end, and the fields that
\* other pulses changed since its own.
CallOK(j) ==
  /\ j.at \in {"idle", "gate", "sent"}
  /\ j.keys \in Seq(KeysOf(kind))
  /\ (j.at = "idle") = (j.keys = <<>>)
  /\ DOMAIN j.sets \subseteq FieldsOf(kind)
  /\ j.crossed \subseteq FieldsOf(kind)

EntitiesTypeOK ==
  /\ kind \in Kinds
  /\ commands \subseteq KeysOf(kind) /\ taught \subseteq commands
  /\ emitters \in {"none", "other", "match"}
  /\ down \in BOOLEAN
  /\ shown \in [FieldsOf(kind) -> Values]
  /\ actual \in [FieldsOf(kind) -> Values]
  /\ DOMAIN calls = Callers /\ \A c \in Callers : CallOK(calls[c])
  /\ made \in 0 .. MaxCalls
  /\ drift \subseteq FieldsOf(kind)

\* What an entity shows when it is made.
Blank(kd) ==
  [f \in FieldsOf(kd) |-> IF f = "on" THEN Off ELSE Unknown]

\* Every command of the kind but for at most one that is missing or not taught.
Init ==
  /\ kind \in Kinds
  /\ \E gap \in SUBSET KeysOf(kind), missing \in BOOLEAN :
       /\ Cardinality(gap) <= 1
       /\ taught = KeysOf(kind) \ gap
       /\ commands = IF missing THEN taught ELSE KeysOf(kind)
  /\ emitters \in {"none", "other", "match"}
  /\ down = FALSE
  /\ shown = Blank(kind)
  /\ actual = [f \in FieldsOf(kind) |-> Unknown]
  /\ calls = [c \in Callers |-> NoCall]
  /\ made = 0
  /\ drift = {f \in FieldsOf(kind) : shown[f] # Unknown}

-------------------------------------------------------------------------------
(* The send path.                                                          *)

Device == <<kind, commands, taught, emitters>>

Finish(c) == calls' = [calls EXCEPT ![c] = NoCall]

\* The handler sets what is shown.  A field drifts unless the device was last
\* changed in it by this handler's pulse, or the handler does not claim to know.
Show(sets, confirmed) ==
  LET joint == {f \in DOMAIN sets : f \in confirmed \/ sets[f] = Unknown}
  IN /\ shown' = Changed(shown, sets)
     /\ drift' = (drift \cup DOMAIN sets) \ joint

\* async_send_command has nothing to send with: it returns as if it had sent.
Skips == emitters = "none" \/ (emitters = "match" /\ down)

\* async_send_pulse raises: no command, no payload, no transmitter that fits.
Refuses(key) == key \notin taught \/ emitters = "other"

\* Handler c sends what is left of keys and then sets the fields of sets;
\* confirmed are the fields a pulse of its own has already changed.
Proceed(c, keys, sets, confirmed) ==
  \/ /\ keys = <<>> \/ (Skips /\ \A i \in DOMAIN keys : ~Refuses(keys[i]))
     /\ Show(sets, confirmed)
     /\ Finish(c)
  \/ /\ keys # <<>>
     /\ ~Skips /\ ~Refuses(Head(keys))
     /\ calls' = [calls EXCEPT ![c] =
                    [at |-> "gate", keys |-> keys, sets |-> sets, crossed |-> {}]]
     /\ UNCHANGED <<shown, drift>>
  \/ /\ keys # <<>>
     /\ Refuses(Head(keys)) \/ (Skips /\ \E i \in DOMAIN keys : Refuses(keys[i]))
     /\ Finish(c)
     /\ UNCHANGED <<shown, drift>>

Begin(c, keys, sets) ==
  /\ calls[c] = NoCall
  /\ made < MaxCalls
  /\ made' = made + 1
  /\ Proceed(c, keys, sets, {})
  /\ UNCHANGED <<Device, down, actual>>

\* The keys among those given that the entity's device has.
IfLearned(key) == IF key \in commands THEN <<key>> ELSE <<>>

-------------------------------------------------------------------------------
(* Handlers of the entity.                                                 *)

\* Mutant: the percentage is kept as it was asked for.
ShowsPercent(step, percent) == [on |-> On, level |-> percent]

\* What a fan shows once it sent a step.
ShowsStep(step, percent) == [on |-> On, level |-> DiscreteToPercent(step, Speeds)]

\* _send_speed_step: an unknown step is not sent, and shown nevertheless.
FanSetPercentage(c) ==
  /\ kind = "fan"
  /\ \E p \in Percentages \ {0} :
       LET step == PercentToDiscrete(p, Speeds)
       IN Begin(c, IfLearned(<<"speed", step>>), ShowsStep(step, p))

\* _current_step, or 1
ResumedStep ==
  LET step == PercentToDiscrete(shown["level"], Speeds)
  IN IF step = 0 THEN 1 ELSE step

FanTurnOn(c) ==
  /\ kind = "fan"
  /\ IF K("on") \in commands
     THEN Begin(c, <<K("on")>>, ShowsStep(1, 0))
     ELSE Begin(c, IfLearned(<<"speed", ResumedStep>>),
                ShowsStep(ResumedStep, shown["level"]))

\* Also async_set_percentage of 0.
FanTurnOff(c) ==
  /\ kind = "fan"
  /\ Begin(c, IfLearned(K("off")), [on |-> Off, level |-> 0])

\* _detect_brightness_steps
BrightnessSteps == {i \in Levels : <<"brightness", i>> \in commands}

\* The i-th smallest step; step 0 is the last one (a Python index of -1).
StepAt(i) ==
  LET rank == IF i = 0 THEN Cardinality(BrightnessSteps) ELSE i
  IN CHOOSE s \in BrightnessSteps : Cardinality({t \in BrightnessSteps : t <= s}) = rank

\* _send_brightness
BrightnessKey(b) ==
  <<"brightness", StepAt(PercentToDiscrete((b * 100) \div 255,
                                           Cardinality(BrightnessSteps)))>>

LightSetBrightness(c) ==
  /\ kind = "light"
  /\ BrightnessSteps # {}
  /\ \E b \in Brightnesses : Begin(c, <<BrightnessKey(b)>>, [on |-> On, level |-> b])

\* async_turn_on without a brightness, or of a light without brightness commands
LightTurnOn(c) ==
  /\ kind = "light"
  /\ CASE K("on") \in commands -> Begin(c, <<K("on")>>, Sets("on", On))
       [] K("on") \notin commands /\ BrightnessSteps # {} ->
            Begin(c, <<BrightnessKey(255)>>, [on |-> On, level |-> 255])
       [] OTHER -> Begin(c, <<>>, Nothing)

LightTurnOff(c) ==
  /\ kind = "light"
  /\ Begin(c, IfLearned(K("off")), [on |-> Off, level |-> Unknown])

\* A switch, and a climate entity, leaves what it shows when it lacks the key.
BeginLearned(c, key, sets) ==
  IF key \in commands THEN Begin(c, <<key>>, sets) ELSE Begin(c, <<>>, Nothing)

SwitchTurn(c) ==
  /\ kind = "switch"
  /\ \/ BeginLearned(c, K("on"), Sets("on", On))
     \/ BeginLearned(c, K("off"), Sets("on", Off))

\* async_open_cover, async_close_cover
CoverMove(c) ==
  /\ kind = "cover"
  /\ \/ Begin(c, IfLearned(K("open")), Sets("closed", 0))
     \/ Begin(c, IfLearned(K("close")), Sets("closed", 1))

CoverStop(c) ==
  /\ kind = "cover"
  /\ Begin(c, IfLearned(K("stop")), Nothing)

CoverSetPosition(c) ==
  /\ kind = "cover"
  /\ \E p \in Positions :
       IF p >= 50 THEN BeginLearned(c, K("position_open"), Sets("closed", 0))
       ELSE BeginLearned(c, K("position_close"), Sets("closed", 1))

MediaTurn(c) ==
  /\ kind = "media_player"
  /\ \/ Begin(c, IfLearned(K("power_on")), Sets("on", On))
     \/ Begin(c, IfLearned(K("power_off")), Sets("on", Off))

\* async_mute_volume sends only a key it has; volume, transport and track keys
\* go through async_volume_up and its likes whether they are learned or not.
MediaPress(c) ==
  /\ kind = "media_player"
  /\ \/ Begin(c, IfLearned(K("mute")), Nothing)
     \/ Begin(c, <<K("volume_up")>>, Nothing)

MediaSelectSource(c) ==
  /\ kind = "media_player"
  /\ \E s \in Sources : BeginLearned(c, <<"source", s>>, Sets("source", s))

\* async_set_hvac_mode, async_turn_on and async_turn_off
ClimateSetMode(c) ==
  /\ kind = "climate"
  /\ \/ \E m \in Modes : BeginLearned(c, <<"mode", m>>, Sets("mode", m))
     \/ BeginLearned(c, K("off"), Sets("mode", Off))

ClimateSetTemperature(c) ==
  /\ kind = "climate"
  /\ \E t \in Temperatures :
       BeginLearned(c, <<"temp", Rounded(t)>>, Sets("temp", Rounded(t)))

ClimateSetFanMode(c) ==
  /\ kind = "climate"
  /\ \E m \in FanModes : BeginLearned(c, <<"fan", m>>, Sets("fan", m))

\* async_send_command of a remote: the keys it does not have are left out.
RemoteSend(c) ==
  /\ kind = "remote"
  /\ \/ Begin(c, IfLearned(K("first")), Nothing)
     \/ Begin(c, IfLearned(K("first")) \o IfLearned(K("second")), Nothing)
     \/ Begin(c, IfLearned(K("second")) \o IfLearned(K("first")), Nothing)

\* Pulses of the device that the entity knows nothing of.

\* async_press of a button entity
PressButton(c) ==
  \E key \in commands : Begin(c, <<key>>, Nothing)

\* The send_command service, of a command that the device must have.
ServiceSends(c) ==
  \E key \in KeysOf(kind) : Begin(c, IfLearned(key), Nothing)

\* async_dispatch_action of a binding that presses a button
Dispatch(c) ==
  \E key \in KeysOf(kind) : Begin(c, IfLearned(key), Nothing)

\* command/test sends a capture that is stored nowhere, of any command; it does
\* not accept a device without transmitters.
TestCommand(c) ==
  /\ calls[c] = NoCall
  /\ made < MaxCalls
  /\ made' = made + 1
  /\ \E key \in KeysOf(kind) :
       calls' = IF emitters # "match" \/ down THEN calls
                ELSE [calls EXCEPT ![c] = [at |-> "gate", keys |-> <<key>>,
                                           sets |-> Nothing, crossed |-> {}]]
  /\ UNCHANGED <<Device, down, shown, actual, drift>>

Handle(c) ==
  \/ FanTurnOn(c) \/ FanTurnOff(c) \/ FanSetPercentage(c)
  \/ LightSetBrightness(c) \/ LightTurnOn(c) \/ LightTurnOff(c)
  \/ SwitchTurn(c)
  \/ CoverMove(c) \/ CoverStop(c) \/ CoverSetPosition(c)
  \/ MediaTurn(c) \/ MediaPress(c) \/ MediaSelectSource(c)
  \/ ClimateSetMode(c) \/ ClimateSetTemperature(c) \/ ClimateSetFanMode(c)
  \/ RemoteSend(c)
  \/ PressButton(c) \/ ServiceSends(c) \/ Dispatch(c) \/ TestCommand(c)

-------------------------------------------------------------------------------
(* What happens to a pulse.                                                *)

\* The gate times out, or the emitter fails before it sends anything.
GateRaises(c) ==
  /\ calls[c].at = "gate"
  /\ Finish(c)
  /\ UNCHANGED <<Device, down, shown, actual, made, drift>>

\* The device hears the pulse; the handlers of earlier pulses are still waiting.
Transmit(c) ==
  LET change == Meaning(kind, Head(calls[c].keys))
  IN /\ calls[c].at = "gate"
     /\ actual' = Changed(actual, change)
     /\ drift' = drift \cup DOMAIN change
     /\ calls' = [d \in Callers |->
                    IF d = c THEN [calls[c] EXCEPT !.at = "sent"]
                    ELSE IF calls[d].at = "sent"
                    THEN [calls[d] EXCEPT !.crossed = @ \cup DOMAIN change]
                    ELSE calls[d]]
     /\ UNCHANGED <<Device, down, shown, made>>

\* The send returns and the handler goes on.
Return(c) ==
  LET j == calls[c]
  IN /\ j.at = "sent"
     /\ Proceed(c, Tail(j.keys), j.sets, DOMAIN Meaning(kind, Head(j.keys)) \ j.crossed)
     /\ UNCHANGED <<Device, down, actual, made>>

\* The emitter fails, or the task is cancelled, after the pulse.
SendFails(c) ==
  /\ calls[c].at = "sent"
  /\ Finish(c)
  /\ UNCHANGED <<Device, down, shown, actual, made, drift>>

\* The emitter's entity becomes unavailable or available.
Flip ==
  /\ emitters = "match"
  /\ made < MaxCalls
  /\ down' = ~down
  /\ UNCHANGED <<Device, shown, actual, calls, made, drift>>

Step(c) == Handle(c) \/ GateRaises(c) \/ Transmit(c) \/ Return(c) \/ SendFails(c)

Next == Flip \/ \E c \in Callers : Step(c)

Spec == Init /\ [][Next]_vars

-------------------------------------------------------------------------------
(* Correctness.                                                            *)

\* The speed a fan shows is the percentage nearest to the step it runs at.
FanAgrees ==
  2 * Distance(100 * (actual["level"] - 1), shown["level"] * (Speeds - 1)) <= Speeds - 1

\* The brightness a light shows is less than a step away from the one it has.
\* The code sends the brightest step for a brightness below one percent.
LightAgrees ==
  LET n == Cardinality(BrightnessSteps)
      rank == Cardinality({s \in BrightnessSteps : s <= actual["level"]})
  IN shown["level"] * 100 >= 255 =>
       Distance((rank - 1) * 255, shown["level"] * (n - 1)) < 255

Agrees(f) ==
  CASE shown[f] = Unknown -> TRUE
    [] shown[f] # Unknown /\ f = "level" /\ kind = "fan" -> FanAgrees
    [] shown[f] # Unknown /\ f = "level" /\ kind = "light" -> LightAgrees
    [] OTHER -> shown[f] = actual[f]

\* An assumed state is not a guess: in every field the entity shows what the
\* device is in, unless a pulse went past the entity, was dropped or failed, or
\* two handlers overlapped, since the field was last sent and set by one handler.
ShownIsHeard == \A f \in FieldsOf(kind) \ drift : Agrees(f)

\* The percentage a fan shows is above that of the step it runs at, by rounding.
ShownRoundedUp == shown["level"] * (Speeds - 1) > 100 * (actual["level"] - 1)

\* Turning a fan on again sends the step it runs at exactly when the percentage shown
\* for it was not rounded up, else the next one: it never slows the fan down.  "resume
\* last speed" (fan.py) and "round-trip exactly" (speed_mapper.py) are not true of the
\* steps that are rounded up: step 3 of 4 shows 67 percent and resumes step 4.
ResumesItsSpeed ==
  kind = "fan" /\ "level" \notin drift /\ shown["on"] = On /\ shown["level"] > 0 =>
    PercentToDiscrete(shown["level"], Speeds) =
      IF ShownRoundedUp THEN actual["level"] + 1 ELSE actual["level"]

================================================================================
