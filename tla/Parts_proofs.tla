------------------------------ MODULE Parts_proofs ------------------------------
(***************************************************************************)
(* The parts that run one at a time: the power monitor and the trigger     *)
(* engine, for any readings, presses, receivers, bindings and windows; the *)
(* platform entities, for any callers and values, with the arithmetic they *)
(* rest on, which goes wrong for finer steps than percents can tell apart, *)
(* so what is proved of lights and fans says up to how many steps; and the *)
(* config entry, however often it is set up, fails, is unloaded and        *)
(* restarted, for any number of platforms, devices and calls.              *)
(***************************************************************************)
EXTENDS Entities, PowerMonitor, TriggerEngine, Lifecycle, PulseCodec_proofs,
        FiniteSetTheorems, FunctionTheorems

-------------------------------------------------------------------------------
(* The power monitor.                                                      *)

PowerInv == PowerTypeOK /\ StaleOnlyIfBounced

\* The verdict of a reading, by the order the thresholds are tried in.
LEMMA ClassifyFacts ==
  ASSUME NEW w \in Int
  PROVE  /\ Classify(w) \in Verdicts
         /\ w >= OnAbove => Classify(w) = "on"
         /\ w < OnAbove /\ w <= OffBelow => Classify(w) = "off"
         /\ w < OnAbove /\ w > OffBelow => Classify(w) = "unknown"
BY PowerAssumption DEF Classify, Verdicts

\* A look at the sensor keeps the verdict in step with the reading, or marks it bounced.
LEMMA LookKeepsVerdict ==
  ASSUME PowerInv, NEW state \in Watts \cup {NoNumber}, Look(state)
  PROVE  /\ verdict' \in Verdicts \cup {None} /\ since' \in 0 .. Debounce
         /\ reading' \in Watts \cup {NoNumber} /\ bounced' \in BOOLEAN
         /\ StaleOnlyIfBounced'
<1>1. CASE state \notin Watts
  BY <1>1, PowerAssumption DEF Look, PowerInv, PowerTypeOK, StaleOnlyIfBounced
<1>2. CASE state \in Watts
  <2>1. /\ reading' = state /\ bounced' = (since < Debounce)
        /\ IF Classify(state) = verdict \/ Suppressed THEN UNCHANGED <<verdict, since>>
           ELSE verdict' = Classify(state) /\ since' = 0
    BY <1>2 DEF Look, Evaluate
  <2>2. state \in Int /\ Classify(state) \in Verdicts
    BY <1>2, ClassifyFacts, PowerAssumption
  <2>3. /\ verdict' \in Verdicts \cup {None} /\ since' \in 0 .. Debounce
        /\ reading' \in Watts \cup {NoNumber} /\ bounced' \in BOOLEAN
    BY <1>2, <2>1, <2>2, PowerAssumption DEF PowerInv, PowerTypeOK
  <2>4. ASSUME ~bounced'
        PROVE  verdict' = Classify(state)
    BY <2>1, <2>4 DEF Suppressed
  <2> QED
    BY <2>1, <2>2, <2>3, <2>4, ClassifyFacts DEF StaleOnlyIfBounced
<1> QED
  BY <1>1, <1>2

LEMMA PowerStepInv ==
  ASSUME PowerInv, [PowerStep \/ PowerTick]_powerVars
  PROVE  PowerInv'
<1>1. CASE StartWatching
  <2>1. watching' = TRUE /\ sensor' = sensor /\ sensor \in Watts \cup {NoNumber} /\ Look(sensor)
    BY <1>1 DEF StartWatching, PowerInv, PowerTypeOK
  <2> QED
    BY <2>1, LookKeepsVerdict DEF PowerInv, PowerTypeOK
<1>2. CASE StopWatching
  BY <1>2 DEF StopWatching, PowerInv, PowerTypeOK, StaleOnlyIfBounced
<1>3. CASE SensorChanges
  <2>1. PICK state \in Watts \cup {NoNumber} :
          /\ sensor' = state /\ watching' = watching
          /\ IF watching THEN Look(state)
             ELSE UNCHANGED <<verdict, since, reading, bounced>>
    BY <1>3 DEF SensorChanges
  <2>2. CASE watching
    BY <2>1, <2>2, LookKeepsVerdict DEF PowerInv, PowerTypeOK
  <2>3. CASE ~watching
    BY <2>1, <2>3 DEF PowerInv, PowerTypeOK, StaleOnlyIfBounced
  <2> QED
    BY <2>2, <2>3
<1>4. CASE PowerTick
  BY <1>4, PowerAssumption DEF PowerTick, PowerInv, PowerTypeOK, StaleOnlyIfBounced
<1>5. CASE UNCHANGED powerVars
  BY <1>5 DEF powerVars, PowerInv, PowerTypeOK, StaleOnlyIfBounced
<1> QED
  BY <1>1, <1>2, <1>3, <1>4, <1>5 DEF PowerStep

\* The last verdict is that of the last reading, unless the debounce dropped it.
THEOREM VerdictFollowsReading == PowerSpec => []StaleOnlyIfBounced
<1>1. ASSUME PowerInit
      PROVE  PowerInv
  <2>1. PowerTypeOK
    <3>1. Debounce \in 0 .. Debounce
      BY PowerAssumption
    <3> QED
      BY <1>1, <3>1 DEF PowerInit, PowerTypeOK
  <2>2. StaleOnlyIfBounced
    BY <1>1 DEF PowerInit, StaleOnlyIfBounced
  <2> QED
    BY <2>1, <2>2 DEF PowerInv
<1>2. PowerInv /\ [PowerStep \/ PowerTick]_powerVars => PowerInv'
  BY PowerStepInv
<1>3. PowerInv => StaleOnlyIfBounced
  BY DEF PowerInv
<1> QED
  BY <1>1, <1>2, <1>3, PTL DEF PowerSpec

-------------------------------------------------------------------------------
(* The trigger engine.                                                     *)

HitStates == [count : Nat, first : Ages, fired : BOOLEAN]

TriggerTypes ==
  /\ TriggerTypeOK
  /\ hits \in [Bindings -> HitStates]
  /\ \A b \in decided : hits[b].fired

\* A press counted and still on its way to other receivers is remembered: the
\* receiver the engine remembers is one that has heard that press.
CountedIsRemembered ==
  \A b \in Bindings, p \in Presses :
    Unused[b][p] # Late /\ age[p] <= Dedup =>
      /\ memory[pressed[p]].at <= age[p]
      /\ memory[pressed[p]].by \in heard[p]

\* The hits of a chain that has not fired are as many presses, made since it began.
ChainOf(b) == {p \in Presses : Unused[b][p] <= hits[b].first}

HitsArePresses ==
  \A b \in Bindings :
    ~hits[b].fired /\ hits[b].first <= Window => hits[b].count <= Cardinality(ChainOf(b))

FreshInv == TriggerTypes /\ CountedIsRemembered /\ HitsArePresses

\* The fires of a binding and its chain: one that has not fired began after the last
\* fire and over a window after the one before; one that has, after the last but one.
\* A binding of a single press fires at the first hit of a chain.
FiresFit(b) ==
  /\ hits[b].count = 0 => ~hits[b].fired /\ fires[b][1] = Late /\ fires[b][2] = Late
  /\ ~hits[b].fired /\ hits[b].count > 0 => fires[b][1] >= hits[b].first /\ fires[b][2] = Late
  /\ hits[b].fired => fires[b][2] >= hits[b].first
  /\ Binding[b].minHits = 1 /\ hits[b].count > 0 => hits[b].fired /\ fires[b][1] >= hits[b].first

RareInv == TriggerTypes /\ \A b \in Bindings : FiresFit(b)

LEMMA AgeFacts ==
  /\ Window \in Nat /\ Dedup \in Nat /\ Dedup < Window /\ Late = Window + 1
  /\ 0 \in Ages /\ Late \in Ages /\ 0 # Late
  /\ \A a \in Ages : /\ a \in Nat /\ a <= Late /\ (a # Late => a <= Window)
                     /\ Older(a) \in Ages /\ Older(a) >= a
                     /\ (Older(a) # Late => Older(a) = a + 1 /\ a # Late)
BY TriggerAssumption DEF Late, Ages, Older

LEMMA BindingFacts ==
  ASSUME NEW b \in Bindings
  PROVE  Binding[b].minHits \in Nat /\ Binding[b].minHits >= 1
BY TriggerAssumption DEF BindingRecords

LEMMA UnusedType ==
  ASSUME TriggerTypes
  PROVE  /\ Unused \in [Bindings -> [Presses -> Ages]]
         /\ Forgotten \in [Presses -> Ages]
BY AgeFacts DEF TriggerTypes, TriggerTypeOK, Unused, Forgotten

\* A hit begins a chain or goes into the one that runs.
LEMMA RecordHitFacts ==
  ASSUME NEW h \in HitStates
  PROVE  /\ RecordHit(h) \in HitStates
         /\ h.first > Window \/ h.count = 0 =>
              RecordHit(h).count = 1 /\ RecordHit(h).first = 0 /\ ~RecordHit(h).fired
         /\ ~(h.first > Window \/ h.count = 0) =>
              /\ RecordHit(h).count = h.count + 1
              /\ RecordHit(h).first = h.first /\ RecordHit(h).fired = h.fired
<1>1. /\ h.count \in Nat /\ h.first \in Ages /\ h.fired \in BOOLEAN
      /\ h = [count |-> h.count, first |-> h.first, fired |-> h.fired]
  BY DEF HitStates
<1>2. CASE h.first > Window \/ h.count = 0
  <2>1. RecordHit(h) = [count |-> 1, first |-> 0, fired |-> FALSE]
    BY <1>2 DEF RecordHit
  <2>2. RecordHit(h).count = 1 /\ RecordHit(h).first = 0 /\ RecordHit(h).fired = FALSE
    BY ONLY <2>1
  <2>3. RecordHit(h) \in HitStates
    BY <2>1, AgeFacts DEF HitStates
  <2> QED
    BY <1>2, <2>2, <2>3
<1>3. CASE ~(h.first > Window \/ h.count = 0)
  <2>1. RecordHit(h) = [h EXCEPT !.count = h.count + 1]
    BY <1>3 DEF RecordHit
  <2>2. RecordHit(h) = [count |-> h.count + 1, first |-> h.first, fired |-> h.fired]
    BY ONLY <1>1, <2>1
  <2>3. h.count + 1 \in Nat
    BY <1>1
  <2> QED
    BY <1>1, <1>3, <2>2, <2>3 DEF HitStates
<1> QED
  BY <1>2, <1>3

\* The hits of a binding after a capture of signal s by r, before it fires.
HitOf(b, s, r) == IF Counts(b, s, r) THEN RecordHit(hits[b]) ELSE hits[b]

\* What a capture does to each binding.
LEMMA CaptureFacts ==
  ASSUME TriggerTypes, NEW p \in Presses, NEW r \in Receivers, Capture(p, r)
  PROVE  /\ decided' = {b \in Bindings : /\ Counts(b, pressed[p], r)
                                         /\ ShouldFire(b, HitOf(b, pressed[p], r))}
         /\ hits' \in [Bindings -> HitStates]
         /\ \A b \in Bindings :
              /\ HitOf(b, pressed[p], r) \in HitStates
              /\ hits'[b].count = HitOf(b, pressed[p], r).count
              /\ hits'[b].first = HitOf(b, pressed[p], r).first
              /\ hits'[b].fired <=> (HitOf(b, pressed[p], r).fired \/ b \in decided')
              /\ counted'[b] = IF Counts(b, pressed[p], r)
                               THEN [Unused[b] EXCEPT ![p] = 0] ELSE Unused[b]
              /\ fires'[b] = IF b \in decided' THEN <<0, fires[b][1]>> ELSE fires[b]
         /\ counted' \in [Bindings -> [Presses -> Ages]]
         /\ fires' \in [Bindings -> Ages \X Ages]
<1> DEFINE s == pressed[p]
           counting == {b \in Bindings : Counts(b, s, r)}
           hit == [b \in Bindings |-> IF b \in counting THEN RecordHit(hits[b]) ELSE hits[b]]
<1>1. /\ decided' = {b \in counting : ShouldFire(b, hit[b])}
      /\ hits' = [b \in Bindings |-> [hit[b] EXCEPT !.fired = @ \/ b \in decided']]
      /\ counted' = [b \in Bindings |-> IF b \in counting
                       THEN [Unused[b] EXCEPT ![p] = 0] ELSE Unused[b]]
      /\ fires' = [b \in Bindings |-> IF b \in decided'
                     THEN <<0, fires[b][1]>> ELSE fires[b]]
  BY DEF Capture
<1>2. /\ hits \in [Bindings -> HitStates] /\ fires \in [Bindings -> Ages \X Ages]
      /\ Unused \in [Bindings -> [Presses -> Ages]]
  BY UnusedType DEF TriggerTypes, TriggerTypeOK
<1>3. \A b \in Bindings : hit[b] = HitOf(b, s, r) /\ hit[b] \in HitStates
  BY <1>2, RecordHitFacts DEF HitOf
<1>4. decided' = {b \in Bindings : Counts(b, s, r) /\ ShouldFire(b, HitOf(b, s, r))}
  BY <1>1, <1>3
<1>5. \A b \in Bindings :
        /\ counted'[b] = IF Counts(b, s, r) THEN [Unused[b] EXCEPT ![p] = 0] ELSE Unused[b]
        /\ fires'[b] = IF b \in decided' THEN <<0, fires[b][1]>> ELSE fires[b]
  BY <1>1
<1>6. /\ counted' \in [Bindings -> [Presses -> Ages]]
      /\ fires' \in [Bindings -> Ages \X Ages]
  <2>1. 0 \in Ages
    BY AgeFacts
  <2> QED
    BY ONLY <1>1, <1>2, <2>1, p \in Presses
<1> HIDE DEF hit, counting
<1>7. ASSUME NEW b \in Bindings
      PROVE  /\ hits'[b] \in HitStates
             /\ hits'[b].count = hit[b].count /\ hits'[b].first = hit[b].first
             /\ hits'[b].fired <=> (hit[b].fired \/ b \in decided')
  <2>1. hits'[b] = [hit[b] EXCEPT !.fired = hit[b].fired \/ b \in decided']
    BY <1>1
  <2>2. hit[b] \in [count : Nat, first : Ages, fired : BOOLEAN]
    BY <1>3 DEF HitStates
  <2> QED
    BY ONLY <2>1, <2>2 DEF HitStates
<1>8. hits' \in [Bindings -> HitStates]
  BY ONLY <1>1, <1>7
<1> QED
  BY <1>3, <1>4, <1>5, <1>6, <1>7, <1>8

LEMMA TriggerTypesStep ==
  ASSUME TriggerTypes, [TriggerStep \/ TriggerTick]_triggerVars
  PROVE  TriggerTypes'
<1>1. /\ age \in [Presses -> Ages] /\ pressed \in [Presses -> Signals]
      /\ heard \in [Presses -> SUBSET Receivers]
      /\ hits \in [Bindings -> HitStates]
      /\ memory \in [Signals -> [at : Ages, by : Receivers \cup {Nobody}]]
      /\ counted \in [Bindings -> [Presses -> Ages]]
      /\ fires \in [Bindings -> Ages \X Ages]
      /\ Unused \in [Bindings -> [Presses -> Ages]]
      /\ Forgotten \in [Presses -> Ages]
  BY UnusedType DEF TriggerTypes, TriggerTypeOK
<1>2. 0 \in Ages /\ Late \in Ages /\ \A a \in Ages : Older(a) \in Ages
  BY AgeFacts
<1>3. ASSUME hits' \in [Bindings -> HitStates], decided' = {},
             age' \in [Presses -> Ages], pressed' \in [Presses -> Signals],
             heard' \in [Presses -> SUBSET Receivers],
             memory' \in [Signals -> [at : Ages, by : Receivers \cup {Nobody}]],
             counted' \in [Bindings -> [Presses -> Ages]],
             fires' \in [Bindings -> Ages \X Ages]
      PROVE  TriggerTypes'
  BY <1>3 DEF TriggerTypes, TriggerTypeOK, HitStates
<1>4. NoHits \in HitStates /\ NoMemory \in [at : Ages, by : Receivers \cup {Nobody}]
  BY <1>2 DEF NoHits, NoMemory, HitStates
<1>5. ASSUME NEW p \in Presses, NEW r \in Receivers, Capture(p, r)
      PROVE  TriggerTypes'
  <2>1. /\ age' = age /\ pressed' = pressed
        /\ heard' = [heard EXCEPT ![p] = @ \cup {r}]
        /\ \/ memory' = memory
           \/ memory' = [memory EXCEPT ![pressed[p]] = [at |-> 0, by |-> r]]
    BY <1>5 DEF Capture
  <2>2. heard' \in [Presses -> SUBSET Receivers]
    BY ONLY <1>1, <2>1, r \in Receivers
  <2>3. memory' \in [Signals -> [at : Ages, by : Receivers \cup {Nobody}]]
    <3>1. [at |-> 0, by |-> r] \in [at : Ages, by : Receivers \cup {Nobody}]
      BY ONLY <1>2, r \in Receivers
    <3> QED
      BY ONLY <1>1, <2>1, <3>1, ZenonT(60)
  <2>4. /\ hits' \in [Bindings -> HitStates] /\ decided' \subseteq Bindings
        /\ counted' \in [Bindings -> [Presses -> Ages]]
        /\ fires' \in [Bindings -> Ages \X Ages]
        /\ \A b \in decided' : hits'[b].fired
    BY <1>5, CaptureFacts
  <2> QED
    BY <1>1, <2>1, <2>2, <2>3, <2>4 DEF TriggerTypes, TriggerTypeOK, HitStates
<1>6. CASE Reset
  <2>1. /\ hits' = [b \in Bindings |-> NoHits]
        /\ memory' = [s \in Signals |-> NoMemory]
        /\ decided' = {}
        /\ counted' = [b \in Bindings |-> Forgotten]
        /\ fires' = [b \in Bindings |-> <<Late, Late>>]
        /\ age' = age /\ pressed' = pressed /\ heard' = heard
    BY <1>6 DEF Reset
  <2>2. hits' \in [Bindings -> HitStates]
    BY ONLY <2>1, <1>4
  <2>3. memory' \in [Signals -> [at : Ages, by : Receivers \cup {Nobody}]]
    BY ONLY <2>1, <1>4
  <2>4. counted' \in [Bindings -> [Presses -> Ages]] /\ fires' \in [Bindings -> Ages \X Ages]
    BY ONLY <2>1, <1>1, <1>2
  <2> QED
    BY <1>1, <1>3, <2>1, <2>2, <2>3, <2>4
<1>7. ASSUME NEW b \in Bindings, ResetBinding(b)
      PROVE  TriggerTypes'
  <2>1. /\ hits' = [hits EXCEPT ![b] = NoHits] /\ decided' = {}
        /\ counted' = [Unused EXCEPT ![b] = Forgotten]
        /\ fires' = [fires EXCEPT ![b] = <<Late, Late>>]
        /\ age' = age /\ pressed' = pressed /\ heard' = heard /\ memory' = memory
    BY <1>7 DEF ResetBinding
  <2>2. hits' \in [Bindings -> HitStates]
    BY ONLY <2>1, <1>1, <1>4
  <2>3. counted' \in [Bindings -> [Presses -> Ages]] /\ fires' \in [Bindings -> Ages \X Ages]
    BY ONLY <2>1, <1>1, <1>2
  <2> QED
    BY <1>1, <1>3, <2>1, <2>2, <2>3
<1>8. ASSUME NEW p \in Presses, Press(p)
      PROVE  TriggerTypes'
  <2>1. PICK s \in Signals : pressed' = [pressed EXCEPT ![p] = s]
    BY <1>8 DEF Press
  <2>2. /\ age' = [age EXCEPT ![p] = 0] /\ heard' = [heard EXCEPT ![p] = {}]
        /\ decided' = {} /\ counted' = Unused
        /\ hits' = hits /\ memory' = memory /\ fires' = fires
    BY <1>8 DEF Press
  <2>3. /\ age' \in [Presses -> Ages] /\ pressed' \in [Presses -> Signals]
        /\ heard' \in [Presses -> SUBSET Receivers]
    BY ONLY <2>1, <2>2, <1>1, <1>2
  <2> QED
    BY <1>1, <1>3, <2>2, <2>3
<1>9. CASE TriggerTick
  <2>1. /\ age' = [p \in Presses |-> Older(age[p])]
        /\ hits' = [b \in Bindings |-> [hits[b] EXCEPT !.first = Older(hits[b].first)]]
        /\ memory' = [s \in Signals |-> [memory[s] EXCEPT !.at = Older(memory[s].at)]]
        /\ decided' = {}
        /\ counted' = [b \in Bindings |-> [p \in Presses |-> Older(Unused[b][p])]]
        /\ fires' = [b \in Bindings |-> <<Older(fires[b][1]), Older(fires[b][2])>>]
        /\ heard' = [p \in Presses |-> IF age[p] < Dedup THEN heard[p] ELSE {}]
        /\ pressed' = pressed
    BY <1>9 DEF TriggerTick
  <2>2. age' \in [Presses -> Ages] /\ counted' \in [Bindings -> [Presses -> Ages]]
    BY ONLY <2>1, <1>1, <1>2
  <2>3. fires' \in [Bindings -> Ages \X Ages] /\ heard' \in [Presses -> SUBSET Receivers]
    BY ONLY <2>1, <1>1, <1>2
  <2>4. hits' \in [Bindings -> HitStates]
    BY ONLY <2>1, <1>1, <1>2 DEF HitStates
  <2>5. memory' \in [Signals -> [at : Ages, by : Receivers \cup {Nobody}]]
    <3>1. ASSUME NEW s \in Signals
          PROVE  [memory[s] EXCEPT !.at = Older(memory[s].at)]
                   \in [at : Ages, by : Receivers \cup {Nobody}]
      BY ONLY <1>1, <1>2, s \in Signals
    <3>2. memory' = [s \in Signals |-> [memory[s] EXCEPT !.at = Older(memory[s].at)]]
      BY <2>1
    <3> QED
      BY ONLY <3>1, <3>2, Zenon
  <2> QED
    BY <1>1, <1>3, <2>1, <2>2, <2>3, <2>4, <2>5
<1>10. CASE UNCHANGED triggerVars
  BY <1>10 DEF triggerVars, TriggerTypes, TriggerTypeOK
<1> QED
  BY <1>5, <1>6, <1>7, <1>8, <1>9, <1>10 DEF TriggerStep

LEMMA PressSets ==
  ASSUME NEW T \in SUBSET Presses
  PROVE  /\ Cardinality(T) \in Nat
         /\ \A S \in SUBSET T : Cardinality(S) \in Nat /\ Cardinality(S) <= Cardinality(T)
         /\ \A p \in Presses \ T : Cardinality(T \cup {p}) = Cardinality(T) + 1
         /\ \A p \in T : Cardinality(T) >= 1
<1>1. IsFiniteSet(T)
  BY TriggerAssumption, FS_Subset
<1>2. \A S \in SUBSET T : IsFiniteSet(S) /\ Cardinality(S) <= Cardinality(T)
  BY <1>1, FS_Subset
<1>3. \A p \in Presses \ T : Cardinality(T \cup {p}) = Cardinality(T) + 1
  BY <1>1, FS_AddElement
<1>4. Cardinality(T) \in Nat /\ \A S \in SUBSET T : Cardinality(S) \in Nat
  BY <1>1, <1>2, FS_CardinalityType
<1>5. \A p \in T : {p} \in SUBSET T /\ Cardinality({p}) = 1
  BY FS_Singleton
<1>6. \A p \in T : Cardinality(T) >= 1
  BY <1>2, <1>4, <1>5
<1> QED
  BY <1>2, <1>3, <1>4, <1>6

LEMMA UnusedNext ==
  ASSUME NEW b \in Bindings
  PROVE  Unused'[b] = IF b \in decided' THEN Forgotten ELSE counted'[b]
BY DEF Unused, Forgotten

\* A capture that counts is of a press that has not counted since the last fire.
LEMMA CaptureIsFresh ==
  ASSUME FreshInv, NEW p \in Presses, NEW r \in Receivers, Capture(p, r),
         NEW b \in Bindings, Counts(b, pressed[p], r)
  PROVE  Unused[b][p] = Late
<1>1. age[p] <= Dedup /\ r \notin heard[p] /\ ~SamePress(pressed[p], r)
  BY DEF Capture, Counts
<1>2. age[p] \in Nat /\ memory[pressed[p]].at \in Nat /\ Dedup \in Nat
  BY AgeFacts DEF FreshInv, TriggerTypes, TriggerTypeOK
<1>3. Unused[b][p] # Late => /\ memory[pressed[p]].at <= age[p]
                             /\ memory[pressed[p]].by \in heard[p]
  BY <1>1 DEF FreshInv, CountedIsRemembered
<1>4. Unused[b][p] # Late => SamePress(pressed[p], r)
  BY <1>1, <1>2, <1>3 DEF SamePress
<1> QED
  BY <1>1, <1>4

\* The hits of a chain that has not fired stay as many presses when one is counted.
LEMMA CaptureExtendsChain ==
  ASSUME FreshInv, NEW p \in Presses, NEW r \in Receivers, Capture(p, r),
         NEW b \in Bindings, Counts(b, pressed[p], r), ~HitOf(b, pressed[p], r).fired
  PROVE  LET hit == HitOf(b, pressed[p], r)
         IN  /\ hit.first \in Nat /\ hit.first <= Window /\ hit.count \in Nat
             /\ hit.count <= Cardinality({q \in Presses : counted'[b][q] <= hit.first})
<1> DEFINE h == hits[b]
           hit == HitOf(b, pressed[p], r)
           chain == {q \in Presses : counted'[b][q] <= hit.first}
<1>1. h \in HitStates /\ Unused[b] \in [Presses -> Ages] /\ TriggerTypes
  BY UnusedType DEF FreshInv, TriggerTypes
<1>2. hit = RecordHit(h)
  BY DEF HitOf
<1>3. h.first \in Nat /\ h.count \in Nat /\ h.first \in Ages
  BY <1>1, AgeFacts DEF HitStates
<1>4. counted'[b] = [Unused[b] EXCEPT ![p] = 0]
  BY <1>1, CaptureFacts
<1>5. counted'[b][p] = 0 /\ \A q \in Presses \ {p} : counted'[b][q] = Unused[b][q]
  BY ONLY <1>1, <1>4, p \in Presses
<1>6. CASE h.first > Window \/ h.count = 0
  <2>1. hit.count = 1 /\ hit.first = 0
    BY <1>1, <1>2, <1>6, RecordHitFacts
  <2>2. p \in chain
    BY <1>5, <2>1
  <2>3. Cardinality(chain) >= 1 /\ Cardinality(chain) \in Nat
    BY <2>2, PressSets
  <2> QED
    BY <2>1, <2>3, AgeFacts
<1>7. CASE ~(h.first > Window \/ h.count = 0)
  <2>1. hit.count = h.count + 1 /\ hit.first = h.first /\ ~h.fired
    BY <1>1, <1>2, <1>7, RecordHitFacts
  <2>2. h.first <= Window
    BY <1>3, <1>7, AgeFacts
  <2>3. h.count <= Cardinality(ChainOf(b))
    BY <2>1, <2>2 DEF FreshInv, HitsArePresses
  <2>4. p \notin ChainOf(b)
    BY <1>3, <2>2, CaptureIsFresh, AgeFacts DEF ChainOf
  <2>5. chain = ChainOf(b) \cup {p}
    BY <1>3, <1>5, <2>1 DEF ChainOf
  <2>6. ChainOf(b) \in SUBSET Presses
    BY DEF ChainOf
  <2>7. Cardinality(chain) = Cardinality(ChainOf(b)) + 1 /\ Cardinality(ChainOf(b)) \in Nat
    BY <2>4, <2>5, <2>6, PressSets
  <2> HIDE DEF chain, hit, h
  <2>8. hit.first \in Nat /\ hit.first <= Window /\ hit.count \in Nat
    BY <1>3, <2>1, <2>2
  <2>9. hit.count <= Cardinality(chain)
    BY <1>3, <2>1, <2>3, <2>7
  <2> QED
    BY <2>8, <2>9 DEF chain, hit
<1> QED
  BY <1>6, <1>7

LEMMA CaptureKeepsFresh ==
  ASSUME FreshInv, NEW p \in Presses, NEW r \in Receivers, Capture(p, r)
  PROVE  CountedIsRemembered' /\ HitsArePresses' /\ FiresOnFreshPresses'
<1> DEFINE s == pressed[p]
<1>1. /\ TriggerTypes
      /\ age' = age /\ pressed' = pressed
      /\ heard' = [heard EXCEPT ![p] = @ \cup {r}]
      /\ age \in [Presses -> Ages] /\ pressed \in [Presses -> Signals]
      /\ heard \in [Presses -> SUBSET Receivers]
      /\ memory \in [Signals -> [at : Ages, by : Receivers \cup {Nobody}]]
  BY DEF Capture, FreshInv, TriggerTypes, TriggerTypeOK
<1>2. memory' = IF {b \in Bindings : Counts(b, s, r)} = {} THEN memory
                ELSE [memory EXCEPT ![s] = [at |-> 0, by |-> r]]
  BY DEF Capture
<1>3. ASSUME NEW b \in Bindings, NEW q \in Presses, Unused'[b][q] # Late, age[q] <= Dedup
      PROVE  /\ memory'[pressed[q]].at <= age[q]
             /\ memory'[pressed[q]].by \in heard'[q]
  <2>1. b \notin decided' /\ Unused'[b] = counted'[b]
    BY <1>3, UnusedNext DEF Forgotten
  <2>2. /\ counted'[b] = IF Counts(b, s, r) THEN [Unused[b] EXCEPT ![p] = 0] ELSE Unused[b]
    BY <1>1, CaptureFacts
  <2>3. Unused[b] \in [Presses -> Ages]
    BY <1>1, UnusedType
  <2>4. Unused[b][q] # Late \/ (Counts(b, s, r) /\ q = p)
    BY <1>3, <2>1, <2>2, <2>3
  <2>5. heard[q] \subseteq heard'[q] /\ r \in heard'[p]
    BY ONLY <1>1, p \in Presses, q \in Presses
  <2>6. CASE memory' # memory /\ pressed[q] = s
    <3>1. memory'[s].at = 0 /\ memory'[s].by = r
      BY <1>1, <1>2, <2>6
    <3>2. PICK c \in Bindings : Counts(c, s, r)
      BY <1>2, <2>6
    <3>3. ~SamePress(s, r)
      BY <3>2 DEF Counts
    <3>4. r \in heard'[q]
      <4>1. CASE q = p
        BY <2>5, <4>1
      <4>2. CASE Unused[b][q] # Late
        <5>1. memory[s].at <= age[q] /\ memory[s].by \in heard[q]
          BY <1>3, <2>6, <4>2 DEF FreshInv, CountedIsRemembered
        <5>2. memory[s].at \in Nat /\ age[q] \in Nat /\ Dedup \in Nat
          BY <1>1, AgeFacts
        <5>3. memory[s].by = r
          BY <1>3, <3>3, <5>1, <5>2 DEF SamePress
        <5> QED
          BY <2>5, <5>1, <5>3
      <4> QED
        BY <2>4, <4>1, <4>2
    <3>5. age[q] \in Nat
      BY <1>1, AgeFacts
    <3> QED
      BY <2>6, <3>1, <3>4, <3>5
  <2>7. CASE memory' = memory \/ pressed[q] # s
    <3>1. memory'[pressed[q]] = memory[pressed[q]]
      BY <1>1, <1>2, <2>7
    <3>2. CASE Unused[b][q] # Late
      BY <1>3, <2>5, <3>1, <3>2 DEF FreshInv, CountedIsRemembered
    <3>3. CASE Counts(b, s, r) /\ q = p
      <4>1. memory' = [memory EXCEPT ![s] = [at |-> 0, by |-> r]] /\ memory' = memory
        BY <1>2, <2>7, <3>3
      <4>2. memory'[s] = [at |-> 0, by |-> r]
        BY ONLY <1>1, <4>1, p \in Presses
      <4>3. age[q] \in Nat
        BY <1>1, AgeFacts
      <4> QED
        BY <2>5, <3>3, <4>2, <4>3
    <3> QED
      BY <2>4, <3>2, <3>3
  <2> QED
    BY <2>6, <2>7
<1>4. CountedIsRemembered'
  BY <1>1, <1>3 DEF CountedIsRemembered, Late
<1>5. ASSUME NEW b \in Bindings, ~hits'[b].fired, hits'[b].first <= Window
      PROVE  hits'[b].count <= Cardinality(ChainOf(b)')
  <2>1. /\ hits'[b].count = HitOf(b, s, r).count /\ hits'[b].first = HitOf(b, s, r).first
        /\ ~HitOf(b, s, r).fired /\ b \notin decided'
        /\ counted'[b] = IF Counts(b, s, r) THEN [Unused[b] EXCEPT ![p] = 0] ELSE Unused[b]
    BY <1>1, <1>5, CaptureFacts
  <2>2. ChainOf(b)' = {q \in Presses : counted'[b][q] <= hits'[b].first}
    BY <2>1, UnusedNext DEF ChainOf
  <2>3. CASE Counts(b, s, r)
    <3> DEFINE hit == HitOf(b, s, r)
    <3>1. hit.count <= Cardinality({q \in Presses : counted'[b][q] <= hit.first})
      BY <2>1, <2>3, CaptureExtendsChain
    <3>2. hits'[b].count = hit.count /\ hits'[b].first = hit.first
      BY <2>1
    <3> HIDE DEF hit
    <3>3. ChainOf(b)' = {q \in Presses : counted'[b][q] <= hit.first}
      BY ONLY <2>2, <3>2
    <3> QED
      BY ONLY <3>1, <3>2, <3>3
  <2>4. CASE ~Counts(b, s, r)
    <3>1. HitOf(b, s, r) = hits[b]
      BY <2>4 DEF HitOf
    <3>2. hits'[b].count = hits[b].count /\ hits'[b].first = hits[b].first /\ ~hits[b].fired
      BY <2>1, <3>1
    <3>3. ChainOf(b)' = ChainOf(b)
      BY <2>1, <2>2, <2>4, <3>2 DEF ChainOf
    <3> QED
      BY <1>5, <3>2, <3>3 DEF FreshInv, HitsArePresses
  <2> QED
    BY <2>3, <2>4
<1>6. HitsArePresses'
  BY <1>5 DEF HitsArePresses
<1>7. ASSUME NEW b \in decided'
      PROVE  Cardinality({q \in Presses : counted'[b][q] <= Window}) >= Binding[b].minHits
  <2> DEFINE hit == HitOf(b, s, r)
             chain == {q \in Presses : counted'[b][q] <= hit.first}
             window == {q \in Presses : counted'[b][q] <= Window}
  <2>1. b \in Bindings /\ Counts(b, s, r) /\ hit.count >= Binding[b].minHits /\ ~hit.fired
    BY <1>1, <1>7, CaptureFacts DEF ShouldFire
  <2>2. /\ hit.first \in Nat /\ hit.first <= Window /\ hit.count \in Nat
        /\ hit.count <= Cardinality(chain)
    BY <2>1, CaptureExtendsChain
  <2>3. counted'[b] \in [Presses -> Ages]
    BY <1>1, <2>1, CaptureFacts
  <2>4. chain \in SUBSET window /\ window \in SUBSET Presses
    <3>1. \A q \in Presses : counted'[b][q] \in Nat
      BY <2>3, AgeFacts
    <3>2. Window \in Nat
      BY AgeFacts
    <3> HIDE DEF hit
    <3> QED
      BY ONLY <2>2, <3>1, <3>2
  <2>5. /\ Cardinality(chain) \in Nat /\ Cardinality(window) \in Nat
        /\ Cardinality(chain) <= Cardinality(window)
    BY <2>4, PressSets
  <2>6. Binding[b].minHits \in Nat
    BY <2>1, BindingFacts
  <2> HIDE DEF chain, window, hit
  <2>7. Cardinality(window) >= Binding[b].minHits
    BY <2>1, <2>2, <2>5, <2>6
  <2> QED
    BY <2>7 DEF window
<1> QED
  BY <1>4, <1>6, <1>7 DEF FiresOnFreshPresses

\* Ages keep their order as they grow, up to where they are cut off.
LEMMA OlderFacts ==
  ASSUME NEW a \in Ages, NEW c \in Ages
  PROVE  /\ a <= c => Older(a) <= Older(c)
         /\ a < Window /\ Older(c) <= a + 1 => c <= a
         /\ Older(a) <= Window => a <= Window /\ Older(a) = a + 1
         /\ Older(a) # Late => a # Late
         /\ a <= Window => Older(a) = a + 1
         /\ a >= Late => Older(a) = Late
<1> DEFINE w == Window
<1>1. w \in Nat
  BY TriggerAssumption
<1>2. /\ a \in 0 .. w + 1 /\ c \in 0 .. w + 1 /\ Late = w + 1
      /\ Older(a) = IF a = w + 1 THEN w + 1 ELSE a + 1
      /\ Older(c) = IF c = w + 1 THEN w + 1 ELSE c + 1
  BY DEF Older, Ages, Late
<1> HIDE DEF w
<1>3. /\ a <= c => Older(a) <= Older(c)
      /\ a < w /\ Older(c) <= a + 1 => c <= a
      /\ Older(a) <= w => a <= w /\ Older(a) = a + 1
      /\ Older(a) # Late => a # Late
      /\ a <= w => Older(a) = a + 1
      /\ a >= Late => Older(a) = Late
  BY ONLY <1>1, <1>2
<1> QED
  BY <1>3 DEF w

LEMMA TickKeepsFresh ==
  ASSUME FreshInv, TriggerTick
  PROVE  CountedIsRemembered' /\ HitsArePresses'
<1>1. /\ age \in [Presses -> Ages] /\ pressed \in [Presses -> Signals]
      /\ memory \in [Signals -> [at : Ages, by : Receivers \cup {Nobody}]]
      /\ hits \in [Bindings -> HitStates]
      /\ Unused \in [Bindings -> [Presses -> Ages]]
  BY UnusedType DEF FreshInv, TriggerTypes, TriggerTypeOK
<1>2. /\ age' = [p \in Presses |-> Older(age[p])]
      /\ hits' = [b \in Bindings |-> [hits[b] EXCEPT !.first = Older(hits[b].first)]]
      /\ memory' = [s \in Signals |-> [memory[s] EXCEPT !.at = Older(memory[s].at)]]
      /\ decided' = {}
      /\ counted' = [b \in Bindings |-> [p \in Presses |-> Older(Unused[b][p])]]
      /\ heard' = [p \in Presses |-> IF age[p] < Dedup THEN heard[p] ELSE {}]
      /\ pressed' = pressed
  BY DEF TriggerTick
<1>3. \A b \in Bindings, p \in Presses : Unused'[b][p] = Older(Unused[b][p])
  BY <1>2, UnusedNext
<1>4. ASSUME NEW b \in Bindings, NEW p \in Presses, Unused'[b][p] # Late, age'[p] <= Dedup
      PROVE  /\ memory'[pressed[p]].at <= age'[p]
             /\ memory'[pressed[p]].by \in heard'[p]
  <2> DEFINE s == pressed[p]
  <2>1. /\ age[p] \in Ages /\ memory[s].at \in Ages /\ Unused[b][p] \in Ages
        /\ memory[s] \in [at : Ages, by : Receivers \cup {Nobody}] /\ s \in Signals
    BY ONLY <1>1, b \in Bindings, p \in Presses
  <2>2. age'[p] = Older(age[p]) /\ memory'[s] = [memory[s] EXCEPT !.at = Older(memory[s].at)]
    BY ONLY <1>2, <2>1, p \in Presses
  <2>3. Unused[b][p] # Late
    BY <1>3, <1>4, <2>1, OlderFacts
  <2>4. age'[p] = age[p] + 1 /\ age[p] < Dedup
    <3>1. Older(age[p]) <= Window => Older(age[p]) = age[p] + 1
      BY <2>1, OlderFacts
    <3>2. /\ age[p] \in Nat /\ Older(age[p]) \in Nat /\ Window \in Nat
          /\ Dedup \in Nat /\ Dedup < Window
      BY <2>1, AgeFacts
    <3> QED
      BY ONLY <1>4, <2>2, <3>1, <3>2
  <2>5. memory[s].at <= age[p] /\ memory[s].by \in heard[p]
    <3>1. age[p] \in Nat /\ Dedup \in Nat
      BY <2>1, AgeFacts
    <3>2. age[p] <= Dedup
      BY <2>4, <3>1
    <3> QED
      BY <2>3, <3>2 DEF FreshInv, CountedIsRemembered
  <2>6. memory'[s].at = Older(memory[s].at) /\ memory'[s].by = memory[s].by
    BY ONLY <2>1, <2>2
  <2>7. heard'[p] = heard[p]
    BY <1>2, <2>4
  <2>8. memory'[s].at <= age'[p]
    BY <2>1, <2>2, <2>5, <2>6, OlderFacts
  <2> QED
    BY <2>5, <2>6, <2>7, <2>8
<1>5. ASSUME NEW b \in Bindings, ~hits'[b].fired, hits'[b].first <= Window
      PROVE  hits'[b].count <= Cardinality(ChainOf(b)')
  <2>1. hits[b] \in [count : Nat, first : Ages, fired : BOOLEAN]
    BY <1>1 DEF HitStates
  <2>2. hits'[b] = [hits[b] EXCEPT !.first = Older(hits[b].first)]
    BY <1>2
  <2>3. /\ hits'[b].first = Older(hits[b].first) /\ hits'[b].count = hits[b].count
        /\ hits'[b].fired = hits[b].fired /\ hits[b].first \in Ages
    BY ONLY <2>1, <2>2
  <2>4. hits'[b].first = hits[b].first + 1 /\ hits[b].first < Window
    <3>1. Older(hits[b].first) <= Window => Older(hits[b].first) = hits[b].first + 1
      BY <2>3, OlderFacts
    <3>2. hits[b].first \in Nat /\ Window \in Nat
      BY <2>3, AgeFacts
    <3> QED
      BY ONLY <1>5, <2>3, <3>1, <3>2
  <2>5. ASSUME NEW p \in Presses
        PROVE  Unused'[b][p] <= hits'[b].first <=> Unused[b][p] <= hits[b].first
    <3>1. Unused[b][p] \in Ages /\ Unused'[b][p] = Older(Unused[b][p])
      BY <1>1, <1>3
    <3>2. Unused[b][p] <= hits[b].first => Older(Unused[b][p]) <= Older(hits[b].first)
      BY <2>3, <3>1, OlderFacts
    <3>3. Older(Unused[b][p]) <= hits[b].first + 1 => Unused[b][p] <= hits[b].first
      BY <2>3, <2>4, <3>1, OlderFacts
    <3> QED
      BY <2>3, <2>4, <3>1, <3>2, <3>3
  <2>6. ChainOf(b)' = ChainOf(b)
    BY <2>5 DEF ChainOf
  <2> QED
    BY <1>5, <2>3, <2>4, <2>6, AgeFacts DEF FreshInv, HitsArePresses
<1> QED
  BY <1>2, <1>4, <1>5 DEF CountedIsRemembered, HitsArePresses, Late

LEMMA FreshStep ==
  ASSUME FreshInv, FiresOnFreshPresses, [TriggerStep \/ TriggerTick]_triggerVars
  PROVE  FreshInv' /\ FiresOnFreshPresses'
<1>1. TriggerTypes /\ TriggerTypes'
  BY TriggerTypesStep DEF FreshInv
<1>2. decided' = {} => FiresOnFreshPresses'
  BY DEF FiresOnFreshPresses
<1>3. /\ age \in [Presses -> Ages] /\ pressed \in [Presses -> Signals]
      /\ heard \in [Presses -> SUBSET Receivers]
      /\ hits \in [Bindings -> HitStates]
      /\ Unused \in [Bindings -> [Presses -> Ages]]
  BY <1>1, UnusedType DEF TriggerTypes, TriggerTypeOK
<1>4. ASSUME NEW p \in Presses, NEW r \in Receivers, Capture(p, r)
      PROVE  CountedIsRemembered' /\ HitsArePresses' /\ FiresOnFreshPresses'
  BY <1>4, CaptureKeepsFresh
<1>5. ASSUME Reset
      PROVE  CountedIsRemembered' /\ HitsArePresses' /\ FiresOnFreshPresses'
  <2>1. /\ decided' = {} /\ counted' = [b \in Bindings |-> Forgotten]
        /\ hits' = [b \in Bindings |-> NoHits]
    BY <1>5 DEF Reset
  <2>2. /\ \A b \in Bindings, p \in Presses : Unused'[b][p] = Late
        /\ \A b \in Bindings : hits'[b].first = Late
    BY <2>1, UnusedNext DEF Forgotten, NoHits
  <2>3. CountedIsRemembered'
    BY <2>2 DEF CountedIsRemembered, Late
  <2>4. HitsArePresses'
    BY <2>2, AgeFacts DEF HitsArePresses
  <2> QED
    BY <1>2, <2>1, <2>3, <2>4
<1>6. ASSUME NEW b \in Bindings, ResetBinding(b)
      PROVE  CountedIsRemembered' /\ HitsArePresses' /\ FiresOnFreshPresses'
  <2>1. /\ decided' = {} /\ counted' = [Unused EXCEPT ![b] = Forgotten]
        /\ hits' = [hits EXCEPT ![b] = NoHits]
        /\ age' = age /\ pressed' = pressed /\ heard' = heard /\ memory' = memory
    BY <1>6 DEF ResetBinding
  <2>2. counted'[b] = Forgotten /\ hits'[b] = NoHits
    BY ONLY <2>1, <1>3, b \in Bindings
  <2>3. hits'[b].first = Late /\ \A p \in Presses : Unused'[b][p] = Late
    BY <2>1, <2>2, UnusedNext DEF Forgotten, NoHits
  <2>4. \A c \in Bindings \ {b} : Unused'[c] = Unused[c] /\ hits'[c] = hits[c]
    BY <1>3, <2>1, UnusedNext
  <2>5. CountedIsRemembered'
    BY <2>1, <2>3, <2>4 DEF FreshInv, CountedIsRemembered, Late
  <2>6. ASSUME NEW c \in Bindings, ~hits'[c].fired, hits'[c].first <= Window
        PROVE  hits'[c].count <= Cardinality(ChainOf(c)')
    <3>1. c # b
      BY <2>3, <2>6, AgeFacts
    <3>2. ChainOf(c)' = ChainOf(c) /\ hits'[c] = hits[c]
      BY <2>4, <3>1 DEF ChainOf
    <3> QED
      BY <2>6, <3>2 DEF FreshInv, HitsArePresses
  <2> QED
    BY <1>2, <2>1, <2>5, <2>6 DEF HitsArePresses
<1>7. ASSUME NEW p \in Presses, Press(p)
      PROVE  CountedIsRemembered' /\ HitsArePresses' /\ FiresOnFreshPresses'
  <2>1. PICK s \in Signals : pressed' = [pressed EXCEPT ![p] = s]
    BY <1>7 DEF Press
  <2>2. /\ age' = [age EXCEPT ![p] = 0] /\ heard' = [heard EXCEPT ![p] = {}]
        /\ decided' = {} /\ counted' = Unused /\ hits' = hits /\ memory' = memory
        /\ \A b \in Bindings : Unused[b][p] = Late
    BY <1>7 DEF Press
  <2>3. \A b \in Bindings : Unused'[b] = Unused[b]
    BY <2>2, UnusedNext
  <2>4. \A q \in Presses \ {p} : /\ age'[q] = age[q] /\ heard'[q] = heard[q]
                                 /\ pressed'[q] = pressed[q]
    BY ONLY <1>3, <2>1, <2>2
  <2>5. CountedIsRemembered'
    BY <2>2, <2>3, <2>4 DEF FreshInv, CountedIsRemembered, Late
  <2>6. \A b \in Bindings : ChainOf(b)' = ChainOf(b)
    BY <2>2, <2>3 DEF ChainOf
  <2>7. HitsArePresses'
    BY <2>2, <2>6 DEF FreshInv, HitsArePresses
  <2> QED
    BY <1>2, <2>2, <2>5, <2>7
<1>8. ASSUME TriggerTick
      PROVE  CountedIsRemembered' /\ HitsArePresses' /\ FiresOnFreshPresses'
  BY <1>2, <1>8, TickKeepsFresh DEF TriggerTick
<1>9. ASSUME UNCHANGED triggerVars
      PROVE  CountedIsRemembered' /\ HitsArePresses' /\ FiresOnFreshPresses'
  <2>1. /\ age' = age /\ pressed' = pressed /\ heard' = heard /\ hits' = hits
        /\ memory' = memory /\ decided' = decided /\ counted' = counted
    BY <1>9 DEF triggerVars
  <2>2. Unused' = Unused
    BY <2>1 DEF Unused, Forgotten, Late
  <2> QED
    BY <2>1, <2>2 DEF FreshInv, CountedIsRemembered, HitsArePresses, ChainOf,
                      FiresOnFreshPresses, Late
<1>10. CountedIsRemembered' /\ HitsArePresses' /\ FiresOnFreshPresses'
  BY <1>4, <1>5, <1>6, <1>7, <1>8, <1>9 DEF TriggerStep
<1> QED
  BY <1>1, <1>10 DEF FreshInv

LEMMA TriggerInitTypes ==
  ASSUME TriggerInit
  PROVE  TriggerTypes
<1>1. 0 \in Ages /\ Late \in Ages
  BY AgeFacts
<1>2. NoHits \in HitStates /\ NoMemory \in [at : Ages, by : Receivers \cup {Nobody}]
  BY <1>1 DEF NoHits, NoMemory, HitStates
<1>3. /\ age = Forgotten /\ pressed \in [Presses -> Signals]
      /\ heard = [p \in Presses |-> {}] /\ hits = [b \in Bindings |-> NoHits]
      /\ memory = [s \in Signals |-> NoMemory] /\ decided = {}
      /\ counted = [b \in Bindings |-> Forgotten]
      /\ fires = [b \in Bindings |-> <<Late, Late>>]
  BY DEF TriggerInit
<1>4. Forgotten \in [Presses -> Ages]
  BY <1>1 DEF Forgotten
<1>5. /\ hits \in [Bindings -> HitStates]
      /\ memory \in [Signals -> [at : Ages, by : Receivers \cup {Nobody}]]
      /\ counted \in [Bindings -> [Presses -> Ages]]
      /\ fires \in [Bindings -> Ages \X Ages]
      /\ heard \in [Presses -> SUBSET Receivers]
  BY ONLY <1>1, <1>2, <1>3, <1>4
<1> QED
  BY <1>3, <1>4, <1>5 DEF TriggerTypes, TriggerTypeOK, HitStates

\* A binding fires on as many presses as it asks for, none counted twice or by two
\* receivers, and none that an earlier fire has used.
THEOREM FiresAreEarned == TriggerSpec => []FiresOnFreshPresses
<1> DEFINE Inv == FreshInv /\ FiresOnFreshPresses
<1>1. ASSUME TriggerInit
      PROVE  Inv
  <2>1. /\ decided = {} /\ counted = [b \in Bindings |-> Forgotten]
        /\ hits = [b \in Bindings |-> NoHits]
    BY <1>1 DEF TriggerInit
  <2>2. /\ \A b \in Bindings : hits[b].first = Late
        /\ \A b \in Bindings, p \in Presses : Unused[b][p] = Late
    BY <2>1 DEF Forgotten, Unused, NoHits
  <2>3. CountedIsRemembered
    BY <2>2 DEF CountedIsRemembered
  <2>4. HitsArePresses
    BY <2>2, AgeFacts DEF HitsArePresses
  <2> QED
    BY <1>1, <2>1, <2>3, <2>4, TriggerInitTypes DEF FreshInv, FiresOnFreshPresses
<1>2. Inv /\ [TriggerStep \/ TriggerTick]_triggerVars => Inv'
  BY FreshStep
<1>3. Inv => FiresOnFreshPresses
  OBVIOUS
<1> HIDE DEF Inv
<1> QED
  BY <1>1, <1>2, <1>3, PTL DEF TriggerSpec

\* The fires of a binding fit its chain after any capture, and a fire is rare.
LEMMA CaptureFiresFit ==
  ASSUME RareInv, NEW p \in Presses, NEW r \in Receivers, Capture(p, r), NEW b \in Bindings
  PROVE  /\ FiresFit(b)'
         /\ b \in decided' => /\ fires[b][2] > Window
                              /\ Binding[b].minHits = 1 => fires[b][1] > Window
<1> DEFINE s == pressed[p]
           h == hits[b]
           hit == HitOf(b, s, r)
           n == Binding[b].minHits
           f1 == fires[b][1]
           f2 == fires[b][2]
<1>1. TriggerTypes /\ FiresFit(b)
  BY DEF RareInv
<1>2. h \in HitStates /\ fires[b] \in Ages \X Ages
  BY <1>1 DEF TriggerTypes, TriggerTypeOK
<1>3. /\ h.count \in Nat /\ h.first \in Nat /\ f1 \in Nat /\ f2 \in Nat
      /\ h.fired \in BOOLEAN
      /\ h.first <= Late /\ f1 <= Late /\ f2 <= Late /\ Late > Window
      /\ Late \in Nat /\ Window \in Nat
  <2>1. h.count \in Nat /\ h.first \in Ages /\ h.fired \in BOOLEAN
    BY <1>2 DEF HitStates
  <2>2. f1 \in Ages /\ f2 \in Ages
    BY <1>2
  <2> HIDE DEF h, f1, f2
  <2>3. /\ h.first \in Nat /\ f1 \in Nat /\ f2 \in Nat
        /\ h.first <= Late /\ f1 <= Late /\ f2 <= Late
    BY <2>1, <2>2, AgeFacts
  <2>4. Late > Window /\ Late \in Nat /\ Window \in Nat
    BY AgeFacts
  <2> QED
    BY <2>1, <2>3, <2>4
<1>4. n \in Nat /\ n >= 1
  BY BindingFacts
<1>5. /\ hits'[b].count = hit.count /\ hits'[b].first = hit.first
      /\ hits'[b].fired <=> (hit.fired \/ b \in decided')
      /\ fires'[b] = IF b \in decided' THEN <<0, fires[b][1]>> ELSE fires[b]
      /\ b \in decided' <=> Counts(b, s, r) /\ hit.count >= n /\ ~hit.fired
  <2>1. decided' = {c \in Bindings : Counts(c, s, r) /\ ShouldFire(c, HitOf(c, s, r))}
    BY <1>1, CaptureFacts
  <2>2. b \in decided' <=> Counts(b, s, r) /\ hit.count >= n /\ ~hit.fired
    BY <2>1 DEF ShouldFire
  <2> HIDE DEF hit, n
  <2> QED
    BY <1>1, <2>2, CaptureFacts DEF hit
<1>6. /\ b \in decided' => fires'[b][1] = 0 /\ fires'[b][2] = f1
      /\ b \notin decided' => fires'[b][1] = f1 /\ fires'[b][2] = f2
  BY <1>5
<1>7. /\ h.count = 0 => ~h.fired /\ f1 = Late /\ f2 = Late
      /\ ~h.fired /\ h.count > 0 => f1 >= h.first /\ f2 = Late
      /\ h.fired => f2 >= h.first
      /\ n = 1 /\ h.count > 0 => h.fired /\ f1 >= h.first
  BY <1>1 DEF FiresFit
<1>8. FiresFit(b)' <=>
        /\ hits'[b].count = 0 => ~hits'[b].fired /\ fires'[b][1] = Late /\ fires'[b][2] = Late
        /\ ~hits'[b].fired /\ hits'[b].count > 0 =>
             fires'[b][1] >= hits'[b].first /\ fires'[b][2] = Late
        /\ hits'[b].fired => fires'[b][2] >= hits'[b].first
        /\ n = 1 /\ hits'[b].count > 0 => hits'[b].fired /\ fires'[b][1] >= hits'[b].first
  BY DEF FiresFit, Late
<1>9. CASE ~Counts(b, s, r)
  <2>1. hit = h
    BY <1>9 DEF HitOf
  <2>2. b \notin decided' /\ (hits'[b].fired <=> h.fired)
    BY <1>5, <1>9, <2>1
  <2>3. fires'[b][1] = f1 /\ fires'[b][2] = f2 /\ hits'[b].count = h.count /\ hits'[b].first = h.first
    BY <1>5, <1>6, <2>1, <2>2
  <2> HIDE DEF h, f1, f2, n, hit
  <2> QED
    BY ONLY <1>7, <1>8, <2>2, <2>3
<1>10. CASE Counts(b, s, r) /\ (h.first > Window \/ h.count = 0)
  <2>1. hit = RecordHit(h)
    BY <1>10 DEF HitOf
  <2>2. hit.count = 1 /\ hit.first = 0 /\ ~hit.fired
    BY <1>2, <1>10, <2>1, RecordHitFacts
  <2>3. f2 = Late /\ (n = 1 => f1 = Late)
    <3> HIDE DEF h, f1, f2, n, hit
    <3> QED
      BY ONLY <1>3, <1>7, <1>10, AgeFacts
  <2> HIDE DEF h, f1, f2, n, hit
  <2>4. CASE b \in decided'
    <3>1. hits'[b].fired /\ fires'[b][1] = 0 /\ fires'[b][2] = f1
      BY <1>5, <1>6, <2>4
    <3>2. FiresFit(b)'
      BY ONLY <1>3, <1>5, <1>8, <2>2, <3>1
    <3> QED
      BY <1>3, <2>3, <3>2 DEF f1, f2, n
  <2>5. CASE b \notin decided'
    <3>1. ~hits'[b].fired /\ fires'[b][1] = f1 /\ fires'[b][2] = f2 /\ n # 1
      BY <1>4, <1>5, <1>6, <1>10, <2>2, <2>5
    <3> QED
      BY ONLY <1>3, <1>5, <1>8, <2>2, <2>3, <2>5, <3>1
  <2> QED
    BY <2>4, <2>5
<1>11. CASE Counts(b, s, r) /\ ~(h.first > Window \/ h.count = 0)
  <2>1. hit = RecordHit(h)
    BY <1>11 DEF HitOf
  <2>2. hit.count = h.count + 1 /\ hit.first = h.first /\ hit.fired = h.fired
    BY <1>2, <1>11, <2>1, RecordHitFacts
  <2> HIDE DEF h, f1, f2, n, hit
  <2>3. h.count > 0
    BY <1>3, <1>11
  <2>4. CASE b \in decided'
    <3>1. hits'[b].fired /\ fires'[b][1] = 0 /\ fires'[b][2] = f1 /\ ~h.fired
      BY <1>5, <1>6, <2>2, <2>4
    <3>2. f1 >= h.first /\ f2 = Late /\ n # 1
      BY ONLY <1>7, <2>3, <3>1
    <3>3. FiresFit(b)'
      BY ONLY <1>3, <1>5, <1>8, <2>2, <3>1, <3>2
    <3> QED
      BY <1>3, <3>2, <3>3 DEF f1, f2, n
  <2>5. CASE b \notin decided'
    <3>1. (hits'[b].fired <=> h.fired) /\ fires'[b][1] = f1 /\ fires'[b][2] = f2
      BY <1>5, <1>6, <2>2, <2>5
    <3> QED
      BY ONLY <1>3, <1>5, <1>7, <1>8, <2>2, <2>3, <2>5, <3>1
  <2> QED
    BY <2>4, <2>5
<1> QED
  BY <1>9, <1>10, <1>11

\* What a step does to the bindings it does not evaluate.
LEMMA FiresFitStays ==
  ASSUME NEW b \in Bindings, FiresFit(b), hits'[b] = hits[b], fires'[b] = fires[b]
  PROVE  FiresFit(b)'
BY DEF FiresFit, Late

LEMMA FiresFitClean ==
  ASSUME NEW b \in Bindings, hits'[b] = NoHits, fires'[b] = <<Late, Late>>
  PROVE  FiresFit(b)'
BY DEF FiresFit, NoHits, Late

LEMMA TickFiresFit ==
  ASSUME RareInv, TriggerTick, NEW b \in Bindings
  PROVE  FiresFit(b)'
<1>1. FiresFit(b) /\ hits[b] \in HitStates /\ fires[b] \in Ages \X Ages
  BY DEF RareInv, TriggerTypes, TriggerTypeOK
<1>2. /\ hits'[b] = [hits[b] EXCEPT !.first = Older(hits[b].first)]
      /\ fires'[b] = <<Older(fires[b][1]), Older(fires[b][2])>>
  BY DEF TriggerTick
<1>3. /\ hits'[b].count = hits[b].count /\ hits'[b].fired = hits[b].fired
      /\ hits'[b].first = Older(hits[b].first)
      /\ fires'[b][1] = Older(fires[b][1]) /\ fires'[b][2] = Older(fires[b][2])
  BY ONLY <1>1, <1>2 DEF HitStates
<1>4. hits[b].first \in Ages /\ fires[b][1] \in Ages /\ fires[b][2] \in Ages
  BY <1>1 DEF HitStates
<1>5. /\ fires[b][1] >= hits[b].first => Older(fires[b][1]) >= Older(hits[b].first)
      /\ fires[b][2] >= hits[b].first => Older(fires[b][2]) >= Older(hits[b].first)
  <2>1. /\ hits[b].first <= fires[b][1] => Older(hits[b].first) <= Older(fires[b][1])
        /\ hits[b].first <= fires[b][2] => Older(hits[b].first) <= Older(fires[b][2])
    BY <1>4, OlderFacts
  <2> QED
    BY <2>1
<1>6. Older(Late) = Late
  BY DEF Older
<1> QED
  BY <1>1, <1>3, <1>5, <1>6 DEF FiresFit, Late

LEMMA RareStep ==
  ASSUME RareInv, [TriggerStep \/ TriggerTick]_triggerVars
  PROVE  /\ RareInv'
         /\ \/ UNCHANGED triggerVars
            \/ \A b \in decided' : /\ fires[b][2] > Window
                                   /\ Binding[b].minHits = 1 => fires[b][1] > Window
<1> DEFINE Fit == \A b \in Bindings : FiresFit(b)'
           Rare == \A b \in decided' : /\ fires[b][2] > Window
                                       /\ Binding[b].minHits = 1 => fires[b][1] > Window
<1>1. TriggerTypes /\ TriggerTypes' /\ \A b \in Bindings : FiresFit(b)
  BY TriggerTypesStep DEF RareInv
<1>2. hits \in [Bindings -> HitStates] /\ fires \in [Bindings -> Ages \X Ages]
  BY <1>1 DEF TriggerTypes, TriggerTypeOK
<1>3. decided' \subseteq Bindings
  BY <1>1 DEF TriggerTypes, TriggerTypeOK
<1>4. decided' = {} => Rare
  OBVIOUS
<1>5. ASSUME NEW p \in Presses, NEW r \in Receivers, Capture(p, r)
      PROVE  Fit /\ Rare
  BY <1>3, <1>5, CaptureFiresFit
<1>6. ASSUME Reset
      PROVE  Fit /\ Rare
  BY <1>4, <1>6, FiresFitClean DEF Reset
<1>7. ASSUME NEW b \in Bindings, ResetBinding(b)
      PROVE  Fit /\ Rare
  <2>1. /\ hits' = [hits EXCEPT ![b] = NoHits] /\ decided' = {}
        /\ fires' = [fires EXCEPT ![b] = <<Late, Late>>]
    BY <1>7 DEF ResetBinding
  <2>2. hits'[b] = NoHits /\ fires'[b] = <<Late, Late>>
    BY ONLY <1>2, <2>1, b \in Bindings
  <2>3. \A c \in Bindings \ {b} : hits'[c] = hits[c] /\ fires'[c] = fires[c]
    BY ONLY <1>2, <2>1
  <2>4. ASSUME NEW c \in Bindings
        PROVE  FiresFit(c)'
    BY <1>1, <2>2, <2>3, FiresFitClean, FiresFitStays
  <2> QED
    BY <1>4, <2>1, <2>4
<1>8. ASSUME NEW p \in Presses, Press(p)
      PROVE  Fit /\ Rare
  <2>1. hits' = hits /\ fires' = fires /\ decided' = {}
    BY <1>8 DEF Press
  <2>2. ASSUME NEW b \in Bindings
        PROVE  FiresFit(b)'
    BY <1>1, <2>1, FiresFitStays
  <2> QED
    BY <1>4, <2>1, <2>2
<1>9. ASSUME TriggerTick
      PROVE  Fit /\ Rare
  BY <1>4, <1>9, TickFiresFit DEF TriggerTick
<1>10. ASSUME UNCHANGED triggerVars
       PROVE  Fit
  <2>1. hits' = hits /\ fires' = fires
    BY <1>10 DEF triggerVars
  <2> QED
    BY <1>1, <2>1, FiresFitStays
<1>11. Fit /\ (Rare \/ UNCHANGED triggerVars)
  <2> HIDE DEF Fit, Rare
  <2> QED
    BY <1>5, <1>6, <1>7, <1>8, <1>9, <1>10 DEF TriggerStep
<1> QED
  BY <1>1, <1>11 DEF RareInv

\* Three fires of a binding take longer than a window, and two of one that asks for a
\* single press.
THEOREM FiresKeepApart == TriggerSpec => FiresAreRare
<1> DEFINE Rare == \A b \in decided' : /\ fires[b][2] > Window
                                       /\ Binding[b].minHits = 1 => fires[b][1] > Window
<1>1. ASSUME TriggerInit
      PROVE  RareInv
  <2>1. /\ hits = [b \in Bindings |-> NoHits]
        /\ fires = [b \in Bindings |-> <<Late, Late>>]
    BY <1>1 DEF TriggerInit
  <2>2. \A b \in Bindings : FiresFit(b)
    BY <2>1 DEF FiresFit, NoHits
  <2> QED
    BY <1>1, <2>2, TriggerInitTypes DEF RareInv
<1>2. RareInv /\ [TriggerStep \/ TriggerTick]_triggerVars => RareInv'
  BY RareStep
<1>3. RareInv /\ [TriggerStep \/ TriggerTick]_triggerVars => [Rare]_triggerVars
  BY RareStep
<1>4. FiresAreRare <=> [][Rare]_triggerVars
  BY DEF FiresAreRare
<1> HIDE DEF Rare
<1> QED
  BY <1>1, <1>2, <1>3, <1>4, PTL DEF TriggerSpec

-------------------------------------------------------------------------------
(* The arithmetic of the speed mapper.                                     *)

\* The distance of two numbers is at most a bound, either way round.
LEMMA DistanceFacts ==
  ASSUME NEW a \in Int, NEW c \in Int
  PROVE  /\ Distance(a, c) \in Nat
         /\ Distance(a, c) >= a - c /\ Distance(a, c) >= c - a
         /\ \A k \in Int : /\ Distance(a, c) < k <=> a - c < k /\ c - a < k
                           /\ 2 * Distance(a, c) <= k <=> 2 * (a - c) <= k /\ 2 * (c - a) <= k
BY DEF Distance, Larger, Smaller

\* A percentage becomes the step at or above it.
LEMMA StepFacts ==
  ASSUME NEW percent \in Int, NEW total \in Nat, total > 0
  PROVE  /\ PercentToDiscrete(percent, total) \in 0 .. total
         /\ percent > 0 => PercentToDiscrete(percent, total) >= 1
         /\ percent > 0 /\ percent <= 100 =>
              LET above == PercentToDiscrete(percent, total) - 1
              IN  /\ 100 * above >= percent * (total - 1)
                  /\ 100 * above < percent * (total - 1) + 100
<1>1. CASE percent <= 0
  BY <1>1 DEF PercentToDiscrete
<1>2. CASE percent > 0
  <2> DEFINE p == Smaller(percent, 100)
             n == p * (total - 1)
             c == Ceiling(n, 100)
  <2>1. p \in 1 .. 100 /\ (percent <= 100 => p = percent)
    BY <1>2 DEF Smaller
  <2>2. n \in Nat /\ n <= 100 * (total - 1)
    <3> HIDE DEF p
    <3>1. \A x \in 1 .. 100, y \in Nat : x * y \in Nat /\ x * y <= 100 * y
      OBVIOUS
    <3>2. total - 1 \in Nat
      OBVIOUS
    <3> QED
      BY <2>1, <3>1, <3>2
  <2>3. PercentToDiscrete(percent, total) = 1 + c
    BY <1>2 DEF PercentToDiscrete
  <2>4. c \in Int /\ 100 * c >= n /\ 100 * c < n + 100
    <3> HIDE DEF n
    <3> QED
      BY <2>2 DEF Ceiling
  <2>5. percent <= 100 => n = percent * (total - 1)
    BY <2>1
  <2> HIDE DEF c, n
  <2>6. c \in Nat /\ c <= total - 1
    BY ONLY <2>2, <2>4, total \in Nat, total > 0
  <2> QED
    BY <1>2, <2>3, <2>4, <2>5, <2>6
<1> QED
  BY <1>1, <1>2

\* A step becomes the percentage nearest to it.
LEMMA PercentFacts ==
  ASSUME NEW step \in Nat, NEW total \in Nat, step >= 1, step <= total
  PROVE  LET percent == DiscreteToPercent(step, total)
         IN  /\ percent \in 0 .. 100
             /\ 2 * Distance(100 * (step - 1), percent * (total - 1)) <= total - 1
<1> DEFINE percent == DiscreteToPercent(step, total)
<1>1. CASE total = 1
  <2>1. step = 1 /\ percent = 0
    BY <1>1 DEF DiscreteToPercent, RangedValueToPercentage
  <2> QED
    BY <1>1, <2>1 DEF Distance, Larger, Smaller
<1>2. CASE total # 1
  <2> DEFINE n == 100 * (step - 1)
             d == total - 1
             r == RoundHalfToEven(n, d)
  <2>1. Larger(1, Smaller(total, Smaller(step, total))) = step
    BY DEF Larger, Smaller
  <2>2. percent = r
    BY <1>2, <2>1 DEF DiscreteToPercent, RangedValueToPercentage
  <2>3. n \in Nat /\ d \in Nat /\ d > 0 /\ n <= 100 * d
    BY <1>2
  <2> HIDE DEF n, d
  <2>4. r \in Nat /\ 2 * (d * r) <= 2 * n + d /\ 2 * (d * r) >= 2 * n - d
    BY <2>3, RoundFacts
  <2> HIDE DEF r, percent
  <2>5. r <= 100
    <3>1. SUFFICES ASSUME r >= 101 PROVE FALSE
      BY <2>4
    <3>2. d * r >= d * 101
      BY ONLY <2>3, <2>4, <3>1
    <3>3. 2 * (d * r) <= 200 * d + d
      BY ONLY <2>3, <2>4
    <3> QED
      BY ONLY <2>3, <2>4, <3>2, <3>3
  <2>6. d * r = r * d /\ d * r \in Nat
    BY ONLY <2>3, <2>4
  <2>7. 2 * Distance(n, r * d) <= d
    <3> DEFINE e == r * d
    <3>1. e \in Int /\ 2 * (n - e) <= d /\ 2 * (e - n) <= d
      BY ONLY <2>3, <2>4, <2>6
    <3> HIDE DEF e
    <3>2. n \in Int /\ d \in Int
      BY <2>3
    <3>3. 2 * Distance(n, e) <= d
      BY <3>1, <3>2, DistanceFacts
    <3> QED
      BY <3>3 DEF e
  <2> QED
    BY <2>2, <2>4, <2>5, <2>7 DEF n, d, percent
<1> QED
  BY <1>1, <1>2

\* The percentage nearest to a step of up to 200 becomes that step or the next.
LEMMA ResumedFacts ==
  ASSUME NEW percent \in 1 .. 100, NEW step \in Int, NEW total \in 1 .. 200,
         2 * Distance(100 * (step - 1), percent * (total - 1)) <= total - 1
  PROVE  PercentToDiscrete(percent, total) =
           IF percent * (total - 1) > 100 * (step - 1) THEN step + 1 ELSE step
<1> DEFINE n == percent * (total - 1)
           above == PercentToDiscrete(percent, total) - 1
           d == total - 1
<1>1. n \in Nat /\ d \in 0 .. 199
  <2>1. \A x, y \in Nat : x * y \in Nat
    OBVIOUS
  <2> QED
    BY <2>1
<1>2. above \in Int /\ 100 * above >= n /\ 100 * above < n + 100
  <2>1. percent \in Int /\ percent > 0 /\ percent <= 100 /\ total \in Nat /\ total > 0
    OBVIOUS
  <2>2. PercentToDiscrete(percent, total) \in Int
    BY <2>1, StepFacts
  <2> QED
    BY <2>1, <2>2, StepFacts
<1> HIDE DEF n, above, d
<1>3. 2 * (100 * (step - 1) - n) <= d /\ 2 * (n - 100 * (step - 1)) <= d
  <2>1. 2 * Distance(100 * (step - 1), n) <= d
    BY DEF n, d
  <2> QED
    <3> DEFINE m == 100 * (step - 1)
    <3>1. m \in Int /\ n \in Int /\ d \in Int
      BY <1>1
    <3> HIDE DEF m
    <3>2. 2 * Distance(m, n) <= d
      BY <2>1 DEF m
    <3>3. 2 * (m - n) <= d /\ 2 * (n - m) <= d
      BY <3>1, <3>2, DistanceFacts
    <3> QED
      BY <3>3 DEF m
<1>4. above = IF n > 100 * (step - 1) THEN step ELSE step - 1
  BY ONLY <1>1, <1>2, <1>3, step \in Int
<1> QED
  <2>1. PercentToDiscrete(percent, total) \in Int
    <3>1. percent \in Int /\ total \in Nat /\ total > 0
      OBVIOUS
    <3>2. PercentToDiscrete(percent, total) \in 0 .. total
      BY <3>1, StepFacts
    <3> QED
      BY <3>2
  <2> QED
    BY <1>4, <2>1 DEF above, n

\* A brightness of at least one percent becomes a step less than a step away from it,
\* for a light of no more steps than percents.
LEMMA BrightnessFacts ==
  ASSUME NEW b \in 0 .. 255, b * 100 >= 255, NEW n \in 1 .. 101
  PROVE  LET rank == PercentToDiscrete((b * 100) \div 255, n)
         IN  rank \in 1 .. n /\ Distance((rank - 1) * 255, b * (n - 1)) < 255
<1> DEFINE pc == (b * 100) \div 255
           above == PercentToDiscrete(pc, n) - 1
           d == n - 1
           x == pc * d
           y == b * d
<1>1. pc \in 1 .. 100 /\ 255 * pc <= 100 * b /\ 255 * pc >= 100 * b - 254
  OBVIOUS
<1>2. d \in 0 .. 100
  OBVIOUS
<1> HIDE DEF pc, d
<1>3. /\ x \in Nat /\ y \in Nat
      /\ 255 * x <= 100 * y
      /\ 255 * x >= 100 * y - 254 * d
  <2>1. x \in Nat /\ y \in Nat
    BY ONLY <1>1, <1>2, b \in 0 .. 255
  <2>2. (255 * pc) * d <= (100 * b) * d
    BY ONLY <1>1, <1>2, b \in 0 .. 255
  <2>3. (255 * pc) * d >= (100 * b - 254) * d
    BY ONLY <1>1, <1>2, b \in 0 .. 255
  <2>4. /\ (255 * pc) * d = 255 * x /\ (100 * b) * d = 100 * y
        /\ (100 * b - 254) * d = 100 * y - 254 * d
    BY ONLY <1>1, <1>2, b \in 0 .. 255
  <2> QED
    BY <2>1, <2>2, <2>3, <2>4
<1>4. /\ above \in Int /\ 100 * above >= x /\ 100 * above < x + 100
      /\ above + 1 \in 1 .. n
  <2>1. pc \in Int /\ pc > 0 /\ pc <= 100 /\ n \in Nat /\ n > 0
    BY <1>1
  <2>2. PercentToDiscrete(pc, n) \in 0 .. n /\ PercentToDiscrete(pc, n) >= 1
    BY <2>1, StepFacts
  <2>3. 100 * above >= x /\ 100 * above < x + 100
    BY <2>1, StepFacts DEF d
  <2>4. above \in Int /\ above + 1 \in 1 .. n
    BY <2>2
  <2> QED
    BY <2>3, <2>4
<1> HIDE DEF x, y, above
<1>5. above * 255 - y < 255 /\ y - above * 255 < 255
  BY ONLY <1>2, <1>3, <1>4
<1>6. Distance(above * 255, y) < 255
  <2> DEFINE z == above * 255
  <2>1. z \in Int /\ y \in Int /\ 255 \in Int
    BY ONLY <1>3, <1>4
  <2> HIDE DEF z
  <2>2. z - y < 255 /\ y - z < 255
    BY ONLY <1>5 DEF z
  <2>3. Distance(z, y) < 255
    BY <2>1, <2>2, DistanceFacts
  <2> QED
    BY ONLY <2>3 DEF z
<1>7. PercentToDiscrete(pc, n) \in 1 .. n
  <2>1. pc \in Int /\ pc > 0 /\ n \in Nat /\ n > 0
    BY <1>1
  <2>2. PercentToDiscrete(pc, n) \in 0 .. n /\ PercentToDiscrete(pc, n) >= 1
    BY <2>1, StepFacts
  <2> QED
    BY <2>2
<1> QED
  BY <1>6, <1>7 DEF above, y, d, pc

-------------------------------------------------------------------------------
(* The platform entities: what their handlers send and set.                *)

\* No more brightness steps than percents, and one for zero.
FewLevels == Cardinality(Levels) <= 101

\* How many of the light's steps are up to s.
Rank(s) == Cardinality({t \in BrightnessSteps : t <= s})

LEMMA StepsFinite ==
  /\ BrightnessSteps \in SUBSET Nat /\ IsFiniteSet(BrightnessSteps)
  /\ Cardinality(BrightnessSteps) \in Nat
  /\ Cardinality(BrightnessSteps) <= Cardinality(Levels)
<1>1. BrightnessSteps \in SUBSET Levels /\ Levels \in SUBSET Nat /\ IsFiniteSet(Levels)
  BY EntityAssumption DEF BrightnessSteps
<1> QED
  BY <1>1, FS_Subset, FS_CardinalityType

\* There is a step of every rank.
LEMMA RankExists ==
  ASSUME NEW i \in 1 .. Cardinality(BrightnessSteps)
  PROVE  \E s \in BrightnessSteps : Rank(s) = i
<1> DEFINE S == BrightnessSteps
           n == Cardinality(S)
           f == [s \in S |-> Rank(s)]
           UpTo(s) == {t \in S : t <= s}
<1>1. S \in SUBSET Nat /\ IsFiniteSet(S) /\ n \in Nat
  BY StepsFinite
<1>2. ASSUME NEW s \in S
      PROVE  Rank(s) \in 1 .. n
  <2>1. UpTo(s) \in SUBSET S /\ s \in UpTo(s)
    BY <1>1
  <2>2. IsFiniteSet(UpTo(s)) /\ Cardinality(UpTo(s)) <= n /\ Cardinality(UpTo(s)) \in Nat
    BY <1>1, <2>1, FS_Subset, FS_CardinalityType
  <2>3. Cardinality(UpTo(s)) # 0
    BY <2>1, <2>2, FS_EmptySet
  <2> QED
    BY <1>1, <2>2, <2>3 DEF Rank
<1>3. ASSUME NEW s \in S, NEW t \in S, Rank(s) = Rank(t)
      PROVE  s = t
  <2>1. ASSUME NEW x \in S, NEW y \in S, x < y
        PROVE  Rank(x) # Rank(y)
    <3>1. UpTo(x) \in SUBSET UpTo(y) /\ y \in UpTo(y) /\ y \notin UpTo(x)
      <4>1. x \in Nat /\ y \in Nat /\ \A z \in S : z \in Nat
        BY <1>1
      <4>2. \A z \in S : z <= x => z <= y
        BY ONLY <2>1, <4>1
      <4>3. y <= y /\ ~(y <= x)
        BY ONLY <2>1, <4>1
      <4> QED
        BY <4>2, <4>3
    <3>2. IsFiniteSet(UpTo(y))
      BY <1>1, FS_Subset
    <3> HIDE DEF UpTo
    <3>3. Cardinality(UpTo(y)) # Cardinality(UpTo(x))
      BY <3>1, <3>2, FS_Subset
    <3> QED
      BY <3>3 DEF UpTo, Rank
  <2>2. s \in Nat /\ t \in Nat
    BY <1>1
  <2>3. s < t \/ t < s \/ s = t
    BY <2>2
  <2> QED
    BY <1>3, <2>1, <2>3
<1>4. f \in [S -> 1 .. n]
  BY <1>2
<1>5. f \in Injection(S, 1 .. n)
  <2>1. \A a, b \in S : f[a] = f[b] => a = b
    BY <1>3
  <2> HIDE DEF f
  <2> QED
    BY <1>4, <2>1, Fun_IsInj
<1>6. IsFiniteSet(1 .. n) /\ Cardinality(1 .. n) = n
  BY <1>1, FS_Interval
<1> HIDE DEF f, n
<1>7. f \in Surjection(S, 1 .. n)
  BY <1>5, <1>6, FS_Injection DEF n
<1> QED
  BY <1>7 DEF Surjection, f, n

LEMMA StepAtFacts ==
  ASSUME NEW i \in 0 .. Cardinality(BrightnessSteps), BrightnessSteps # {}
  PROVE  /\ StepAt(i) \in BrightnessSteps
         /\ i > 0 => Rank(StepAt(i)) = i
<1> DEFINE n == Cardinality(BrightnessSteps)
           rank == IF i = 0 THEN n ELSE i
<1>1. n \in Nat /\ n # 0
  BY StepsFinite, FS_EmptySet
<1>2. rank \in 1 .. n
  BY <1>1
<1>3. StepAt(i) = CHOOSE s \in BrightnessSteps : Rank(s) = rank
  BY DEF StepAt, Rank
<1> HIDE DEF rank
<1>4. \E s \in BrightnessSteps : Rank(s) = rank
  BY <1>2, RankExists
<1>5. StepAt(i) \in BrightnessSteps /\ Rank(StepAt(i)) = rank
  BY <1>3, <1>4
<1> QED
  BY <1>5 DEF rank

\* A value v that a field f of an entity of kind kd with the commands cm may show
\* when the device is in a: the nearest percentage, a brightness less than a step
\* away, or the same.
StepsIn(cm) == {i \in Levels : <<"brightness", i>> \in cm}
RankIn(cm, s) == Cardinality({t \in StepsIn(cm) : t <= s})

AgreesIn(kd, cm, f, v, a) ==
  /\ f = "level" /\ kd = "fan" /\ v # Unknown =>
       2 * Distance(100 * (a - 1), v * (Speeds - 1)) <= Speeds - 1
  /\ f = "level" /\ kd = "light" /\ v # Unknown /\ FewLevels /\ v * 100 >= 255 =>
       Distance((RankIn(cm, a) - 1) * 255, v * (Cardinality(StepsIn(cm)) - 1)) < 255
  /\ ~(f = "level" /\ kd \in {"fan", "light"}) /\ v # Unknown => v = a

\* A handler sets fields of its kind, each to what its pulse does to the device; one
\* that sends several pulses sets nothing.
SetsOK(kd, sets) ==
  /\ DOMAIN sets \subseteq FieldsOf(kd)
  /\ \A f \in DOMAIN sets : sets[f] \in Int /\ (f = "level" /\ kd = "fan" => sets[f] <= 100)

KeyFits(kd, cm, key, sets) ==
  \A f \in DOMAIN sets \cap DOMAIN Meaning(kd, key) :
    AgreesIn(kd, cm, f, sets[f], Meaning(kd, key)[f])

SetsFit(kd, cm, keys, sets) ==
  /\ keys \in Seq(KeysOf(kd))
  /\ SetsOK(kd, sets)
  /\ keys # <<>> => KeyFits(kd, cm, Head(keys), sets)
  /\ Len(keys) > 1 => DOMAIN sets = {}

CallFits(kd, cm, j) ==
  /\ j = [at |-> j.at, keys |-> j.keys, sets |-> j.sets, crossed |-> j.crossed]
  /\ j.at # "idle" => j.keys # <<>> /\ SetsFit(kd, cm, j.keys, j.sets)

\* After a pulse the device is as the pulse says, but where a later pulse crossed it.
HeardIn(kd, j, a) ==
  j.at = "sent" =>
    \A f \in (DOMAIN Meaning(kd, Head(j.keys)) \cap FieldsOf(kd)) \ j.crossed :
      a[f] = Meaning(kd, Head(j.keys))[f]

EntityInv ==
  /\ kind \in AllKinds /\ commands \subseteq KeysOf(kind)
  /\ shown \in [FieldsOf(kind) -> Int] /\ actual \in [FieldsOf(kind) -> Int]
  /\ kind = "fan" => shown["level"] <= 100
  /\ calls = [c \in Callers |-> calls[c]]
  /\ \A c \in Callers : CallFits(kind, commands, calls[c]) /\ HeardIn(kind, calls[c], actual)
  /\ \A f \in FieldsOf(kind) \ drift : AgreesIn(kind, commands, f, shown[f], actual[f])

LEMMA NextEntityInv ==
  ASSUME EntityInv, UNCHANGED <<kind, commands>>,
         shown' \in [FieldsOf(kind) -> Int], actual' \in [FieldsOf(kind) -> Int],
         kind = "fan" => shown'["level"] <= 100,
         calls' = [c \in Callers |-> calls'[c]],
         \A c \in Callers : /\ CallFits(kind, commands, calls'[c])
                            /\ HeardIn(kind, calls'[c], actual'),
         \A f \in FieldsOf(kind) \ drift' :
           AgreesIn(kind, commands, f, shown'[f], actual'[f])
  PROVE  EntityInv'
BY DEF EntityInv

LEMMA NoCallFits ==
  ASSUME NEW kd, NEW cm, NEW a
  PROVE  CallFits(kd, cm, NoCall) /\ HeardIn(kd, NoCall, a)
BY DEF CallFits, HeardIn, NoCall

\* Changing the calls of one caller.
LEMMA OneCallChanges ==
  ASSUME EntityInv, NEW c \in Callers, NEW j, calls' = [calls EXCEPT ![c] = j]
  PROVE  /\ calls' = [d \in Callers |-> calls'[d]] /\ calls'[c] = j
         /\ \A d \in Callers \ {c} : calls'[d] = calls[d]
<1>1. calls = [d \in Callers |-> calls[d]]
  BY DEF EntityInv
<1>2. calls' = [d \in Callers |-> IF d = c THEN j ELSE calls[d]]
  BY <1>1
<1> QED
  BY ONLY <1>2, c \in Callers

\* A handler that goes on keeps what is shown in step with the device, in what it
\* sends next and in what it sets.
LEMMA ProceedKeeps ==
  ASSUME EntityInv, UNCHANGED <<kind, commands, actual>>,
         NEW c \in Callers, NEW keys, NEW sets, NEW confirmed,
         SetsFit(kind, commands, keys, sets),
         \A f \in DOMAIN sets \cap confirmed : AgreesIn(kind, commands, f, sets[f], actual[f]),
         Proceed(c, keys, sets, confirmed)
  PROVE  EntityInv'
<1> DEFINE gate == [at |-> "gate", keys |-> keys, sets |-> sets, crossed |-> {}]
<1>1. \/ /\ Show(sets, confirmed) /\ calls' = [calls EXCEPT ![c] = NoCall]
      \/ /\ keys # <<>> /\ calls' = [calls EXCEPT ![c] = gate] /\ UNCHANGED <<shown, drift>>
      \/ /\ calls' = [calls EXCEPT ![c] = NoCall] /\ UNCHANGED <<shown, drift>>
  BY DEF Proceed, Finish
<1>2. CallFits(kind, commands, NoCall) /\ HeardIn(kind, NoCall, actual')
  BY NoCallFits
<1>3. keys # <<>> => CallFits(kind, commands, gate) /\ HeardIn(kind, gate, actual')
  BY DEF CallFits, HeardIn
<1> HIDE DEF gate
<1>4. PICK j : /\ calls' = [calls EXCEPT ![c] = j]
               /\ CallFits(kind, commands, j) /\ HeardIn(kind, j, actual')
  BY <1>1, <1>2, <1>3
<1>5. /\ calls' = [d \in Callers |-> calls'[d]]
      /\ \A d \in Callers : /\ CallFits(kind, commands, calls'[d])
                            /\ HeardIn(kind, calls'[d], actual')
  BY <1>4, OneCallChanges DEF EntityInv
<1>6. /\ shown \in [FieldsOf(kind) -> Int] /\ actual' \in [FieldsOf(kind) -> Int]
      /\ kind = "fan" => shown["level"] <= 100
      /\ \A f \in FieldsOf(kind) \ drift : AgreesIn(kind, commands, f, shown[f], actual[f])
  BY DEF EntityInv
<1>7. CASE UNCHANGED <<shown, drift>>
  BY <1>5, <1>6, <1>7, NextEntityInv
<1>8. CASE Show(sets, confirmed)
  <2>1. /\ DOMAIN sets \subseteq FieldsOf(kind)
        /\ \A f \in DOMAIN sets :
             sets[f] \in Int /\ (f = "level" /\ kind = "fan" => sets[f] <= 100)
    BY DEF SetsFit, SetsOK
  <2>2. shown' = [f \in FieldsOf(kind) |-> IF f \in DOMAIN sets THEN sets[f] ELSE shown[f]]
    BY <1>6, <1>8 DEF Show, Changed
  <2>3. shown' \in [FieldsOf(kind) -> Int]
    BY ONLY <1>6, <2>1, <2>2
  <2>4. kind = "fan" => shown'["level"] <= 100
    <3>1. kind = "fan" => "level" \in FieldsOf(kind)
      BY DEF FieldsOf
    <3> QED
      BY ONLY <1>6, <2>1, <2>2, <3>1
  <2>5. drift' = (drift \cup DOMAIN sets)
                   \ {f \in DOMAIN sets : f \in confirmed \/ sets[f] = Unknown}
    BY <1>8 DEF Show
  <2>6. ASSUME NEW f \in FieldsOf(kind) \ drift'
        PROVE  AgreesIn(kind, commands, f, shown'[f], actual[f])
    <3>1. CASE f \notin DOMAIN sets
      BY <1>6, <2>2, <2>5, <2>6, <3>1
    <3>2. CASE f \in DOMAIN sets /\ f \in confirmed
      BY <2>2, <2>6, <3>2
    <3>3. CASE f \in DOMAIN sets /\ sets[f] = Unknown
      <4>1. shown'[f] = Unknown
        BY <2>2, <2>6, <3>3
      <4> QED
        BY <4>1 DEF AgreesIn
    <3> QED
      BY <2>5, <2>6, <3>1, <3>2, <3>3
  <2> QED
    BY <1>5, <1>6, <2>3, <2>4, <2>6, NextEntityInv
<1> QED
  BY <1>1, <1>7, <1>8

LEMMA BeginKeeps ==
  ASSUME EntityInv, NEW c \in Callers, NEW keys, NEW sets,
         SetsFit(kind, commands, keys, sets), Begin(c, keys, sets)
  PROVE  EntityInv'
<1>1. Proceed(c, keys, sets, {}) /\ UNCHANGED <<kind, commands, actual>>
  BY DEF Begin, Device
<1> QED
  BY <1>1, ProceedKeeps

LEMMA ReturnKeeps ==
  ASSUME EntityInv, NEW c \in Callers, Return(c)
  PROVE  EntityInv'
<1> DEFINE j == calls[c]
           key == Head(j.keys)
           confirmed == DOMAIN Meaning(kind, key) \ j.crossed
<1>1. /\ j.at = "sent" /\ Proceed(c, Tail(j.keys), j.sets, confirmed)
      /\ UNCHANGED <<kind, commands, actual>>
  BY DEF Return, Device
<1>2. j.keys # <<>> /\ SetsFit(kind, commands, j.keys, j.sets) /\ HeardIn(kind, j, actual)
  BY <1>1 DEF EntityInv, CallFits
<1>3. /\ j.keys \in Seq(KeysOf(kind)) /\ SetsOK(kind, j.sets)
      /\ KeyFits(kind, commands, key, j.sets)
      /\ Len(j.keys) > 1 => DOMAIN j.sets = {}
  BY <1>2 DEF SetsFit
<1>4. SetsFit(kind, commands, Tail(j.keys), j.sets)
  <2>1. Tail(j.keys) \in Seq(KeysOf(kind)) /\ (Tail(j.keys) # <<>> => Len(j.keys) > 1)
        /\ (Len(Tail(j.keys)) > 1 => Len(j.keys) > 1)
    BY ONLY <1>2, <1>3
  <2>2. Tail(j.keys) # <<>> => KeyFits(kind, commands, Head(Tail(j.keys)), j.sets)
    BY <1>3, <2>1 DEF KeyFits
  <2> QED
    BY <1>3, <2>1, <2>2 DEF SetsFit
<1>5. ASSUME NEW f \in DOMAIN j.sets \cap confirmed
      PROVE  AgreesIn(kind, commands, f, j.sets[f], actual[f])
  <2>1. f \in FieldsOf(kind)
    BY <1>3 DEF SetsOK
  <2>2. actual[f] = Meaning(kind, key)[f]
    BY <1>1, <1>2, <2>1 DEF HeardIn
  <2> QED
    BY <1>3, <2>2 DEF KeyFits
<1> QED
  BY <1>1, <1>4, <1>5, ProceedKeeps

\* A key is a name and a number, and what it does to the device are numbers.
LEMMA KeyFacts ==
  ASSUME NEW kd \in AllKinds, NEW key \in KeysOf(kd)
  PROVE  key = <<key[1], key[2]>> /\ key[2] \in Int
<1>1. /\ Levels \subseteq Int /\ Sources \subseteq Int /\ Modes \subseteq Int
      /\ FanModes \subseteq Int /\ 1 .. Speeds \subseteq Int
  BY EntityAssumption
<1>2. ASSUME NEW x \in Temperatures
      PROVE  Rounded(x) \in Int
  <2>1. x \in Nat /\ 2 \in Nat /\ 2 > 0
    BY EntityAssumption
  <2> QED
    BY <2>1, RoundFacts DEF Rounded
<1>3. {Rounded(x) : x \in Temperatures} \subseteq Int
  BY <1>2
<1> DEFINE IsKey(k) == k = <<k[1], k[2]>> /\ k[2] \in Int
<1>4. \A name : IsKey(K(name))
  BY DEF K
<1>5. \A name, S : S \subseteq Int => \A k \in Indexed(name, S) : IsKey(k)
  BY DEF Indexed
<1> HIDE DEF IsKey
<1>6. IsKey(key)
  BY <1>1, <1>3, <1>4, <1>5 DEF KeysOf, AllKinds
<1> QED
  BY <1>6 DEF IsKey

LEMMA MeaningFacts ==
  ASSUME NEW kd, NEW name, NEW index
  PROVE  /\ name \in {"speed", "brightness"} =>
              Meaning(kd, <<name, index>>) = [on |-> On, level |-> index]
         /\ name \in {"on", "power_on"} => Meaning(kd, <<name, index>>) = Sets("on", On)
         /\ (name = "off" /\ kd # "climate") \/ name = "power_off" =>
              Meaning(kd, <<name, index>>) = Sets("on", Off)
         /\ name \in {"open", "position_open"} => Meaning(kd, <<name, index>>) = Sets("closed", 0)
         /\ name \in {"close", "position_close"} => Meaning(kd, <<name, index>>) = Sets("closed", 1)
         /\ name = "stop" => Meaning(kd, <<name, index>>) = Sets("closed", Unknown)
         /\ name = "source" => Meaning(kd, <<name, index>>) = Sets("source", index)
         /\ name = "off" /\ kd = "climate" => Meaning(kd, <<name, index>>) = Sets("mode", Off)
         /\ name \in {"mode", "temp", "fan"} => Meaning(kd, <<name, index>>) = Sets(name, index)
         /\ name \notin {"speed", "brightness", "on", "power_on", "off", "power_off", "open",
                         "position_open", "close", "position_close", "stop", "source", "mode",
                         "temp", "fan"} => Meaning(kd, <<name, index>>) = Nothing
BY DEF Meaning

LEMMA KeyMeanings ==
  ASSUME NEW kd
  PROVE  /\ Meaning(kd, K("on")) = Sets("on", On)
         /\ Meaning(kd, K("power_on")) = Sets("on", On)
         /\ Meaning(kd, K("power_off")) = Sets("on", Off)
         /\ Meaning(kd, K("open")) = Sets("closed", 0)
         /\ Meaning(kd, K("close")) = Sets("closed", 1)
         /\ Meaning(kd, K("position_open")) = Sets("closed", 0)
         /\ Meaning(kd, K("position_close")) = Sets("closed", 1)
         /\ kd # "climate" => Meaning(kd, K("off")) = Sets("on", Off)
         /\ kd = "climate" => Meaning(kd, K("off")) = Sets("mode", Off)
         /\ \A i : Meaning(kd, <<"source", i>>) = Sets("source", i)
         /\ \A i : Meaning(kd, <<"mode", i>>) = Sets("mode", i)
         /\ \A i : Meaning(kd, <<"temp", i>>) = Sets("temp", i)
         /\ \A i : Meaning(kd, <<"fan", i>>) = Sets("fan", i)
<1>1. Meaning(kd, K("on")) = Sets("on", On)
  BY MeaningFacts DEF K
<1>2. Meaning(kd, K("power_on")) = Sets("on", On)
  BY MeaningFacts DEF K
<1>3. Meaning(kd, K("power_off")) = Sets("on", Off)
  BY MeaningFacts DEF K
<1>4. Meaning(kd, K("open")) = Sets("closed", 0)
  BY MeaningFacts DEF K
<1>5. Meaning(kd, K("close")) = Sets("closed", 1)
  BY MeaningFacts DEF K
<1>6. Meaning(kd, K("position_open")) = Sets("closed", 0)
  BY MeaningFacts DEF K
<1>7. Meaning(kd, K("position_close")) = Sets("closed", 1)
  BY MeaningFacts DEF K
<1>8. kd # "climate" => Meaning(kd, K("off")) = Sets("on", Off)
  BY MeaningFacts DEF K
<1>9. kd = "climate" => Meaning(kd, K("off")) = Sets("mode", Off)
  BY MeaningFacts, ZenonT(60) DEF K
<1>10. ASSUME NEW i
       PROVE  Meaning(kd, <<"source", i>>) = Sets("source", i)
  BY DEF Meaning
<1>11. ASSUME NEW i
       PROVE  Meaning(kd, <<"mode", i>>) = Sets("mode", i)
  BY DEF Meaning
<1>12. ASSUME NEW i
       PROVE  Meaning(kd, <<"temp", i>>) = Sets("temp", i)
  BY DEF Meaning
<1>13. ASSUME NEW i
       PROVE  Meaning(kd, <<"fan", i>>) = Sets("fan", i)
  BY DEF Meaning
<1> QED
  BY <1>1, <1>2, <1>3, <1>4, <1>5, <1>6, <1>7, <1>8, <1>9, <1>10, <1>11, <1>12, <1>13

LEMMA MeaningType ==
  ASSUME NEW kd \in AllKinds, NEW key \in KeysOf(kd)
  PROVE  \A f \in DOMAIN Meaning(kd, key) : Meaning(kd, key)[f] \in Int
<1> DEFINE M == Meaning(kd, key)
<1>1. key = <<key[1], key[2]>> /\ key[2] \in Int
  BY KeyFacts
<1>2. \/ M = [on |-> On, level |-> key[2]] \/ M = Nothing
      \/ \E field : \E v \in {On, Off, 0, 1, Unknown, key[2]} : M = Sets(field, v)
  <2>1. M = Meaning(kd, <<key[1], key[2]>>)
    BY <1>1
  <2> HIDE DEF M
  <2> QED
    BY <2>1, MeaningFacts
<1> HIDE DEF M
<1>3. On \in Int /\ Off \in Int /\ Unknown \in Int /\ 0 \in Int /\ 1 \in Int
  BY DEF On, Off, Unknown
<1>4. ASSUME NEW m, m = [on |-> On, level |-> key[2]]
      PROVE  \A f \in DOMAIN m : m[f] \in Int
  BY ONLY <1>1, <1>3, <1>4
<1>5. ASSUME NEW m, m = Nothing
      PROVE  \A f \in DOMAIN m : m[f] \in Int
  BY <1>5 DEF Nothing
<1>6. ASSUME NEW m, NEW field, NEW v \in {On, Off, 0, 1, Unknown, key[2]}, m = Sets(field, v)
      PROVE  \A f \in DOMAIN m : m[f] \in Int
  <2>1. v \in Int
    BY <1>1, <1>3
  <2> QED
    BY <1>6, <2>1 DEF Sets
<1>7. \A f \in DOMAIN M : M[f] \in Int
  BY <1>2, <1>4, <1>5, <1>6
<1> QED
  BY <1>7 DEF M

LEMMA TransmitKeeps ==
  ASSUME EntityInv, NEW c \in Callers, Transmit(c)
  PROVE  EntityInv'
<1> DEFINE j == calls[c]
           change == Meaning(kind, Head(j.keys))
<1>1. /\ j.at = "gate"
      /\ actual' = Changed(actual, change)
      /\ drift' = drift \cup DOMAIN change
      /\ calls' = [d \in Callers |->
                     IF d = c THEN [j EXCEPT !.at = "sent"]
                     ELSE IF calls[d].at = "sent"
                     THEN [calls[d] EXCEPT !.crossed = @ \cup DOMAIN change]
                     ELSE calls[d]]
      /\ UNCHANGED <<kind, commands, shown>>
  BY DEF Transmit, Device
<1>2. /\ j.keys # <<>> /\ j.keys \in Seq(KeysOf(kind)) /\ kind \in AllKinds
      /\ actual \in [FieldsOf(kind) -> Int] /\ shown \in [FieldsOf(kind) -> Int]
      /\ kind = "fan" => shown["level"] <= 100
      /\ \A f \in FieldsOf(kind) \ drift : AgreesIn(kind, commands, f, shown[f], actual[f])
  BY <1>1 DEF EntityInv, CallFits, SetsFit
<1>3. Head(j.keys) \in KeysOf(kind)
  BY ONLY <1>2
<1>4. \A f \in DOMAIN change : change[f] \in Int
  BY <1>2, <1>3, MeaningType
<1> HIDE DEF j
<1>5. actual' = [f \in FieldsOf(kind) |-> IF f \in DOMAIN change THEN change[f] ELSE actual[f]]
  BY <1>1, <1>2 DEF Changed
<1> HIDE DEF change
<1>6. actual' \in [FieldsOf(kind) -> Int]
  BY ONLY <1>2, <1>4, <1>5
<1>7. \A f \in FieldsOf(kind) \ drift' : AgreesIn(kind, commands, f, shown'[f], actual'[f])
  BY <1>1, <1>2, <1>5
<1>8. ASSUME NEW d \in Callers
      PROVE  CallFits(kind, commands, calls'[d]) /\ HeardIn(kind, calls'[d], actual')
  <2>1. CallFits(kind, commands, calls[d]) /\ HeardIn(kind, calls[d], actual)
    BY DEF EntityInv
  <2>2. calls[d] = [at |-> calls[d].at, keys |-> calls[d].keys, sets |-> calls[d].sets,
                    crossed |-> calls[d].crossed]
    BY <2>1 DEF CallFits
  <2>3. CASE d = c
    <3>1. calls'[d] = [calls[d] EXCEPT !.at = "sent"] /\ calls[d].at = "gate"
      BY <1>1, <2>3 DEF j
    <3>2. calls'[d] = [at |-> "sent", keys |-> calls[d].keys, sets |-> calls[d].sets,
                       crossed |-> calls[d].crossed]
      BY ONLY <2>2, <3>1
    <3>3. CallFits(kind, commands, calls'[d])
      BY <2>1, <3>1, <3>2 DEF CallFits
    <3>4. Meaning(kind, Head(calls'[d].keys)) = change
      BY <2>3, <3>2 DEF change, j
    <3>5. HeardIn(kind, calls'[d], actual')
      BY <1>5, <3>4 DEF HeardIn
    <3> QED
      BY <3>3, <3>5
  <2>4. CASE d # c /\ calls[d].at = "sent"
    <3>1. calls'[d] = [calls[d] EXCEPT !.crossed = calls[d].crossed \cup DOMAIN change]
      BY <1>1, <2>4
    <3>2. calls'[d] = [at |-> calls[d].at, keys |-> calls[d].keys, sets |-> calls[d].sets,
                       crossed |-> calls[d].crossed \cup DOMAIN change]
      BY ONLY <2>2, <3>1
    <3>3. CallFits(kind, commands, calls'[d])
      BY <2>1, <3>2 DEF CallFits
    <3>4. HeardIn(kind, calls'[d], actual')
      BY <1>5, <2>1, <2>4, <3>2 DEF HeardIn
    <3> QED
      BY <3>3, <3>4
  <2>5. CASE d # c /\ calls[d].at # "sent"
    <3>1. calls'[d] = calls[d]
      BY <1>1, <2>5
    <3> QED
      BY <2>1, <2>5, <3>1 DEF HeardIn
  <2> QED
    BY <2>3, <2>4, <2>5
<1>9. calls' = [d \in Callers |-> calls'[d]]
  BY <1>1
<1> QED
  BY <1>1, <1>2, <1>6, <1>7, <1>8, <1>9, NextEntityInv

\* A handler that gives up shows nothing new.
LEMMA GivesUpKeeps ==
  ASSUME EntityInv, NEW c \in Callers, Finish(c),
         UNCHANGED <<kind, commands, shown, actual, drift>>
  PROVE  EntityInv'
<1>1. CallFits(kind, commands, NoCall) /\ HeardIn(kind, NoCall, actual')
  BY NoCallFits
<1>2. /\ calls' = [d \in Callers |-> calls'[d]]
      /\ \A d \in Callers : /\ CallFits(kind, commands, calls'[d])
                            /\ HeardIn(kind, calls'[d], actual')
  BY <1>1, OneCallChanges DEF EntityInv, Finish
<1> QED
  BY <1>2, NextEntityInv DEF EntityInv

-------------------------------------------------------------------------------
(* The platform entities: their handlers.                                  *)

LEMMA NothingFits ==
  ASSUME NEW kd, NEW cm, NEW keys \in Seq(KeysOf(kd))
  PROVE  SetsFit(kd, cm, keys, Nothing)
BY DEF SetsFit, SetsOK, KeyFits, Nothing

LEMMA OneKeyFits ==
  ASSUME NEW kd, NEW cm, NEW key \in KeysOf(kd), NEW sets,
         SetsOK(kd, sets), KeyFits(kd, cm, key, sets)
  PROVE  SetsFit(kd, cm, <<key>>, sets) /\ SetsFit(kd, cm, <<>>, sets)
BY DEF SetsFit

\* One field is set to what the key does to it.
LEMMA SameFits ==
  ASSUME NEW kd, NEW cm, NEW key \in KeysOf(kd), NEW field \in FieldsOf(kd) \ {"level"},
         NEW v \in Int, Meaning(kd, key) = Sets(field, v)
  PROVE  /\ SetsFit(kd, cm, <<key>>, Sets(field, v))
         /\ SetsFit(kd, cm, <<>>, Sets(field, v))
<1>1. SetsOK(kd, Sets(field, v))
  BY DEF SetsOK, Sets
<1>2. KeyFits(kd, cm, key, Sets(field, v))
  BY DEF KeyFits, AgreesIn, Sets
<1> QED
  BY <1>1, <1>2, OneKeyFits

LEMMA ValuesAreNumbers ==
  /\ On \in Int /\ Off \in Int /\ Unknown \in Int /\ 0 \in Int /\ 1 \in Int
  /\ Levels \subseteq Int /\ Sources \subseteq Int /\ Modes \subseteq Int
  /\ FanModes \subseteq Int
BY EntityAssumption DEF On, Off, Unknown

\* A fan shows the percentage nearest to the step it was sent.
LEMMA StepFits ==
  ASSUME kind = "fan", NEW step \in Nat, step >= 1, step <= Speeds, NEW p
  PROVE  /\ <<"speed", step>> \in KeysOf(kind)
         /\ SetsFit(kind, commands, <<<<"speed", step>>>>, ShowsStep(step, p))
         /\ SetsFit(kind, commands, <<>>, ShowsStep(step, p))
<1> DEFINE percent == DiscreteToPercent(step, Speeds)
           sets == [on |-> On, level |-> percent]
           key == <<"speed", step>>
<1>1. /\ percent \in Int /\ percent <= 100
      /\ 2 * Distance(100 * (step - 1), percent * (Speeds - 1)) <= Speeds - 1
  <2>1. Speeds \in Nat
    BY EntityAssumption
  <2>2. /\ percent \in 0 .. 100
        /\ 2 * Distance(100 * (step - 1), percent * (Speeds - 1)) <= Speeds - 1
    BY <2>1, PercentFacts
  <2> QED
    BY <2>2
<1>2. key \in KeysOf(kind)
  BY EntityAssumption DEF KeysOf, Indexed
<1>3. Meaning(kind, key) = [on |-> On, level |-> step]
  BY MeaningFacts
<1>4. ShowsStep(step, p) = sets
  BY DEF ShowsStep
<1> HIDE DEF percent, key
<1>5. SetsOK(kind, sets)
  BY <1>1, ValuesAreNumbers DEF SetsOK, FieldsOf
<1>6. KeyFits(kind, commands, key, sets)
  <2>1. AgreesIn(kind, commands, "level", percent, step)
    BY <1>1 DEF AgreesIn
  <2>2. AgreesIn(kind, commands, "on", On, On)
    BY DEF AgreesIn
  <2> QED
    BY <1>3, <2>1, <2>2 DEF KeyFits
<1> QED
  BY <1>2, <1>4, <1>5, <1>6, OneKeyFits DEF key

LEMMA FanKeeps ==
  ASSUME EntityInv, NEW c \in Callers, FanTurnOn(c) \/ FanTurnOff(c) \/ FanSetPercentage(c)
  PROVE  EntityInv'
<1>1. kind = "fan" /\ shown["level"] \in Int
  BY DEF FanTurnOn, FanTurnOff, FanSetPercentage, EntityInv, FieldsOf
<1>2. Speeds \in Nat /\ Speeds > 0
  BY EntityAssumption
<1>3. ASSUME FanSetPercentage(c)
      PROVE  EntityInv'
  <2>1. PICK p \in Percentages \ {0} :
          LET step == PercentToDiscrete(p, Speeds)
          IN  Begin(c, IfLearned(<<"speed", step>>), ShowsStep(step, p))
    BY <1>3 DEF FanSetPercentage
  <2> DEFINE step == PercentToDiscrete(p, Speeds)
  <2>2. p \in Int /\ p > 0
    BY EntityAssumption
  <2>3. step \in Nat /\ step >= 1 /\ step <= Speeds
    <3>1. step \in 0 .. Speeds /\ step >= 1
      BY <1>2, <2>2, StepFacts
    <3> QED
      BY <3>1
  <2>4. Begin(c, IfLearned(<<"speed", step>>), ShowsStep(step, p))
    BY <2>1
  <2> HIDE DEF step
  <2> QED
    BY <1>1, <2>3, <2>4, StepFits, BeginKeeps DEF IfLearned
<1>4. ASSUME FanTurnOn(c)
      PROVE  EntityInv'
  <2>1. CASE K("on") \in commands
    <3>1. Begin(c, <<K("on")>>, ShowsStep(1, 0))
      BY <1>4, <2>1 DEF FanTurnOn
    <3>2. Meaning(kind, K("on")) = Sets("on", On) /\ K("on") \in KeysOf(kind)
      BY <1>1, MeaningFacts, ZenonT(60) DEF K, KeysOf
    <3>3. SetsOK(kind, ShowsStep(1, 0)) /\ ShowsStep(1, 0)["on"] = On
      <4>1. 1 \in Nat /\ 1 >= 1 /\ 1 <= Speeds
        BY <1>2
      <4>2. SetsFit(kind, commands, <<>>, ShowsStep(1, 0))
        BY <1>1, <4>1, StepFits
      <4> QED
        BY <4>2 DEF SetsFit, ShowsStep
    <3>4. KeyFits(kind, commands, K("on"), ShowsStep(1, 0))
      BY <3>2, <3>3 DEF KeyFits, Sets, AgreesIn
    <3> QED
      BY <3>1, <3>2, <3>3, <3>4, OneKeyFits, BeginKeeps
  <2>2. CASE K("on") \notin commands
    <3>1. Begin(c, IfLearned(<<"speed", ResumedStep>>), ShowsStep(ResumedStep, shown["level"]))
      BY <1>4, <2>2 DEF FanTurnOn
    <3>2. ResumedStep \in Nat /\ ResumedStep >= 1 /\ ResumedStep <= Speeds
      <4> DEFINE step == PercentToDiscrete(shown["level"], Speeds)
      <4>1. step \in 0 .. Speeds
        BY <1>1, <1>2, StepFacts
      <4>2. ResumedStep = IF step = 0 THEN 1 ELSE step
        BY DEF ResumedStep
      <4> HIDE DEF step
      <4> QED
        BY <1>2, <4>1, <4>2
    <3> QED
      BY <1>1, <3>1, <3>2, StepFits, BeginKeeps DEF IfLearned
  <2> QED
    BY <2>1, <2>2
<1>5. ASSUME FanTurnOff(c)
      PROVE  EntityInv'
  <2> DEFINE sets == [on |-> Off, level |-> 0]
  <2>1. Begin(c, IfLearned(K("off")), sets)
    BY <1>5 DEF FanTurnOff
  <2>2. Meaning(kind, K("off")) = Sets("on", Off) /\ K("off") \in KeysOf(kind)
    BY <1>1, MeaningFacts, ZenonT(60) DEF K, KeysOf
  <2>3. SetsOK(kind, sets)
    BY <1>1, ValuesAreNumbers DEF SetsOK, FieldsOf
  <2>4. KeyFits(kind, commands, K("off"), sets)
    BY <2>2 DEF KeyFits, Sets, AgreesIn
  <2> HIDE DEF sets
  <2> QED
    BY <2>1, <2>2, <2>3, <2>4, OneKeyFits, BeginKeeps DEF IfLearned
<1> QED
  BY <1>3, <1>4, <1>5

\* A light shows a brightness less than a step away from the one it was sent.
LEMMA BrightnessFits ==
  ASSUME kind = "light", BrightnessSteps # {}, NEW b \in 0 .. 255
  PROVE  SetsFit(kind, commands, <<BrightnessKey(b)>>, [on |-> On, level |-> b])
<1> DEFINE n == Cardinality(BrightnessSteps)
           rank == PercentToDiscrete((b * 100) \div 255, n)
           step == StepAt(rank)
           sets == [on |-> On, level |-> b]
<1>1. n \in Nat /\ n > 0 /\ n <= Cardinality(Levels)
  BY StepsFinite, FS_EmptySet
<1>2. (b * 100) \div 255 \in Int
  OBVIOUS
<1>3. rank \in 0 .. n
  BY <1>1, <1>2, StepFacts
<1>4. step \in BrightnessSteps /\ (rank > 0 => Rank(step) = rank)
  BY <1>3, StepAtFacts
<1>5. BrightnessKey(b) = <<"brightness", step>>
  BY DEF BrightnessKey
<1>6. step \in Levels
  BY <1>4 DEF BrightnessSteps
<1>7. FewLevels /\ b * 100 >= 255 => /\ rank > 0
                                     /\ Distance((rank - 1) * 255, b * (n - 1)) < 255
  <2>1. ASSUME FewLevels, b * 100 >= 255
        PROVE  rank \in 1 .. n /\ Distance((rank - 1) * 255, b * (n - 1)) < 255
    <3>1. n \in 1 .. 101
      <4>1. Cardinality(Levels) \in Nat
        BY EntityAssumption, FS_CardinalityType
      <4> QED
        BY <1>1, <2>1, <4>1 DEF FewLevels
    <3> QED
      BY <2>1, <3>1, BrightnessFacts
  <2> QED
    BY <2>1
<1>8. BrightnessSteps = StepsIn(commands) /\ \A s : Rank(s) = RankIn(commands, s)
  BY DEF BrightnessSteps, StepsIn, Rank, RankIn
<1> HIDE DEF rank, step, n
<1>9. AgreesIn(kind, commands, "level", b, step)
  <2>1. FewLevels /\ b * 100 >= 255 => RankIn(commands, step) = rank
    BY <1>4, <1>7, <1>8
  <2>2. n = Cardinality(StepsIn(commands))
    BY <1>8 DEF n
  <2> QED
    BY <1>7, <2>1, <2>2 DEF AgreesIn
<1>10. AgreesIn(kind, commands, "on", On, On)
  BY DEF AgreesIn
<1>11. Meaning(kind, <<"brightness", step>>) = [on |-> On, level |-> step]
  BY MeaningFacts
<1>12. KeyFits(kind, commands, <<"brightness", step>>, sets)
  BY <1>9, <1>10, <1>11 DEF KeyFits
<1>13. SetsOK(kind, sets)
  BY ValuesAreNumbers DEF SetsOK, FieldsOf
<1>14. <<"brightness", step>> \in KeysOf(kind)
  BY <1>6 DEF KeysOf, Indexed
<1> QED
  BY <1>5, <1>12, <1>13, <1>14, OneKeyFits

LEMMA LightKeeps ==
  ASSUME EntityInv, NEW c \in Callers, LightSetBrightness(c) \/ LightTurnOn(c) \/ LightTurnOff(c)
  PROVE  EntityInv'
<1>1. kind = "light"
  BY DEF LightSetBrightness, LightTurnOn, LightTurnOff
<1>2. K("on") \in KeysOf(kind) /\ K("off") \in KeysOf(kind) /\ FieldsOf(kind) = {"on", "level"}
  BY <1>1 DEF KeysOf, FieldsOf
<1>3. ASSUME LightSetBrightness(c)
      PROVE  EntityInv'
  <2>1. PICK b \in Brightnesses : /\ BrightnessSteps # {}
                                  /\ Begin(c, <<BrightnessKey(b)>>, [on |-> On, level |-> b])
    BY <1>3 DEF LightSetBrightness
  <2>2. b \in 0 .. 255
    BY EntityAssumption
  <2> QED
    BY <1>1, <2>1, <2>2, BrightnessFits, BeginKeeps
<1>4. ASSUME LightTurnOn(c)
      PROVE  EntityInv'
  <2>1. \/ Begin(c, <<K("on")>>, Sets("on", On))
        \/ /\ BrightnessSteps # {}
           /\ Begin(c, <<BrightnessKey(255)>>, [on |-> On, level |-> 255])
        \/ Begin(c, <<>>, Nothing)
    BY <1>4 DEF LightTurnOn
  <2>2. CASE Begin(c, <<K("on")>>, Sets("on", On))
    <3>1. Meaning(kind, K("on")) = Sets("on", On)
      BY MeaningFacts DEF K
    <3> QED
      BY <1>2, <2>2, <3>1, SameFits, ValuesAreNumbers, BeginKeeps
  <2>3. CASE BrightnessSteps # {} /\ Begin(c, <<BrightnessKey(255)>>, [on |-> On, level |-> 255])
    <3>1. 255 \in 0 .. 255
      OBVIOUS
    <3> QED
      BY <1>1, <2>3, <3>1, BrightnessFits, BeginKeeps
  <2>4. CASE Begin(c, <<>>, Nothing)
    <3>1. <<>> \in Seq(KeysOf(kind))
      OBVIOUS
    <3> QED
      BY <2>4, <3>1, NothingFits, BeginKeeps
  <2> QED
    BY <2>1, <2>2, <2>3, <2>4
<1>5. ASSUME LightTurnOff(c)
      PROVE  EntityInv'
  <2> DEFINE sets == [on |-> Off, level |-> Unknown]
  <2>1. Begin(c, IfLearned(K("off")), sets)
    BY <1>5 DEF LightTurnOff
  <2>2. Meaning(kind, K("off")) = Sets("on", Off)
    BY <1>1, MeaningFacts, ZenonT(60) DEF K
  <2>3. SetsOK(kind, sets)
    BY <1>1, <1>2, ValuesAreNumbers DEF SetsOK
  <2>4. KeyFits(kind, commands, K("off"), sets)
    BY <2>2 DEF KeyFits, Sets, AgreesIn
  <2> HIDE DEF sets
  <2> QED
    BY <1>2, <2>1, <2>2, <2>3, <2>4, OneKeyFits, BeginKeeps DEF IfLearned
<1> QED
  BY <1>3, <1>4, <1>5

\* A handler of one key that sets one field to what the key does to it.
LEMMA SameKeeps ==
  ASSUME EntityInv, NEW c \in Callers, NEW key \in KeysOf(kind),
         NEW field \in FieldsOf(kind) \ {"level"}, NEW v \in Int,
         Meaning(kind, key) = Sets(field, v),
         \/ Begin(c, IfLearned(key), Sets(field, v))
         \/ BeginLearned(c, key, Sets(field, v))
  PROVE  EntityInv'
<1>1. \/ Begin(c, <<key>>, Sets(field, v)) \/ Begin(c, <<>>, Sets(field, v))
      \/ Begin(c, <<>>, Nothing)
  BY DEF IfLearned, BeginLearned
<1>2. <<>> \in Seq(KeysOf(kind))
  OBVIOUS
<1>3. SetsFit(kind, commands, <<>>, Nothing)
  BY <1>2, NothingFits
<1>4. /\ SetsFit(kind, commands, <<key>>, Sets(field, v))
      /\ SetsFit(kind, commands, <<>>, Sets(field, v))
  BY SameFits
<1> QED
  BY <1>1, <1>3, <1>4, BeginKeeps

\* A handler that sets nothing.
LEMMA SilentKeeps ==
  ASSUME EntityInv, NEW c \in Callers, NEW keys \in Seq(KeysOf(kind)), Begin(c, keys, Nothing)
  PROVE  EntityInv'
BY NothingFits, BeginKeeps

LEMMA IfLearnedType ==
  ASSUME NEW key \in KeysOf(kind)
  PROVE  IfLearned(key) \in Seq(KeysOf(kind)) /\ <<key>> \in Seq(KeysOf(kind))
BY DEF IfLearned

LEMMA SwitchKeeps ==
  ASSUME EntityInv, NEW c \in Callers, SwitchTurn(c)
  PROVE  EntityInv'
<1>1. kind = "switch"
  BY DEF SwitchTurn
<1>2. /\ K("on") \in KeysOf(kind) /\ K("off") \in KeysOf(kind) /\ "on" \in FieldsOf(kind)
  BY <1>1 DEF KeysOf, FieldsOf
<1>3. BeginLearned(c, K("on"), Sets("on", On)) \/ BeginLearned(c, K("off"), Sets("on", Off))
  BY DEF SwitchTurn
<1>4. Meaning(kind, K("on")) = Sets("on", On) /\ Meaning(kind, K("off")) = Sets("on", Off)
  BY <1>1, KeyMeanings
<1> QED
  BY <1>2, <1>3, <1>4, SameKeeps, ValuesAreNumbers

LEMMA CoverKeeps ==
  ASSUME EntityInv, NEW c \in Callers, CoverMove(c) \/ CoverStop(c) \/ CoverSetPosition(c)
  PROVE  EntityInv'
<1>1. kind = "cover"
  BY DEF CoverMove, CoverStop, CoverSetPosition
<1>2. /\ K("open") \in KeysOf(kind) /\ K("close") \in KeysOf(kind) /\ K("stop") \in KeysOf(kind)
      /\ K("position_open") \in KeysOf(kind) /\ K("position_close") \in KeysOf(kind)
      /\ "closed" \in FieldsOf(kind)
  BY <1>1 DEF KeysOf, FieldsOf
<1>3. /\ Meaning(kind, K("open")) = Sets("closed", 0)
      /\ Meaning(kind, K("close")) = Sets("closed", 1)
      /\ Meaning(kind, K("position_open")) = Sets("closed", 0)
      /\ Meaning(kind, K("position_close")) = Sets("closed", 1)
  BY KeyMeanings
<1>4. \/ Begin(c, IfLearned(K("open")), Sets("closed", 0))
      \/ Begin(c, IfLearned(K("close")), Sets("closed", 1))
      \/ Begin(c, IfLearned(K("stop")), Nothing)
      \/ BeginLearned(c, K("position_open"), Sets("closed", 0))
      \/ BeginLearned(c, K("position_close"), Sets("closed", 1))
  BY DEF CoverMove, CoverStop, CoverSetPosition
<1>5. CASE Begin(c, IfLearned(K("stop")), Nothing)
  BY <1>2, <1>5, IfLearnedType, SilentKeeps
<1> QED
  BY <1>2, <1>3, <1>4, <1>5, SameKeeps, ValuesAreNumbers

LEMMA MediaKeeps ==
  ASSUME EntityInv, NEW c \in Callers, MediaTurn(c) \/ MediaPress(c) \/ MediaSelectSource(c)
  PROVE  EntityInv'
<1>1. kind = "media_player"
  BY DEF MediaTurn, MediaPress, MediaSelectSource
<1>2. /\ K("power_on") \in KeysOf(kind) /\ K("power_off") \in KeysOf(kind)
      /\ K("mute") \in KeysOf(kind) /\ K("volume_up") \in KeysOf(kind)
      /\ \A s \in Sources : <<"source", s>> \in KeysOf(kind)
      /\ "on" \in FieldsOf(kind) /\ "source" \in FieldsOf(kind)
  BY <1>1 DEF KeysOf, FieldsOf, Indexed
<1>3. /\ Meaning(kind, K("power_on")) = Sets("on", On)
      /\ Meaning(kind, K("power_off")) = Sets("on", Off)
      /\ \A s \in Sources : Meaning(kind, <<"source", s>>) = Sets("source", s)
  BY KeyMeanings
<1>4. \/ Begin(c, IfLearned(K("power_on")), Sets("on", On))
      \/ Begin(c, IfLearned(K("power_off")), Sets("on", Off))
      \/ Begin(c, IfLearned(K("mute")), Nothing)
      \/ Begin(c, <<K("volume_up")>>, Nothing)
      \/ \E s \in Sources : BeginLearned(c, <<"source", s>>, Sets("source", s))
  BY DEF MediaTurn, MediaPress, MediaSelectSource
<1>5. CASE Begin(c, IfLearned(K("mute")), Nothing) \/ Begin(c, <<K("volume_up")>>, Nothing)
  BY <1>2, <1>5, IfLearnedType, SilentKeeps
<1>6. ASSUME NEW s \in Sources, BeginLearned(c, <<"source", s>>, Sets("source", s))
      PROVE  EntityInv'
  <2>1. s \in Int
    BY ValuesAreNumbers
  <2> QED
    BY <1>2, <1>3, <1>6, <2>1, SameKeeps
<1> QED
  BY <1>2, <1>3, <1>4, <1>5, <1>6, SameKeeps, ValuesAreNumbers

LEMMA ClimateKeeps ==
  ASSUME EntityInv, NEW c \in Callers,
         ClimateSetMode(c) \/ ClimateSetTemperature(c) \/ ClimateSetFanMode(c)
  PROVE  EntityInv'
<1>1. kind = "climate"
  BY DEF ClimateSetMode, ClimateSetTemperature, ClimateSetFanMode
<1>2. /\ K("off") \in KeysOf(kind)
      /\ \A m \in Modes : <<"mode", m>> \in KeysOf(kind)
      /\ \A x \in Temperatures : <<"temp", Rounded(x)>> \in KeysOf(kind)
      /\ \A m \in FanModes : <<"fan", m>> \in KeysOf(kind)
      /\ {"mode", "temp", "fan"} \subseteq FieldsOf(kind)
  BY <1>1 DEF KeysOf, FieldsOf, Indexed
<1>3. /\ Meaning(kind, K("off")) = Sets("mode", Off)
      /\ \A i : /\ Meaning(kind, <<"mode", i>>) = Sets("mode", i)
                /\ Meaning(kind, <<"temp", i>>) = Sets("temp", i)
                /\ Meaning(kind, <<"fan", i>>) = Sets("fan", i)
  BY <1>1, KeyMeanings
<1>4. \/ \E m \in Modes : BeginLearned(c, <<"mode", m>>, Sets("mode", m))
      \/ BeginLearned(c, K("off"), Sets("mode", Off))
      \/ \E x \in Temperatures : BeginLearned(c, <<"temp", Rounded(x)>>, Sets("temp", Rounded(x)))
      \/ \E m \in FanModes : BeginLearned(c, <<"fan", m>>, Sets("fan", m))
  BY DEF ClimateSetMode, ClimateSetTemperature, ClimateSetFanMode
<1>5. ASSUME NEW field \in {"mode", "temp", "fan"}, NEW i \in Int,
             <<field, i>> \in KeysOf(kind), BeginLearned(c, <<field, i>>, Sets(field, i))
      PROVE  EntityInv'
  <2>1. Meaning(kind, <<field, i>>) = Sets(field, i) /\ field \in FieldsOf(kind) \ {"level"}
    BY <1>2, <1>3
  <2> QED
    BY <1>5, <2>1, SameKeeps
<1>6. \A x \in Temperatures : Rounded(x) \in Int
  <2>1. ASSUME NEW x \in Temperatures
        PROVE  Rounded(x) \in Int
    <3>1. x \in Nat /\ 2 \in Nat /\ 2 > 0
      BY EntityAssumption
    <3> QED
      BY <3>1, RoundFacts DEF Rounded
  <2> QED
    BY <2>1
<1>7. CASE BeginLearned(c, K("off"), Sets("mode", Off))
  BY <1>2, <1>3, <1>7, SameKeeps, ValuesAreNumbers
<1>8. Modes \subseteq Int /\ FanModes \subseteq Int
  BY ValuesAreNumbers
<1> QED
  BY <1>2, <1>4, <1>5, <1>6, <1>7, <1>8

LEMMA RemoteKeeps ==
  ASSUME EntityInv, NEW c \in Callers, RemoteSend(c)
  PROVE  EntityInv'
<1>1. kind = "remote"
  BY DEF RemoteSend
<1>2. K("first") \in KeysOf(kind) /\ K("second") \in KeysOf(kind)
  BY <1>1 DEF KeysOf
<1>3. IfLearned(K("first")) \in Seq(KeysOf(kind)) /\ IfLearned(K("second")) \in Seq(KeysOf(kind))
  BY <1>2, IfLearnedType
<1>4. /\ IfLearned(K("first")) \o IfLearned(K("second")) \in Seq(KeysOf(kind))
      /\ IfLearned(K("second")) \o IfLearned(K("first")) \in Seq(KeysOf(kind))
  BY ONLY <1>3
<1> QED
  BY <1>3, <1>4, SilentKeeps DEF RemoteSend

LEMMA PastEntityKeeps ==
  ASSUME EntityInv, NEW c \in Callers,
         PressButton(c) \/ ServiceSends(c) \/ Dispatch(c) \/ TestCommand(c)
  PROVE  EntityInv'
<1>1. ASSUME PressButton(c) \/ ServiceSends(c) \/ Dispatch(c)
      PROVE  EntityInv'
  <2>1. PICK key \in KeysOf(kind) :
          Begin(c, <<key>>, Nothing) \/ Begin(c, IfLearned(key), Nothing)
    BY <1>1 DEF PressButton, ServiceSends, Dispatch, EntityInv
  <2> QED
    BY <2>1, IfLearnedType, SilentKeeps
<1>2. ASSUME TestCommand(c)
      PROVE  EntityInv'
  <2> DEFINE Gate(key) == [at |-> "gate", keys |-> <<key>>, sets |-> Nothing, crossed |-> {}]
  <2>1. PICK key \in KeysOf(kind) : calls' = calls \/ calls' = [calls EXCEPT ![c] = Gate(key)]
    BY <1>2 DEF TestCommand
  <2>2. UNCHANGED <<kind, commands, shown, actual, drift>>
    BY <1>2 DEF TestCommand, Device
  <2>3. SetsFit(kind, commands, <<key>>, Nothing) /\ <<key>> # <<>>
    BY IfLearnedType, NothingFits
  <2>4. CallFits(kind, commands, Gate(key)) /\ HeardIn(kind, Gate(key), actual')
    BY <2>3 DEF CallFits, HeardIn
  <2> HIDE DEF Gate
  <2>5. /\ calls' = [d \in Callers |-> calls'[d]]
        /\ \A d \in Callers : /\ CallFits(kind, commands, calls'[d])
                              /\ HeardIn(kind, calls'[d], actual')
    <3>1. CASE calls' = calls
      BY <2>2, <3>1 DEF EntityInv
    <3>2. CASE calls' = [calls EXCEPT ![c] = Gate(key)]
      BY <2>2, <2>4, <3>2, OneCallChanges DEF EntityInv
    <3> QED
      BY <2>1, <3>1, <3>2
  <2> QED
    BY <2>2, <2>5, NextEntityInv DEF EntityInv
<1> QED
  BY <1>1, <1>2

LEMMA EntityStep ==
  ASSUME EntityInv, [Next]_vars
  PROVE  EntityInv'
<1>1. ASSUME NEW c \in Callers, Handle(c)
      PROVE  EntityInv'
  BY <1>1, FanKeeps, LightKeeps, SwitchKeeps, CoverKeeps, MediaKeeps, ClimateKeeps, RemoteKeeps,
     PastEntityKeeps DEF Handle
<1>2. ASSUME NEW c \in Callers, GateRaises(c) \/ SendFails(c)
      PROVE  EntityInv'
  BY <1>2, GivesUpKeeps DEF GateRaises, SendFails, Device
<1>3. ASSUME Flip \/ UNCHANGED vars
      PROVE  EntityInv'
  <2>1. UNCHANGED <<kind, commands, shown, actual, calls, drift>>
    BY <1>3 DEF Flip, vars, Device
  <2> QED
    BY <2>1, NextEntityInv DEF EntityInv
<1> QED
  BY <1>1, <1>2, <1>3, TransmitKeeps, ReturnKeeps DEF Next, Step

LEMMA EntityInit ==
  ASSUME Init
  PROVE  EntityInv
<1>1. /\ kind \in AllKinds /\ commands \subseteq KeysOf(kind)
      /\ shown = Blank(kind) /\ actual = [f \in FieldsOf(kind) |-> Unknown]
      /\ calls = [c \in Callers |-> NoCall]
      /\ drift = {f \in FieldsOf(kind) : shown[f] # Unknown}
  BY EntityAssumption DEF Init
<1>2. Off \in Int /\ Unknown \in Int /\ Unknown <= 100
  BY DEF Off, Unknown
<1>3. shown \in [FieldsOf(kind) -> Int] /\ actual \in [FieldsOf(kind) -> Int]
  BY <1>1, <1>2 DEF Blank
<1>4. kind = "fan" => shown["level"] <= 100
  BY <1>1, <1>2 DEF Blank, FieldsOf
<1>5. \A f \in FieldsOf(kind) \ drift : AgreesIn(kind, commands, f, shown[f], actual[f])
  BY <1>1 DEF AgreesIn
<1>6. \A c \in Callers : /\ CallFits(kind, commands, calls[c])
                         /\ HeardIn(kind, calls[c], actual)
  BY <1>1, NoCallFits
<1> QED
  BY <1>1, <1>3, <1>4, <1>5, <1>6 DEF EntityInv

LEMMA AgreesFacts ==
  ASSUME EntityInv, FewLevels
  PROVE  ShownIsHeard
<1>1. ASSUME NEW f \in FieldsOf(kind) \ drift
      PROVE  Agrees(f)
  <2>1. AgreesIn(kind, commands, f, shown[f], actual[f])
    BY DEF EntityInv
  <2>2. CASE shown[f] = Unknown
    BY <2>2 DEF Agrees
  <2>3. CASE shown[f] # Unknown /\ f = "level" /\ kind = "fan"
    BY <2>1, <2>3 DEF Agrees, AgreesIn, FanAgrees
  <2>4. CASE shown[f] # Unknown /\ f = "level" /\ kind = "light"
    <3>1. LightAgrees
      BY <2>1, <2>4 DEF AgreesIn, LightAgrees, BrightnessSteps, StepsIn, RankIn
    <3> QED
      BY <2>4, <3>1 DEF Agrees
  <2>5. CASE shown[f] # Unknown /\ ~(f = "level" /\ kind \in {"fan", "light"})
    BY <2>1, <2>5 DEF Agrees, AgreesIn
  <2> QED
    BY <2>2, <2>3, <2>4, <2>5
<1> QED
  BY <1>1 DEF ShownIsHeard

\* An entity shows what its device is in, in every field that it last sent and set
\* with no other pulse in between.
THEOREM AssumedStateIsHeard == ASSUME FewLevels PROVE Spec => []ShownIsHeard
<1>1. EntityInv /\ [Next]_vars => EntityInv'
  BY EntityStep
<1>2. EntityInv => ShownIsHeard
  BY AgreesFacts
<1> QED
  BY <1>1, <1>2, EntityInit, PTL DEF Spec

\* A fan turned on again resumes the step it runs at, or the next one exactly where the
\* percentage was rounded up, for up to 200 speeds.
THEOREM FanResumes == ASSUME Speeds <= 200 PROVE Spec => []ResumesItsSpeed
<1>1. EntityInv /\ [Next]_vars => EntityInv'
  BY EntityStep
<1>2. ASSUME EntityInv
      PROVE  ResumesItsSpeed
  <2>1. SUFFICES ASSUME kind = "fan", "level" \notin drift, shown["level"] > 0
                 PROVE  PercentToDiscrete(shown["level"], Speeds) =
                          IF ShownRoundedUp THEN actual["level"] + 1 ELSE actual["level"]
    BY DEF ResumesItsSpeed
  <2>2. /\ shown["level"] \in Int /\ shown["level"] <= 100 /\ actual["level"] \in Int
        /\ AgreesIn(kind, commands, "level", shown["level"], actual["level"])
    BY <1>2, <2>1 DEF EntityInv, FieldsOf
  <2>3. shown["level"] \in 1 .. 100 /\ Speeds \in 1 .. 200
    BY <2>1, <2>2, EntityAssumption
  <2>4. 2 * Distance(100 * (actual["level"] - 1), shown["level"] * (Speeds - 1)) <= Speeds - 1
    BY <2>1, <2>2, <2>3 DEF AgreesIn, Unknown
  <2>5. PercentToDiscrete(shown["level"], Speeds) =
          IF shown["level"] * (Speeds - 1) > 100 * (actual["level"] - 1)
          THEN actual["level"] + 1 ELSE actual["level"]
    <3> DEFINE percent == shown["level"]
               step == actual["level"]
    <3>1. /\ percent \in 1 .. 100 /\ step \in Int /\ Speeds \in 1 .. 200
          /\ 2 * Distance(100 * (step - 1), percent * (Speeds - 1)) <= Speeds - 1
      BY <2>2, <2>3, <2>4
    <3> HIDE DEF percent, step
    <3>2. 2 * Distance(100 * (step - 1), percent * (Speeds - 1)) <= Speeds - 1 =>
            PercentToDiscrete(percent, Speeds) =
              IF percent * (Speeds - 1) > 100 * (step - 1) THEN step + 1 ELSE step
      BY <3>1, ResumedFacts, ZenonT(60)
    <3> QED
      BY <3>1, <3>2 DEF percent, step
  <2> QED
    BY <2>5, Zenon DEF ShownRoundedUp
<1> QED
  BY <1>1, <1>2, EntityInit, PTL DEF Spec

-------------------------------------------------------------------------------
(* The inductive invariant.                                                *)

EarlyAwaits == {"read", "write", "pipeline"}
LateAwaits  == {"forward", "backfill", "panel"}

\* Home Assistant's state of the entry says which await may be under way, a setup has a
\* number, and a call its device.
AwaitsFit ==
  /\ entry = "setting_up" <=> at \in EarlyAwaits \cup LateAwaits
  /\ entry = "unloading" <=> at = "unload"
  /\ at # "rest" => gen \in Setups
  /\ entry # "absent" => eid \in EntryIds
  /\ \A t \in Tasks : tasks[t].phase # "idle" => tasks[t].device \in Devices

\* Nothing of an earlier setup of the entry is in use.
IsDown ==
  \/ entry \in {"absent", "not_loaded", "setup_error"}
  \/ at \in EarlyAwaits
  \/ entry = "failed_unload" /\ Own = NoData

\* The setup has built all it builds before the platforms, and nothing has been
\* taken down.
IsUp == at \in LateAwaits \/ entry \in {"loaded", "unloading"}

\* What is in hass.data is the entry's, or was left there by one that was deserted.
DataFit ==
  /\ deserted \subseteq 1 .. eid
  /\ entry # "absent" => eid \notin deserted
  /\ entry = "not_loaded" => Own = NoData
  /\ \A e \in EntryIds : data[e] # NoData => e \in deserted \/ (e = eid /\ entry # "absent")

\* From its registration to its removal, the one service sends by the entry's
\* coordinator, unless an entry was deserted.
ServicesFit ==
  /\ at = "pipeline" => Own = [coordinator |-> gen, sniffer |-> NoSetup]
  /\ IsUp => gen \in Setups /\ Own = [coordinator |-> gen, sniffer |-> gen]
  /\ deserted = {} /\ (IsDown \/ at \in {"forward", "backfill"}) => services = NoSetup
  /\ at = "panel" \/ entry \in {"loaded", "unloading"} =>
       ws /\ (deserted = {} => services = gen)

\* Whoever still listens when the next setup begins is known to have failed, or to
\* have been deserted.
SniffersFit ==
  /\ SniffersAreOwned
  /\ IsDown => subs \subseteq failed \cup LeftBehind

\* A platform that has begun is registered with the entry's coordinator.
PlatformsFit ==
  /\ IsDown => \A p \in Platforms : plat[p] = "off"
  /\ \A p \in Platforms :
       /\ plat[p] # "off" => Own.coordinator = gen /\ gen \in Setups
       /\ plat[p] \in {"loading", "read", "up"} => p \in adders[gen]

IsHandled(d) == \E t \in Tasks : tasks[t].phase # "idle" /\ tasks[t].device = d

\* A stored device is on its way to every platform that has read the store: it was
\* read, or has its entity, or a call that will push it or go astray runs.
EntitiesFit ==
  \A d \in doc \ astray, p \in Platforms :
    /\ plat[p] = "read" => d \in listed[p] \/ <<p, d>> \in entities \/ IsHandled(d)
    /\ plat[p] = "up" => <<p, d>> \in entities \/ IsHandled(d)

LifecycleInv ==
  /\ LifecycleTypeOK
  /\ AwaitsFit
  /\ DataFit
  /\ ServicesFit
  /\ SniffersFit
  /\ PlatformsFit
  /\ EntitiesFit

-------------------------------------------------------------------------------
(* Types.                                                                  *)

TaskRecords == [phase : Phases, device : Devices \cup {NoSetup},
                seen : SUBSET Devices, via : Setups \cup {NoSetup}]

DataRecords == [coordinator : Setups \cup {NoSetup}, sniffer : Setups \cup {NoSetup}]

\* A call that moves on is still a call.
LEMMA TaskMoves ==
  ASSUME NEW r \in TaskRecords, NEW f \in Phases, NEW s \in SUBSET Devices,
         NEW g \in Setups \cup {NoSetup}
  PROVE  /\ [r EXCEPT !.seen = s, !.phase = f] \in TaskRecords
         /\ [r EXCEPT !.phase = f, !.seen = s, !.via = g] \in TaskRecords
BY DEF TaskRecords

\* The handlers find a coordinator or none, and the entry's where no entry was
\* deserted.
LEMMA FoundFits ==
  ASSUME LifecycleTypeOK, DataFit
  PROVE  /\ Found \in Setups \cup {NoSetup}
         /\ deserted = {} /\ eid \in EntryIds /\ Own # NoData => Found = Own.coordinator
<1>1. data \in [EntryIds -> DataRecords] /\ MaxEntries \in Nat
  BY LifecycleAssumption DEF LifecycleTypeOK, DataRecords
<1>2. CASE WithData = {}
  BY <1>2 DEF Found, WithData, Own
<1>3. CASE WithData # {}
  <2>1. WithData \in SUBSET (1 .. MaxEntries)
    BY DEF WithData, EntryIds
  <2>2. \E e \in WithData : \A other \in WithData : e <= other
    BY <1>1, <1>3, <2>1, Extremes
  <2> DEFINE least == CHOOSE e \in WithData : \A other \in WithData : e <= other
  <2>3. least \in WithData
    BY <2>2
  <2>4. Found = data[least].coordinator
    BY <1>3 DEF Found
  <2> HIDE DEF least
  <2>5. deserted = {} => least = eid
    BY <2>3 DEF DataFit, WithData
  <2> QED
    BY <1>1, <2>3, <2>4, <2>5 DEF WithData, Own, DataRecords
<1> QED
  BY <1>2, <1>3

-------------------------------------------------------------------------------
(* One lemma per part, with one step per action.                           *)

\* Every step keeps the types.
LEMMA TypeStep ==
  ASSUME LifecycleTypeOK, AwaitsFit, DataFit, [LifecycleStep]_lifecycleVars
  PROVE  LifecycleTypeOK'
<1> USE DEF StoreVars, PlatVars, PublicVars, CallVars, EntryVars
<1> USE LifecycleAssumption DEF EntryIds
<1>1. CASE UNCHANGED lifecycleVars
  BY <1>1 DEF LifecycleTypeOK, Setups, Phases, NoSetup, NoData, NoTask, lifecycleVars
<1>2. CASE AddEntry
  BY <1>2 DEF LifecycleTypeOK, Setups, Phases, NoSetup, NoData, NoTask, AddEntry
<1>3. CASE RemoveEntry
  BY <1>3 DEF LifecycleTypeOK, AwaitsFit, RemoveEntry
<1>4. CASE Restart
  BY <1>4 DEF LifecycleTypeOK, Setups, Phases, NoSetup, NoData, NoTask, Restart
<1>5. CASE SetupBegins
  BY <1>5 DEF LifecycleTypeOK, Setups, Phases, NoSetup, NoData, NoTask, SetupBegins
<1>6. CASE MigrationReads
  BY <1>6 DEF LifecycleTypeOK, Setups, Phases, NoSetup, NoData, NoTask, MigrationReads
<1>7. CASE MigrationSaves
  <2>1. [coordinator |-> gen, sniffer |-> NoSetup] \in DataRecords /\ eid \in EntryIds
    BY <1>7 DEF LifecycleTypeOK, AwaitsFit, EarlyAwaits, MigrationSaves, DataRecords
  <2>2. data' \in [EntryIds -> DataRecords]
    BY <1>7, <2>1 DEF LifecycleTypeOK, MigrationSaves, Build, SetOwn, DataRecords
  <2> QED
    BY <1>7, <2>2 DEF LifecycleTypeOK, MigrationSaves, Build, Migrated, DataRecords
<1>8. CASE MigrationFails
  <2>1. [coordinator |-> gen, sniffer |-> NoSetup] \in DataRecords /\ eid \in EntryIds
    BY <1>8 DEF LifecycleTypeOK, AwaitsFit, EarlyAwaits, MigrationFails, DataRecords
  <2>2. data' \in [EntryIds -> DataRecords]
    BY <1>8, <2>1 DEF LifecycleTypeOK, MigrationFails, Build, SetOwn, DataRecords
  <2> QED
    BY <1>8, <2>2 DEF LifecycleTypeOK, MigrationFails, Build, Migrated, DataRecords
<1>9. CASE PipelineStarts
  <2>1. gen \in Setups /\ eid \in EntryIds /\ data \in [EntryIds -> DataRecords]
    BY <1>9 DEF LifecycleTypeOK, AwaitsFit, PipelineStarts, DataRecords, EarlyAwaits
  <2>2. [Own EXCEPT !.sniffer = gen] \in DataRecords
    BY <2>1 DEF Own, DataRecords
  <2>3. data' \in [EntryIds -> DataRecords]
    BY <1>9, <2>1, <2>2, Zenon DEF PipelineStarts, SetOwn
  <2> QED
    BY <1>9, <2>1, <2>3 DEF LifecycleTypeOK, PipelineStarts, DataRecords
<1>10. CASE PipelineRaises
  BY <1>10 DEF LifecycleTypeOK, Setups, Phases, NoSetup, NoData, NoTask, PipelineRaises
<1>11. CASE ForwardRaises
  BY <1>11 DEF LifecycleTypeOK, Setups, Phases, NoSetup, NoData, NoTask, ForwardRaises
<1>12. ASSUME NEW p \in Platforms, PlatformBegins(p) PROVE LifecycleTypeOK'
  BY <1>12 DEF LifecycleTypeOK, Setups, Phases, NoSetup, NoData, NoTask, PlatformBegins
<1>13. ASSUME NEW p \in Platforms, PlatformReads(p) PROVE LifecycleTypeOK'
  BY <1>13 DEF LifecycleTypeOK, Setups, Phases, NoSetup, NoData, NoTask, PlatformReads
<1>14. ASSUME NEW p \in Platforms, PlatformAdds(p) PROVE LifecycleTypeOK'
  BY <1>14 DEF LifecycleTypeOK, Setups, Phases, NoSetup, NoData, NoTask, PlatformAdds
<1>15. ASSUME NEW p \in Platforms, PlatformRaises(p) PROVE LifecycleTypeOK'
  BY <1>15 DEF LifecycleTypeOK, Setups, Phases, NoSetup, NoData, NoTask, PlatformRaises
<1>16. CASE Forwarded
  BY <1>16 DEF LifecycleTypeOK, Setups, Phases, NoSetup, NoData, NoTask, Forwarded
<1>17. CASE Backfilled
  BY <1>17 DEF LifecycleTypeOK, AwaitsFit, LateAwaits, NoSetup, Backfilled,
       RegisterServices, RegisterCommands, Own
<1>18. CASE PanelRegistered
  BY <1>18 DEF LifecycleTypeOK, Setups, Phases, NoSetup, NoData, NoTask, PanelRegistered
<1>19. CASE UnloadBegins
  BY <1>19 DEF LifecycleTypeOK, Setups, Phases, NoSetup, NoData, NoTask, UnloadBegins
<1>20. CASE UnloadRefused
  BY <1>20 DEF LifecycleTypeOK, Setups, Phases, NoSetup, NoData, NoTask, UnloadRefused
<1>21. CASE UnloadEnds
  BY <1>21 DEF LifecycleTypeOK, Setups, Phases, NoSetup, NoData, NoTask, UnloadEnds,
       UnregisterServices, StopSniffer, SetOwn
<1>22. ASSUME NEW t \in Tasks, NEW d \in Devices, CreateBegins(t, d) PROVE
      LifecycleTypeOK'
  BY <1>22, FoundFits DEF LifecycleTypeOK, Phases, NoTask, CreateBegins, Put
<1>23. ASSUME NEW t \in Tasks, NEW d \in Devices, UpdateBegins(t, d) PROVE
      LifecycleTypeOK'
  BY <1>23 DEF LifecycleTypeOK, Setups, Phases, NoSetup, NoData, NoTask, UpdateBegins, Put
<1>24. ASSUME NEW t \in Tasks, Loads(t) PROVE LifecycleTypeOK'
  <2> DEFINE next == IF tasks[t].phase = "upsert" THEN "saving" ELSE "save"
  <2>1. /\ tasks \in [Tasks -> TaskRecords] /\ tasks[t] \in TaskRecords
        /\ next \in Phases /\ doc \in SUBSET Devices
    BY DEF LifecycleTypeOK, TaskRecords, Phases
  <2> HIDE DEF next
  <2>2. [tasks[t] EXCEPT !.seen = doc, !.phase = next] \in TaskRecords
    BY <2>1, TaskMoves, Zenon DEF LifecycleTypeOK
  <2>3. tasks' = [tasks EXCEPT ![t] = [tasks[t] EXCEPT !.seen = doc, !.phase = next]]
    BY <1>24, Zenon DEF Loads, Put, next
  <2>4. tasks' \in [Tasks -> TaskRecords]
    BY <2>1, <2>2, <2>3
  <2> QED
    BY <1>24, <2>4 DEF LifecycleTypeOK, TaskRecords, Loads
<1>25. ASSUME NEW t \in Tasks, TaskRaises(t) PROVE LifecycleTypeOK'
  <2>1. tasks[t].device \in Devices
    BY <1>25 DEF AwaitsFit, TaskRaises
  <2> QED
    BY <1>25, <2>1 DEF LifecycleTypeOK, NoSetup, NoTask, Phases, TaskRaises, Put
<1>26. ASSUME NEW t \in Tasks, UpdateSaves(t) PROVE LifecycleTypeOK'
  <2> DEFINE moved == [tasks[t] EXCEPT !.phase = "load", !.seen = {}, !.via = Found]
  <2>1. /\ tasks \in [Tasks -> TaskRecords] /\ tasks[t] \in TaskRecords
        /\ "load" \in Phases /\ Found \in Setups \cup {NoSetup} /\ {} \in SUBSET Devices
    BY FoundFits DEF LifecycleTypeOK, TaskRecords, Phases
  <2>2. moved \in TaskRecords
    BY <2>1, TaskMoves, Zenon
  <2>3. tasks[t].seen \subseteq Devices /\ tasks[t].device \in Devices
    BY <1>26, <2>1 DEF AwaitsFit, TaskRecords, UpdateSaves
  <2>4. NoTask \in TaskRecords
    BY DEF NoTask, TaskRecords, Phases
  <2> HIDE DEF moved
  <2>5. tasks' = [tasks EXCEPT ![t] = NoTask] \/ tasks' = [tasks EXCEPT ![t] = moved]
    BY <1>26, Zenon DEF UpdateSaves, Put, moved
  <2>6. tasks' \in [Tasks -> TaskRecords]
    BY <2>1, <2>2, <2>4, <2>5
  <2>7. doc' \subseteq Devices /\ astray' \subseteq Devices
    BY <1>26, <2>3 DEF LifecycleTypeOK, UpdateSaves, Written, BroughtBack
  <2> QED
    BY <1>26, <2>6, <2>7 DEF LifecycleTypeOK, TaskRecords, UpdateSaves
<1>27. ASSUME NEW t \in Tasks, SavesAndPushes(t) PROVE LifecycleTypeOK'
  <2>1. tasks[t].device \in Devices /\ tasks[t].seen \subseteq Devices
    BY <1>27 DEF AwaitsFit, LifecycleTypeOK, SavesAndPushes
  <2>2. doc' \subseteq Devices /\ astray' \subseteq Devices
    BY <1>27, <2>1 DEF LifecycleTypeOK, SavesAndPushes, Written, BroughtBack
  <2>3. tasks' \in [Tasks -> TaskRecords]
    BY <1>27 DEF LifecycleTypeOK, TaskRecords, Phases, NoSetup, NoTask, SavesAndPushes,
         Put
  <2>4. PICK new \in Pushed(tasks[t].via, tasks[t].device) : entities' = entities \cup new
    BY <1>27 DEF SavesAndPushes
  <2>5. new \subseteq Platforms \X Devices
    BY <2>1, <2>4 DEF Pushed, LifecycleTypeOK, NoSetup, Setups
  <2> QED
    BY <1>27, <2>2, <2>3, <2>4, <2>5 DEF LifecycleTypeOK, TaskRecords, SavesAndPushes
<1> QED
  BY <1>1, <1>2, <1>3, <1>4, <1>5, <1>6, <1>7, <1>8, <1>9, <1>10, <1>11, <1>12, <1>13,
       <1>14, <1>15, <1>16, <1>17, <1>18, <1>19, <1>20, <1>21, <1>22, <1>23, <1>24,
       <1>25, <1>26, <1>27
  DEF LifecycleStep, Setup, Call

\* What may be under way.
LEMMA AwaitsStep ==
  ASSUME LifecycleTypeOK, AwaitsFit, ServicesFit, [LifecycleStep]_lifecycleVars
  PROVE  AwaitsFit'
<1> USE DEF StoreVars, PlatVars, PublicVars, CallVars, EntryVars, LifecycleTypeOK,
      AwaitsFit, EarlyAwaits, LateAwaits, Setups, NoTask
<1>1. CASE UNCHANGED lifecycleVars
  BY <1>1 DEF lifecycleVars
<1>2. CASE AddEntry
  BY <1>2, LifecycleAssumption DEF AddEntry, EntryIds
<1>3. CASE RemoveEntry  BY <1>3 DEF RemoveEntry
<1>4. CASE Restart  BY <1>4 DEF Restart
<1>5. CASE SetupBegins
  BY <1>5, LifecycleAssumption DEF SetupBegins
<1>6. CASE MigrationReads  BY <1>6 DEF MigrationReads
<1>7. CASE MigrationSaves  BY <1>7 DEF MigrationSaves, Build, Migrated, SetOwn
<1>8. CASE MigrationFails  BY <1>8 DEF MigrationFails, Build, SetOwn
<1>9. CASE PipelineStarts  BY <1>9 DEF PipelineStarts, SetOwn
<1>10. CASE PipelineRaises  BY <1>10 DEF PipelineRaises
<1>11. CASE ForwardRaises  BY <1>11 DEF ForwardRaises
<1>12. ASSUME NEW p \in Platforms, PlatformBegins(p) PROVE AwaitsFit'
  BY <1>12 DEF PlatformBegins
<1>13. ASSUME NEW p \in Platforms, PlatformReads(p) PROVE AwaitsFit'
  BY <1>13 DEF PlatformReads
<1>14. ASSUME NEW p \in Platforms, PlatformAdds(p) PROVE AwaitsFit'
  BY <1>14 DEF PlatformAdds
<1>15. ASSUME NEW p \in Platforms, PlatformRaises(p) PROVE AwaitsFit'
  BY <1>15 DEF PlatformRaises
<1>16. CASE Forwarded  BY <1>16 DEF Forwarded
<1>17. CASE Backfilled  BY <1>17 DEF Backfilled, RegisterServices, RegisterCommands
<1>18. CASE PanelRegistered  BY <1>18 DEF PanelRegistered
<1>19. CASE UnloadBegins
  BY <1>19 DEF UnloadBegins, ServicesFit, IsUp
<1>20. CASE UnloadRefused  BY <1>20 DEF UnloadRefused
<1>21. CASE UnloadEnds  BY <1>21 DEF UnloadEnds, UnregisterServices, StopSniffer, SetOwn, WithData
<1>22. ASSUME NEW t \in Tasks, NEW d \in Devices, CreateBegins(t, d) PROVE AwaitsFit'
  BY <1>22 DEF CreateBegins, Put
<1>23. ASSUME NEW t \in Tasks, NEW d \in Devices, UpdateBegins(t, d) PROVE AwaitsFit'
  BY <1>23 DEF UpdateBegins, Put
<1>24. ASSUME NEW t \in Tasks, Loads(t) PROVE AwaitsFit'  BY <1>24 DEF Loads, Put
<1>25. ASSUME NEW t \in Tasks, TaskRaises(t) PROVE AwaitsFit'
  BY <1>25 DEF TaskRaises, Put
<1>26. ASSUME NEW t \in Tasks, UpdateSaves(t) PROVE AwaitsFit'
  <2> DEFINE moved == [tasks[t] EXCEPT !.phase = "load", !.seen = {}, !.via = Found]
  <2>1. tasks[t] \in TaskRecords /\ tasks[t].phase # "idle"
    BY <1>26 DEF LifecycleTypeOK, TaskRecords, UpdateSaves
  <2>2. moved.device = tasks[t].device
    BY <2>1 DEF TaskRecords
  <2> HIDE DEF moved
  <2>3. tasks' = [tasks EXCEPT ![t] = NoTask] \/ tasks' = [tasks EXCEPT ![t] = moved]
    BY <1>26, Zenon DEF UpdateSaves, Put, moved
  <2> QED
    BY <1>26, <2>1, <2>2, <2>3
    DEF AwaitsFit, EarlyAwaits, LateAwaits, LifecycleTypeOK, Setups, EntryIds, NoTask,
        UpdateSaves
<1>27. ASSUME NEW t \in Tasks, SavesAndPushes(t) PROVE AwaitsFit'
  BY <1>27 DEF SavesAndPushes, Put, Written, BroughtBack, Pushed
<1> QED
  BY <1>1, <1>2, <1>3, <1>4, <1>5, <1>6, <1>7, <1>8, <1>9, <1>10, <1>11, <1>12, <1>13,
       <1>14, <1>15, <1>16, <1>17, <1>18, <1>19, <1>20, <1>21, <1>22, <1>23, <1>24,
       <1>25, <1>26, <1>27
  DEF LifecycleStep, Setup, Call

\* What hass.data has.
LEMMA DataStep ==
  ASSUME LifecycleTypeOK, AwaitsFit, DataFit, [LifecycleStep]_lifecycleVars
  PROVE  DataFit'
<1> USE LifecycleAssumption
     DEF StoreVars, PlatVars, PublicVars, CallVars, EntryVars, DataFit, AwaitsFit, EarlyAwaits,
         LateAwaits, LifecycleTypeOK, EntryIds, Own
<1>1. CASE UNCHANGED lifecycleVars
  BY <1>1 DEF lifecycleVars
<1>2. CASE AddEntry  BY <1>2 DEF AddEntry
<1>3. CASE RemoveEntry  BY <1>3 DEF RemoveEntry
<1>4. CASE Restart  BY <1>4 DEF Restart
<1>5. CASE SetupBegins  BY <1>5 DEF SetupBegins
<1>6. CASE MigrationReads  BY <1>6 DEF MigrationReads
<1>7. CASE MigrationSaves  BY <1>7 DEF MigrationSaves, Build, Migrated, SetOwn
<1>8. CASE MigrationFails  BY <1>8 DEF MigrationFails, Build, SetOwn
<1>9. CASE PipelineStarts  BY <1>9 DEF PipelineStarts, SetOwn
<1>10. CASE PipelineRaises  BY <1>10 DEF PipelineRaises
<1>11. CASE ForwardRaises  BY <1>11 DEF ForwardRaises
<1>12. ASSUME NEW p \in Platforms, PlatformBegins(p) PROVE DataFit'
  BY <1>12 DEF PlatformBegins
<1>13. ASSUME NEW p \in Platforms, PlatformReads(p) PROVE DataFit'
  BY <1>13 DEF PlatformReads
<1>14. ASSUME NEW p \in Platforms, PlatformAdds(p) PROVE DataFit'
  BY <1>14 DEF PlatformAdds
<1>15. ASSUME NEW p \in Platforms, PlatformRaises(p) PROVE DataFit'
  BY <1>15 DEF PlatformRaises
<1>16. CASE Forwarded  BY <1>16 DEF Forwarded
<1>17. CASE Backfilled  BY <1>17 DEF Backfilled, RegisterServices, RegisterCommands
<1>18. CASE PanelRegistered  BY <1>18 DEF PanelRegistered
<1>19. CASE UnloadBegins  BY <1>19 DEF UnloadBegins
<1>20. CASE UnloadRefused  BY <1>20 DEF UnloadRefused
<1>21. CASE UnloadEnds  BY <1>21 DEF UnloadEnds, UnregisterServices, StopSniffer, SetOwn, WithData
<1>22. ASSUME NEW t \in Tasks, NEW d \in Devices, CreateBegins(t, d) PROVE DataFit'
  BY <1>22 DEF CreateBegins, Put
<1>23. ASSUME NEW t \in Tasks, NEW d \in Devices, UpdateBegins(t, d) PROVE DataFit'
  BY <1>23 DEF UpdateBegins, Put
<1>24. ASSUME NEW t \in Tasks, Loads(t) PROVE DataFit'  BY <1>24 DEF Loads, Put
<1>25. ASSUME NEW t \in Tasks, TaskRaises(t) PROVE DataFit'
  BY <1>25 DEF TaskRaises, Put
<1>26. ASSUME NEW t \in Tasks, UpdateSaves(t) PROVE DataFit'
  BY <1>26 DEF UpdateSaves, Put, Written, BroughtBack
<1>27. ASSUME NEW t \in Tasks, SavesAndPushes(t) PROVE DataFit'
  BY <1>27 DEF SavesAndPushes, Put, Written, BroughtBack, Pushed
<1> QED
  BY <1>1, <1>2, <1>3, <1>4, <1>5, <1>6, <1>7, <1>8, <1>9, <1>10, <1>11, <1>12, <1>13,
       <1>14, <1>15, <1>16, <1>17, <1>18, <1>19, <1>20, <1>21, <1>22, <1>23, <1>24,
       <1>25, <1>26, <1>27
  DEF LifecycleStep, Setup, Call

\* What has been built.
LEMMA ServicesStep ==
  ASSUME LifecycleTypeOK, AwaitsFit, DataFit, ServicesFit, [LifecycleStep]_lifecycleVars
  PROVE  ServicesFit'
<1> USE DEF StoreVars, PlatVars, PublicVars, CallVars, EntryVars, ServicesFit,
      AwaitsFit, DataFit, IsUp, IsDown, EarlyAwaits, LateAwaits, LifecycleTypeOK, Setups,
      EntryIds, Own
<1>1. CASE UNCHANGED lifecycleVars
  BY <1>1 DEF lifecycleVars
<1>2. CASE AddEntry  BY <1>2 DEF AddEntry
<1>3. CASE RemoveEntry  BY <1>3 DEF RemoveEntry
<1>4. CASE Restart  BY <1>4 DEF Restart
<1>5. CASE SetupBegins  BY <1>5 DEF SetupBegins
<1>6. CASE MigrationReads  BY <1>6 DEF MigrationReads
<1>7. CASE MigrationSaves  BY <1>7 DEF MigrationSaves, Build, Migrated, SetOwn
<1>8. CASE MigrationFails  BY <1>8 DEF MigrationFails, Build, SetOwn
<1>9. CASE PipelineStarts  BY <1>9 DEF PipelineStarts, SetOwn
<1>10. CASE PipelineRaises  BY <1>10 DEF PipelineRaises
<1>11. CASE ForwardRaises  BY <1>11 DEF ForwardRaises
<1>12. ASSUME NEW p \in Platforms, PlatformBegins(p) PROVE ServicesFit'
  BY <1>12 DEF PlatformBegins
<1>13. ASSUME NEW p \in Platforms, PlatformReads(p) PROVE ServicesFit'
  BY <1>13 DEF PlatformReads
<1>14. ASSUME NEW p \in Platforms, PlatformAdds(p) PROVE ServicesFit'
  BY <1>14 DEF PlatformAdds
<1>15. ASSUME NEW p \in Platforms, PlatformRaises(p) PROVE ServicesFit'
  BY <1>15 DEF PlatformRaises
<1>16. CASE Forwarded  BY <1>16 DEF Forwarded
<1>17. CASE Backfilled  BY <1>17 DEF Backfilled, RegisterServices, RegisterCommands
<1>18. CASE PanelRegistered  BY <1>18 DEF PanelRegistered
<1>19. CASE UnloadBegins  BY <1>19 DEF UnloadBegins
<1>20. CASE UnloadRefused  BY <1>20 DEF UnloadRefused, NoData, NoSetup
<1>21. CASE UnloadEnds
  <2>1. Own # NoData
    BY <1>21 DEF UnloadEnds, NoData, NoSetup
  <2>2. deserted = {} => WithData = {eid}
    BY <1>21, <2>1 DEF UnloadEnds, WithData
  <2>3. Own' = NoData /\ deserted' = deserted /\ eid' = eid
    BY <1>21 DEF UnloadEnds, SetOwn
  <2> QED
    BY <1>21, <2>2, <2>3 DEF UnloadEnds, UnregisterServices, NoData, NoSetup
<1>22. ASSUME NEW t \in Tasks, NEW d \in Devices, CreateBegins(t, d) PROVE ServicesFit'
  BY <1>22 DEF CreateBegins, Put
<1>23. ASSUME NEW t \in Tasks, NEW d \in Devices, UpdateBegins(t, d) PROVE ServicesFit'
  BY <1>23 DEF UpdateBegins, Put
<1>24. ASSUME NEW t \in Tasks, Loads(t) PROVE ServicesFit'  BY <1>24 DEF Loads, Put
<1>25. ASSUME NEW t \in Tasks, TaskRaises(t) PROVE ServicesFit'
  BY <1>25 DEF TaskRaises, Put
<1>26. ASSUME NEW t \in Tasks, UpdateSaves(t) PROVE ServicesFit'
  BY <1>26 DEF UpdateSaves, Put, Written, BroughtBack
<1>27. ASSUME NEW t \in Tasks, SavesAndPushes(t) PROVE ServicesFit'
  BY <1>27 DEF SavesAndPushes, Put, Written, BroughtBack, Pushed
<1> QED
  BY <1>1, <1>2, <1>3, <1>4, <1>5, <1>6, <1>7, <1>8, <1>9, <1>10, <1>11, <1>12, <1>13,
       <1>14, <1>15, <1>16, <1>17, <1>18, <1>19, <1>20, <1>21, <1>22, <1>23, <1>24,
       <1>25, <1>26, <1>27
  DEF LifecycleStep, Setup, Call

\* Who listens.
LEMMA SniffersStep ==
  ASSUME LifecycleTypeOK, AwaitsFit, DataFit, ServicesFit, SniffersFit,
         [LifecycleStep]_lifecycleVars
  PROVE  SniffersFit'
<1> USE DEF StoreVars, PlatVars, PublicVars, CallVars, EntryVars, SniffersFit,
      SniffersAreOwned, ServicesFit, AwaitsFit, DataFit, IsUp, IsDown, EarlyAwaits, LateAwaits,
      LifecycleTypeOK, EntryIds, Own, LeftBehind, NoData
<1>1. CASE UNCHANGED lifecycleVars
  BY <1>1 DEF lifecycleVars
<1>2. CASE AddEntry  BY <1>2 DEF AddEntry
<1>3. CASE RemoveEntry  BY <1>3 DEF RemoveEntry
<1>4. CASE Restart  BY <1>4 DEF Restart
<1>5. CASE SetupBegins  BY <1>5 DEF SetupBegins
<1>6. CASE MigrationReads  BY <1>6 DEF MigrationReads
<1>7. CASE MigrationSaves  BY <1>7 DEF MigrationSaves, Build, Migrated, SetOwn
<1>8. CASE MigrationFails  BY <1>8 DEF MigrationFails, Build, SetOwn
<1>9. CASE PipelineStarts  BY <1>9 DEF PipelineStarts, SetOwn
<1>10. CASE PipelineRaises  BY <1>10 DEF PipelineRaises
<1>11. CASE ForwardRaises  BY <1>11 DEF ForwardRaises
<1>12. ASSUME NEW p \in Platforms, PlatformBegins(p) PROVE SniffersFit'
  BY <1>12 DEF PlatformBegins
<1>13. ASSUME NEW p \in Platforms, PlatformReads(p) PROVE SniffersFit'
  BY <1>13 DEF PlatformReads
<1>14. ASSUME NEW p \in Platforms, PlatformAdds(p) PROVE SniffersFit'
  BY <1>14 DEF PlatformAdds
<1>15. ASSUME NEW p \in Platforms, PlatformRaises(p) PROVE SniffersFit'
  BY <1>15 DEF PlatformRaises
<1>16. CASE Forwarded  BY <1>16 DEF Forwarded
<1>17. CASE Backfilled  BY <1>17 DEF Backfilled, RegisterServices, RegisterCommands
<1>18. CASE PanelRegistered  BY <1>18 DEF PanelRegistered
<1>19. CASE UnloadBegins  BY <1>19 DEF UnloadBegins
<1>20. CASE UnloadRefused  BY <1>20 DEF UnloadRefused, NoData, NoSetup, Setups
<1>21. CASE UnloadEnds  BY <1>21 DEF UnloadEnds, UnregisterServices, StopSniffer, SetOwn, WithData
<1>22. ASSUME NEW t \in Tasks, NEW d \in Devices, CreateBegins(t, d) PROVE SniffersFit'
  BY <1>22 DEF CreateBegins, Put
<1>23. ASSUME NEW t \in Tasks, NEW d \in Devices, UpdateBegins(t, d) PROVE SniffersFit'
  BY <1>23 DEF UpdateBegins, Put
<1>24. ASSUME NEW t \in Tasks, Loads(t) PROVE SniffersFit'  BY <1>24 DEF Loads, Put
<1>25. ASSUME NEW t \in Tasks, TaskRaises(t) PROVE SniffersFit'
  BY <1>25 DEF TaskRaises, Put
<1>26. ASSUME NEW t \in Tasks, UpdateSaves(t) PROVE SniffersFit'
  BY <1>26 DEF UpdateSaves, Put, Written, BroughtBack
<1>27. ASSUME NEW t \in Tasks, SavesAndPushes(t) PROVE SniffersFit'
  BY <1>27 DEF SavesAndPushes, Put, Written, BroughtBack, Pushed
<1> QED
  BY <1>1, <1>2, <1>3, <1>4, <1>5, <1>6, <1>7, <1>8, <1>9, <1>10, <1>11, <1>12, <1>13,
       <1>14, <1>15, <1>16, <1>17, <1>18, <1>19, <1>20, <1>21, <1>22, <1>23, <1>24,
       <1>25, <1>26, <1>27
  DEF LifecycleStep, Setup, Call

\* Who is registered.
LEMMA PlatformsStep ==
  ASSUME LifecycleTypeOK, AwaitsFit, DataFit, ServicesFit, PlatformsFit,
         [LifecycleStep]_lifecycleVars
  PROVE  PlatformsFit'
<1> USE DEF StoreVars, PlatVars, PublicVars, CallVars, EntryVars, PlatformsFit,
      ServicesFit, AwaitsFit, DataFit, IsUp, IsDown, EarlyAwaits, LateAwaits, LifecycleTypeOK,
      EntryIds, Own
<1>1. CASE UNCHANGED lifecycleVars
  BY <1>1 DEF lifecycleVars
<1>2. CASE AddEntry  BY <1>2 DEF AddEntry
<1>3. CASE RemoveEntry  BY <1>3 DEF RemoveEntry
<1>4. CASE Restart  BY <1>4 DEF Restart
<1>5. CASE SetupBegins  BY <1>5 DEF SetupBegins
<1>6. CASE MigrationReads  BY <1>6 DEF MigrationReads
<1>7. CASE MigrationSaves  BY <1>7 DEF MigrationSaves, Build, Migrated, SetOwn
<1>8. CASE MigrationFails  BY <1>8 DEF MigrationFails, Build, SetOwn
<1>9. CASE PipelineStarts  BY <1>9 DEF PipelineStarts, SetOwn
<1>10. CASE PipelineRaises  BY <1>10 DEF PipelineRaises
<1>11. CASE ForwardRaises  BY <1>11 DEF ForwardRaises
<1>12. ASSUME NEW p \in Platforms, PlatformBegins(p) PROVE PlatformsFit'
  BY <1>12 DEF PlatformBegins
<1>13. ASSUME NEW p \in Platforms, PlatformReads(p) PROVE PlatformsFit'
  BY <1>13 DEF PlatformReads
<1>14. ASSUME NEW p \in Platforms, PlatformAdds(p) PROVE PlatformsFit'
  BY <1>14 DEF PlatformAdds
<1>15. ASSUME NEW p \in Platforms, PlatformRaises(p) PROVE PlatformsFit'
  BY <1>15 DEF PlatformRaises
<1>16. CASE Forwarded  BY <1>16 DEF Forwarded
<1>17. CASE Backfilled  BY <1>17 DEF Backfilled, RegisterServices, RegisterCommands
<1>18. CASE PanelRegistered  BY <1>18 DEF PanelRegistered
<1>19. CASE UnloadBegins  BY <1>19 DEF UnloadBegins
<1>20. CASE UnloadRefused  BY <1>20 DEF UnloadRefused, NoData, NoSetup, Setups
<1>21. CASE UnloadEnds  BY <1>21 DEF UnloadEnds, UnregisterServices, StopSniffer, SetOwn, WithData
<1>22. ASSUME NEW t \in Tasks, NEW d \in Devices, CreateBegins(t, d) PROVE PlatformsFit'
  BY <1>22 DEF CreateBegins, Put
<1>23. ASSUME NEW t \in Tasks, NEW d \in Devices, UpdateBegins(t, d) PROVE PlatformsFit'
  BY <1>23 DEF UpdateBegins, Put
<1>24. ASSUME NEW t \in Tasks, Loads(t) PROVE PlatformsFit'  BY <1>24 DEF Loads, Put
<1>25. ASSUME NEW t \in Tasks, TaskRaises(t) PROVE PlatformsFit'
  BY <1>25 DEF TaskRaises, Put
<1>26. ASSUME NEW t \in Tasks, UpdateSaves(t) PROVE PlatformsFit'
  BY <1>26 DEF UpdateSaves, Put, Written, BroughtBack
<1>27. ASSUME NEW t \in Tasks, SavesAndPushes(t) PROVE PlatformsFit'
  BY <1>27 DEF SavesAndPushes, Put, Written, BroughtBack, Pushed
<1> QED
  BY <1>1, <1>2, <1>3, <1>4, <1>5, <1>6, <1>7, <1>8, <1>9, <1>10, <1>11, <1>12, <1>13,
       <1>14, <1>15, <1>16, <1>17, <1>18, <1>19, <1>20, <1>21, <1>22, <1>23, <1>24,
       <1>25, <1>26, <1>27
  DEF LifecycleStep, Setup, Call

\* A platform that adds what it has read, and one that fails before it has, leave
\* nothing behind.
LEMMA AddsKeepsFit ==
  ASSUME LifecycleTypeOK, EntitiesFit, NEW p \in Platforms, PlatformAdds(p)
  PROVE  EntitiesFit'
<1>1. doc' = doc /\ astray' = astray /\ \A d : IsHandled(d)' <=> IsHandled(d)
  BY DEF PlatformAdds, IsHandled, StoreVars, CallVars
<1>2. \A q \in Platforms : q # p => plat'[q] = plat[q] /\ listed'[q] = listed[q]
  BY DEF PlatformAdds, LifecycleTypeOK
<1>3. plat[p] = "read" /\ plat'[p] = "up"
  BY DEF PlatformAdds, LifecycleTypeOK
<1>4. \A q \in Platforms, d \in Devices : <<q, d>> \in entities => <<q, d>> \in entities'
  BY DEF PlatformAdds
<1>5. \A d \in listed[p] : <<p, d>> \in entities'
  BY DEF PlatformAdds
<1>6. doc \subseteq Devices
  BY DEF LifecycleTypeOK
<1> SUFFICES ASSUME NEW d \in doc' \ astray', NEW q \in Platforms
             PROVE  /\ plat'[q] = "read" => d \in listed'[q] \/ <<q, d>> \in entities' \/ IsHandled(d)'
                    /\ plat'[q] = "up" => <<q, d>> \in entities' \/ IsHandled(d)'
  BY DEF EntitiesFit
<1>7. /\ plat[q] = "read" => d \in listed[q] \/ <<q, d>> \in entities \/ IsHandled(d)
      /\ plat[q] = "up" => <<q, d>> \in entities \/ IsHandled(d)
  BY <1>1 DEF EntitiesFit
<1>8. CASE q = p
  BY <1>1, <1>3, <1>4, <1>5, <1>6, <1>7, <1>8
<1>9. CASE q # p
  BY <1>1, <1>2, <1>4, <1>6, <1>7, <1>9
<1> QED
  BY <1>8, <1>9

LEMMA RaisesKeepsFit ==
  ASSUME LifecycleTypeOK, EntitiesFit, NEW p \in Platforms, PlatformRaises(p)
  PROVE  EntitiesFit'
  BY DEF EntitiesFit, IsHandled, LifecycleTypeOK, PlatformRaises, StoreVars, CallVars

\* What is on its way to the platforms.
LEMMA EntitiesStep ==
  ASSUME LifecycleInv, [LifecycleStep]_lifecycleVars
  PROVE  EntitiesFit'
<1> USE DEF StoreVars, PlatVars, PublicVars, CallVars, EntryVars
<1> USE DEF LifecycleInv
<1>1. CASE UNCHANGED lifecycleVars
  BY <1>1 DEF EntitiesFit, IsHandled, LifecycleTypeOK, lifecycleVars
<1>2. CASE AddEntry  BY <1>2 DEF EntitiesFit, IsHandled, LifecycleTypeOK, AddEntry
<1>3. CASE RemoveEntry
  BY <1>3 DEF EntitiesFit, IsHandled, LifecycleTypeOK, RemoveEntry
<1>4. CASE Restart
  BY <1>4 DEF EntitiesFit, Restart
<1>5. CASE SetupBegins
  BY <1>5 DEF EntitiesFit, PlatformsFit, IsDown, SetupBegins
<1>6. CASE MigrationReads
  BY <1>6 DEF EntitiesFit, IsHandled, LifecycleTypeOK, MigrationReads
<1>7. CASE MigrationSaves
  BY <1>7 DEF EntitiesFit, PlatformsFit, IsDown, EarlyAwaits, MigrationSaves, Build
<1>8. CASE MigrationFails
  BY <1>8 DEF EntitiesFit, PlatformsFit, IsDown, EarlyAwaits, MigrationFails, Build
<1>9. CASE PipelineStarts
  BY <1>9 DEF EntitiesFit, IsHandled, LifecycleTypeOK, PipelineStarts
<1>10. CASE PipelineRaises
  BY <1>10 DEF EntitiesFit, IsHandled, LifecycleTypeOK, PipelineRaises
<1>11. CASE ForwardRaises
  BY <1>11 DEF EntitiesFit, IsHandled, LifecycleTypeOK, ForwardRaises
<1>12. ASSUME NEW p \in Platforms, PlatformBegins(p) PROVE EntitiesFit'
  BY <1>12 DEF EntitiesFit, IsHandled, LifecycleTypeOK, PlatformBegins
<1>13. ASSUME NEW p \in Platforms, PlatformReads(p) PROVE EntitiesFit'
  BY <1>13 DEF EntitiesFit, IsHandled, LifecycleTypeOK, PlatformReads
<1>14. ASSUME NEW p \in Platforms, PlatformAdds(p) PROVE EntitiesFit'
  BY <1>14, LifecycleTypeOK, EntitiesFit, AddsKeepsFit
<1>15. ASSUME NEW p \in Platforms, PlatformRaises(p) PROVE EntitiesFit'
  BY <1>15, LifecycleTypeOK, EntitiesFit, RaisesKeepsFit
<1>16. CASE Forwarded
  BY <1>16 DEF EntitiesFit, IsHandled, LifecycleTypeOK, Forwarded
<1>17. CASE Backfilled
  BY <1>17 DEF EntitiesFit, IsHandled, LifecycleTypeOK, Backfilled, RegisterServices,
       RegisterCommands
<1>18. CASE PanelRegistered
  BY <1>18 DEF EntitiesFit, IsHandled, LifecycleTypeOK, PanelRegistered
<1>19. CASE UnloadBegins
  BY <1>19 DEF EntitiesFit, IsHandled, LifecycleTypeOK, UnloadBegins
<1>20. CASE UnloadRefused
  BY <1>20 DEF EntitiesFit, IsHandled, LifecycleTypeOK, UnloadRefused
<1>21. CASE UnloadEnds
  BY <1>21 DEF EntitiesFit, UnloadEnds
<1>22. ASSUME NEW t \in Tasks, NEW d \in Devices, CreateBegins(t, d) PROVE EntitiesFit'
  <2>1. \A e \in Devices : IsHandled(e) => IsHandled(e)'
    BY <1>22 DEF IsHandled, CreateBegins, Put, NoTask, LifecycleTypeOK
  <2> QED
    BY <1>22, <2>1 DEF EntitiesFit, LifecycleTypeOK, CreateBegins
<1>23. ASSUME NEW t \in Tasks, NEW d \in Devices, UpdateBegins(t, d) PROVE EntitiesFit'
  <2>1. \A e \in Devices : IsHandled(e) => IsHandled(e)'
    BY <1>23 DEF IsHandled, UpdateBegins, Put, NoTask, LifecycleTypeOK
  <2> QED
    BY <1>23, <2>1 DEF EntitiesFit, LifecycleTypeOK, UpdateBegins
<1>24. ASSUME NEW t \in Tasks, Loads(t) PROVE EntitiesFit'
  <2> DEFINE next == IF tasks[t].phase = "upsert" THEN "saving" ELSE "save"
             moved == [tasks[t] EXCEPT !.seen = doc, !.phase = next]
  <2>1. tasks[t] \in TaskRecords /\ tasks \in [Tasks -> TaskRecords]
    BY DEF LifecycleTypeOK, TaskRecords
  <2>2. moved.device = tasks[t].device /\ moved.phase # "idle"
    <3> HIDE DEF next
    <3>1. moved.device = tasks[t].device /\ moved.phase = next
      BY <2>1 DEF TaskRecords
    <3> QED
      BY <3>1 DEF next
  <2>3. tasks' = [tasks EXCEPT ![t] = moved]
    BY <1>24, Zenon DEF Loads, Put
  <2> HIDE DEF moved
  <2>4. \A e \in Devices : IsHandled(e) => IsHandled(e)'
    BY <2>1, <2>2, <2>3 DEF IsHandled
  <2> QED
    BY <1>24, <2>4 DEF EntitiesFit, LifecycleTypeOK, Loads
<1>25. ASSUME NEW t \in Tasks, TaskRaises(t) PROVE EntitiesFit'
  <2>1. \A e \in Devices : IsHandled(e) => IsHandled(e)' \/ e = tasks[t].device
    BY <1>25 DEF IsHandled, TaskRaises, Put, LifecycleTypeOK
  <2> QED
    BY <1>25, <2>1 DEF EntitiesFit, LifecycleTypeOK, TaskRaises
<1>26. ASSUME NEW t \in Tasks, UpdateSaves(t) PROVE EntitiesFit'
  <2> DEFINE moved == [tasks[t] EXCEPT !.phase = "load", !.seen = {}, !.via = Found]
             d == tasks[t].device
  <2>1. /\ tasks[t] \in TaskRecords /\ tasks \in [Tasks -> TaskRecords]
        /\ tasks[t].seen \subseteq Devices /\ d \in Devices
    BY <1>26 DEF LifecycleTypeOK, TaskRecords, AwaitsFit, UpdateSaves
  <2>2. moved.device = d /\ moved.phase # "idle"
    BY <2>1 DEF TaskRecords
  <2>3. /\ doc' = tasks[t].seen \cup {d}
        /\ \/ tasks' = [tasks EXCEPT ![t] = moved] /\ astray' = astray \cup
              (tasks[t].seen \ doc)
           \/ /\ tasks' = [tasks EXCEPT ![t] = NoTask]
              /\ astray' = astray \cup (tasks[t].seen \ doc) \cup {d}
        /\ UNCHANGED <<plat, listed, entities>>
    BY <1>26, Zenon DEF UpdateSaves, Put, Written, BroughtBack
  <2> HIDE DEF moved, d
  <2>4. /\ \A e \in Devices : IsHandled(e) => IsHandled(e)' \/ e \in astray'
        /\ \A e \in Devices : e = d /\ e \notin astray' => IsHandled(e)'
    BY <2>1, <2>2, <2>3 DEF IsHandled, d
  <2>5. doc' \ astray' \subseteq (doc \ astray) \cup {d}
    BY <2>3
  <2>6. \A e \in doc' \ astray' : e \in Devices /\ (~IsHandled(e)' => e \in doc \ astray
        /\ ~IsHandled(e))
    BY <2>1, <2>3, <2>4, <2>5 DEF LifecycleTypeOK
  <2> QED
    BY <2>3, <2>6 DEF EntitiesFit
<1>27. ASSUME NEW t \in Tasks, SavesAndPushes(t) PROVE EntitiesFit'
  <2> DEFINE d == tasks[t].device
             g == tasks[t].via
  <2>1. d \in Devices /\ tasks[t].seen \subseteq Devices
    BY <1>27 DEF AwaitsFit, LifecycleTypeOK, SavesAndPushes
  <2>2. PICK new \in Pushed(g, d) : entities' = entities \cup new
    BY <1>27 DEF SavesAndPushes
  <2>3. /\ doc' = tasks[t].seen \cup {d}
        /\ astray' = astray \cup (tasks[t].seen \ doc)
                     \cup (IF g # NoSetup /\ g = Current THEN {} ELSE {d})
        /\ tasks' = [tasks EXCEPT ![t] = NoTask]
        /\ UNCHANGED <<plat, listed>>
    BY <1>27 DEF SavesAndPushes, Written, BroughtBack, Put
  <2>4. \A e \in Devices : IsHandled(e) => IsHandled(e)' \/ e = d
    BY <2>3 DEF IsHandled, LifecycleTypeOK
  <2>5. d \notin astray' => \A p \in Platforms :
           plat[p] \in {"read", "up"} => <<p, d>> \in entities'
    <3> SUFFICES ASSUME d \notin astray', NEW p \in Platforms, plat[p] \in {"read", "up"}
                 PROVE  <<p, d>> \in entities'
      OBVIOUS
    <3>1. g # NoSetup /\ g = Current /\ g = Own.coordinator
      BY <2>3 DEF Current
    <3>2. new = adders[g] \X {d}
      BY <2>2, <3>1 DEF Pushed
    <3>3. p \in adders[g]
      BY <3>1 DEF PlatformsFit
    <3> QED
      BY <2>2, <3>2, <3>3
  <2> HIDE DEF d, g
  <2> QED
    BY <2>1, <2>2, <2>3, <2>4, <2>5 DEF EntitiesFit, LifecycleTypeOK
<1> QED
  BY <1>1, <1>2, <1>3, <1>4, <1>5, <1>6, <1>7, <1>8, <1>9, <1>10, <1>11, <1>12, <1>13,
       <1>14, <1>15, <1>16, <1>17, <1>18, <1>19, <1>20, <1>21, <1>22, <1>23, <1>24,
       <1>25, <1>26, <1>27
  DEF LifecycleStep, Setup, Call

-------------------------------------------------------------------------------
(* The theorems.                                                           *)

\* The inductive invariant holds, for any calls, devices, platforms and setups.
THEOREM LifecycleInvariance == LifecycleSpec => []LifecycleInv
<1>1. LifecycleInit => LifecycleInv
  <2> SUFFICES ASSUME LifecycleInit PROVE LifecycleInv
    OBVIOUS
  <2>1. LifecycleTypeOK
    <3>1. NoTask \in TaskRecords
      BY DEF NoTask, TaskRecords, Phases
    <3>2. tasks \in [Tasks -> TaskRecords]
      BY <3>1 DEF LifecycleInit
    <3>3. NoData \in DataRecords
      BY DEF NoData, DataRecords
    <3>4. gen \in 0 .. MaxSetups /\ eid \in 0 .. MaxEntries
      BY LifecycleAssumption DEF LifecycleInit
    <3> QED
      BY <3>2, <3>3, <3>4 DEF LifecycleInit, LifecycleTypeOK, TaskRecords, DataRecords
  <2>2. AwaitsFit /\ DataFit /\ ServicesFit /\ SniffersFit
    BY DEF LifecycleInit, AwaitsFit, DataFit, ServicesFit, SniffersFit, SniffersAreOwned, IsUp,
       IsDown, EarlyAwaits, LateAwaits, NoTask
  <2>3. PlatformsFit /\ EntitiesFit
    BY DEF LifecycleInit, PlatformsFit, EntitiesFit
  <2> QED
    BY <2>1, <2>2, <2>3 DEF LifecycleInv
<1>2. LifecycleInv /\ [LifecycleStep]_lifecycleVars => LifecycleInv'
  BY TypeStep, AwaitsStep, DataStep, ServicesStep, SniffersStep, PlatformsStep, EntitiesStep
  DEF LifecycleInv
<1> QED
  BY <1>1, <1>2, PTL DEF LifecycleSpec

\* Whatever failed before, a loaded entry's sniffer shares the gate and the mirror of
\* its coordinator, and as long as no entry was removed without an unload, the service
\* and the handlers send through that gate too.
THEOREM OneGateProved == LifecycleSpec => []OneGate
<1>1. LifecycleInv => OneGate
  <2> SUFFICES ASSUME LifecycleInv, entry = "loaded" PROVE OneGate
    BY DEF OneGate
  <2>1. /\ ws /\ (deserted = {} => services = gen) /\ eid \in EntryIds
        /\ gen \in Setups /\ Own = [coordinator |-> gen, sniffer |-> gen]
    BY DEF LifecycleInv, AwaitsFit, ServicesFit, IsUp
  <2>2. gen # NoSetup /\ Own # NoData
    BY <2>1 DEF Setups, NoSetup, NoData
  <2>3. deserted = {} => Found = Own.coordinator
    BY <2>1, <2>2, FoundFits DEF LifecycleInv
  <2> QED
    BY <2>1, <2>2, <2>3 DEF OneGate
<1> QED
  BY <1>1, LifecycleInvariance, PTL

\* No sniffer but the entry's listens, unless its setup failed or it was removed
\* without an unload.
THEOREM SniffersAreOwnedProved == LifecycleSpec => []SniffersAreOwned
<1>1. LifecycleInv => SniffersAreOwned
  BY DEF LifecycleInv, SniffersFit
<1> QED
  BY <1>1, LifecycleInvariance, PTL

\* Across setups, unloads and restarts, with calls in flight anywhere, a stored
\* device has its entities unless it is known to have gone astray.
THEOREM StoredHaveEntitiesProved == LifecycleSpec => []StoredHaveEntities
<1>1. LifecycleInv => StoredHaveEntities
  <2>1. (\A t \in Tasks : tasks[t] = NoTask) => \A d \in doc : ~IsHandled(d)
    BY DEF IsHandled, NoTask
  <2> QED
    BY <2>1 DEF LifecycleInv, EntitiesFit, StoredHaveEntities
<1> QED
  BY <1>1, LifecycleInvariance, PTL

=================================================================================
