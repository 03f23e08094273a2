----------------------------- MODULE TriggerEngine -----------------------------
(***************************************************************************)
(* domain/triggers/engine.py: the state machine that decides whether a     *)
(* capture of a known signal fires an action binding.                      *)
(*                                                                         *)
(* The environment is people pressing buttons.  Each receiver hears a      *)
(* press at most once and at most Dedup after it, and hands its capture to *)
(* the engine, which evaluates every binding.  Times are ages in ticks,    *)
(* cut off where no comparison of the code tells them apart.  Nothing in   *)
(* the integration calls the engine yet; it is modelled with the caller    *)
(* its interface asks for.                                                 *)
(***************************************************************************)
EXTENDS Naturals, FiniteSets

CONSTANTS
  Presses,    \* presses under way or remembered, ids used again when forgotten
  Signals,    \* known signals
  Receivers,  \* receivers, Nobody for a capture without a receiver
  Nobody,
  Bindings,   \* action bindings
  Binding,    \* Binding[b]: its signal, minHits, scope of receivers and enabled flag
  Window,     \* TRIGGER_HIT_RESET_WINDOW_S
  Dedup       \* MULTI_RECEIVER_DEDUP_WINDOW_S

BindingRecords ==
  [signal : Signals, minHits : Nat \ {0}, scope : SUBSET (Receivers \ {Nobody}),
   enabled : BOOLEAN]

ASSUME TriggerAssumption ==
  /\ IsFiniteSet(Presses)
  /\ Binding \in [Bindings -> BindingRecords]
  /\ Dedup \in Nat /\ Window \in Nat /\ Dedup < Window

Late == Window + 1
Ages == 0 .. Late

VARIABLES
  age,      \* age[p]: how long ago press p was made
  pressed,  \* pressed[p]: the signal of press p
  heard,    \* heard[p]: the receivers that have heard it, while others still may
  hits,     \* _hit_states: count, age of the first hit, fired
  memory,   \* _last_capture_per_signal: when and by whom
  decided,  \* the bindings that should fire, of the last evaluation
  counted,  \* history: counted[b][p], how long ago p was a hit of b, since b fired
  fires     \* history: how long ago b fired last, and the time before

triggerVars == <<age, pressed, heard, hits, memory, decided, counted, fires>>

NoMemory == [at |-> Late, by |-> Nobody]
NoHits   == [count |-> 0, first |-> Late, fired |-> FALSE]

TriggerTypeOK ==
  /\ age \in [Presses -> Ages] /\ pressed \in [Presses -> Signals]
  /\ heard \in [Presses -> SUBSET Receivers]
  /\ \A b \in Bindings : /\ hits[b].count \in Nat /\ hits[b].first \in Ages
                         /\ hits[b].fired \in BOOLEAN
  /\ memory \in [Signals -> [at : Ages, by : Receivers \cup {Nobody}]]
  /\ decided \subseteq Bindings
  /\ counted \in [Bindings -> [Presses -> Ages]]
  /\ fires \in [Bindings -> Ages \X Ages]

Forgotten == [p \in Presses |-> Late]

TriggerInit ==
  /\ age = Forgotten
  /\ pressed \in [Presses -> Signals]
  /\ heard = [p \in Presses |-> {}]
  /\ hits = [b \in Bindings |-> NoHits]
  /\ memory = [s \in Signals |-> NoMemory]
  /\ decided = {}
  /\ counted = [b \in Bindings |-> Forgotten]
  /\ fires = [b \in Bindings |-> <<Late, Late>>]

-------------------------------------------------------------------------------
(* The engine.                                                             *)

\* _receiver_matches
InScope(b, r) == Binding[b].scope = {} \/ r \in Binding[b].scope

\* Mutant: a second receiver's capture is a press of its own.
NeverSamePress(s, r) == FALSE

\* _is_same_physical_press
SamePress(s, r) ==
  /\ memory[s].at <= Dedup
  /\ memory[s].by # r

\* The guards of evaluate.  The bindings of one capture agree on the memory: the
\* first that counts it remembers the receiver it came from.
Counts(b, s, r) ==
  /\ Binding[b].enabled
  /\ Binding[b].signal = s
  /\ InScope(b, r)
  /\ ~SamePress(s, r)

\* record_hit: a chain lasts Window from its first hit.
RecordHit(h) ==
  IF h.first > Window \/ h.count = 0
  THEN [count |-> 1, first |-> 0, fired |-> FALSE]
  ELSE [h EXCEPT !.count = @ + 1]

\* Mutant: a chain fires at every hit from minHits on.
ShouldFireAgain(b, h) == h.count >= Binding[b].minHits

ShouldFire(b, h) == h.count >= Binding[b].minHits /\ ~h.fired

\* What counted is before a step: a fire has used up its hits.
Unused == [b \in Bindings |-> IF b \in decided THEN Forgotten ELSE counted[b]]

\* evaluate of every binding, for the capture of press p by receiver r
Capture(p, r) ==
  LET s == pressed[p]
      counting == {b \in Bindings : Counts(b, s, r)}
      hit == [b \in Bindings |-> IF b \in counting THEN RecordHit(hits[b]) ELSE hits[b]]
  IN /\ age[p] <= Dedup
     /\ r \notin heard[p]
     /\ heard' = [heard EXCEPT ![p] = @ \cup {r}]
     /\ decided' = {b \in counting : ShouldFire(b, hit[b])}
     /\ hits' = [b \in Bindings |-> [hit[b] EXCEPT !.fired = @ \/ b \in decided']]
     /\ memory' = IF counting = {} THEN memory
                  ELSE [memory EXCEPT ![s] = [at |-> 0, by |-> r]]
     /\ counted' = [b \in Bindings |-> IF b \in counting
                      THEN [Unused[b] EXCEPT ![p] = 0] ELSE Unused[b]]
     /\ fires' = [b \in Bindings |-> IF b \in decided'
                    THEN <<0, fires[b][1]>> ELSE fires[b]]
     /\ UNCHANGED <<age, pressed>>

\* reset
Reset ==
  /\ hits' = [b \in Bindings |-> NoHits]
  /\ memory' = [s \in Signals |-> NoMemory]
  /\ decided' = {}
  /\ counted' = [b \in Bindings |-> Forgotten]
  /\ fires' = [b \in Bindings |-> <<Late, Late>>]
  /\ UNCHANGED <<age, pressed, heard>>

\* reset_binding: the memory of the signal stays.
ResetBinding(b) ==
  /\ hits' = [hits EXCEPT ![b] = NoHits]
  /\ decided' = {}
  /\ counted' = [Unused EXCEPT ![b] = Forgotten]
  /\ fires' = [fires EXCEPT ![b] = <<Late, Late>>]
  /\ UNCHANGED <<age, pressed, heard, memory>>

-------------------------------------------------------------------------------
(* The environment.                                                        *)

\* Somebody presses a button.
Press(p) ==
  /\ age[p] = Late
  /\ \A b \in Bindings : Unused[b][p] = Late
  /\ age' = [age EXCEPT ![p] = 0]
  /\ \E s \in Signals : pressed' = [pressed EXCEPT ![p] = s]
  /\ heard' = [heard EXCEPT ![p] = {}]
  /\ decided' = {}
  /\ counted' = Unused
  /\ UNCHANGED <<hits, memory, fires>>

Older(a) == IF a = Late THEN Late ELSE a + 1

TriggerTick ==
  /\ age' = [p \in Presses |-> Older(age[p])]
  /\ hits' = [b \in Bindings |-> [hits[b] EXCEPT !.first = Older(@)]]
  /\ memory' = [s \in Signals |-> [memory[s] EXCEPT !.at = Older(@)]]
  /\ decided' = {}
  /\ counted' = [b \in Bindings |-> [p \in Presses |-> Older(Unused[b][p])]]
  /\ fires' = [b \in Bindings |-> <<Older(fires[b][1]), Older(fires[b][2])>>]
  /\ heard' = [p \in Presses |-> IF age[p] < Dedup THEN heard[p] ELSE {}]
  /\ UNCHANGED pressed

TriggerStep ==
  \/ \E p \in Presses : Press(p) \/ \E r \in Receivers : Capture(p, r)
  \/ Reset
  \/ \E b \in Bindings : ResetBinding(b)

TriggerSpec == TriggerInit /\ [][TriggerStep \/ TriggerTick]_triggerVars

-------------------------------------------------------------------------------
(* Correctness.                                                            *)

\* A binding fires on as many presses as it asks for, each made by hand once
\* however many receivers heard it, all within one window and none of them
\* already used by the fire before.
FiresOnFreshPresses ==
  \A b \in decided :
    Cardinality({p \in Presses : counted[b][p] <= Window}) >= Binding[b].minHits

\* Pressing on and on does not fire on and on: three fires of a binding take
\* longer than one window, and two if it asks for a single press.
FiresAreRare ==
  [][\A b \in decided' : /\ fires[b][2] > Window
                         /\ Binding[b].minHits = 1 => fires[b][1] > Window]_triggerVars

================================================================================
