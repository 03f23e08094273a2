------------------------------- MODULE MCEchoLog -------------------------------
(* EchoLog on a small instance: one sender, so that the ledger keeps what is *)
(* said of it, and one receiver.  An infrared signal is heard as it is stored *)
(* or with the terminator that prepare_for_transport adds; a radio signal    *)
(* with one of its three pulses wrong.                                       *)
EXTENDS EchoLog

CONSTANTS p1, e1, e2, r1

MCSenders   == {p1}
MCEmitters  == {e1, e2}
MCReceivers == {r1}

Infrared == [timings |-> <<90, -45>>, transport |-> "ir"]
Radio    == [timings |-> <<20, -20, 40>>, transport |-> "rf"]

MCSignals == {Infrared, Radio}
MCSentBy  == [e \in MCEmitters |-> IF e = e1 THEN {Infrared} ELSE {Radio}]
MCHeardAs == [x \in MCSignals |->
                IF x = Infrared THEN {<<90, -45>>, <<90, -45, 200>>}
                ELSE {<<20, -28, 45>>}]

\* The test of an echo at its boundaries: a pulse 35 % off counts as heard right,
\* and so does a third of the pulses wrong; a logged pulse of no length is not
\* compared; a radio signal of another length and an infrared one that differs at
\* all are none.
ASSUME EchoBoundaries ==
  /\ IsEchoOf(Radio, <<27, -13, 54>>)
  /\ IsEchoOf(Radio, <<28, -13, 54>>)
  /\ ~IsEchoOf(Radio, <<28, -12, 54>>)
  /\ ~IsEchoOf(Radio, <<20, -20>>)
  /\ IsEchoOf([timings |-> <<0, 20>>, transport |-> "rf"], <<9, 20>>)
  /\ ~IsEchoOf([timings |-> <<0, 20>>, transport |-> "rf"], <<9, 29>>)
  /\ ~IsEchoOf(Infrared, <<90, -46>>)

===============================================================================
