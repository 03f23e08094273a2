---------------------------- MODULE MCLearnCommand -----------------------------
(* LearnCommand on a small instance: two commands, two learn handlers that  *)
(* may call again and again, one cancel handler, no listener.               *)
EXTENDS LearnCommand

CONSTANTS s1, s2, l1, l2, x1

MCSessions   == {s1, s2}
MCLearners   == {l1, l2}
MCCancellers == {x1}
MCCallers    == MCLearners \cup MCCancellers
MCListeners  == {}

===============================================================================
