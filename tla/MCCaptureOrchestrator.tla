------------------------- MODULE MCCaptureOrchestrator -------------------------
(* CaptureProviders on a small instance.                                   *)
EXTENDS CaptureProviders

CONSTANTS s1, s2, c1, c2, k1

MCSessions  == {s1, s2}
MCCallers   == {c1, c2}
MCListeners == {k1}

===============================================================================
