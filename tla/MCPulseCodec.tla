------------------------------ MODULE MCPulseCodec ------------------------------
(* The packets that are heard: all of up to MaxBytes bytes of four values, which   *)
(* make ticks of one and of three bytes, zero ticks, gaps that are idle and gaps    *)
(* between the two thresholds for idle; and all of up to MaxTicks ticks of a short  *)
(* width, one that is idle, and one that does not fit 16 bits, so that four of      *)
(* these may lie inside a packet: their surplus digits make a whole Pronto word.    *)
EXTENDS PulseCodec

CONSTANTS MaxBytes, MaxTicks

Bytes == {0, 3, 20, 200}
PackedTick == {<<3>>, <<0, 3, 0>>, <<0, 20, 0>>}

MCBodies == UNION {[1 .. n -> Bytes] : n \in 1 .. MaxBytes}
            \cup UNION {{FlattenSeq(ticks) : ticks \in [1 .. n -> PackedTick]} : n \in 1 .. MaxTicks}
================================================================================
