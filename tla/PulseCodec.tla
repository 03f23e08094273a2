------------------------------- MODULE PulseCodec -------------------------------
(***************************************************************************)
(* What becomes of a pulse between a capture and a replay: the packets of  *)
(* Broadlink receivers (domain/encoding/broadlink.py), the trim and the    *)
(* terminator at the transmit boundary (domain/encoding/timing.py,         *)
(* adapters/transmitters/base.py), Pronto hex (domain/encoding/pronto.py), *)
(* what each transmitter hands to its emitter (adapters/transmitters/),    *)
(* and the identity by which a capture is known again                      *)
(* (domain/identity/).                                                     *)
(*                                                                         *)
(* Timings are microseconds, marks positive and spaces negative, a buffer  *)
(* is a sequence of bytes, and Pronto hex a sequence of digits.  The code's *)
(* floats give the results of exact arithmetic here.                       *)
(***************************************************************************)
EXTENDS SpeedMapper, SequencesExt

CONSTANTS
  Bodies,          \* the packed ticks of the packets that are heard
  IdleTrim,        \* IDLE_TRIM_US
  TerminatorSpace, \* TERMINATOR_SPACE_US
  SlThreshold,     \* SL_THRESHOLD_US
  GapThreshold,    \* GAP_THRESHOLD_US
  HashBin          \* PRONTO_BYTE_HASH_BIN

ASSUME CodecAssumption ==
  /\ \A body \in Bodies : body \in Seq(0 .. 255) /\ Len(body) <= 65535
  /\ {IdleTrim, TerminatorSpace, SlThreshold, GapThreshold, HashBin} \subseteq Nat \ {0}

\* What const.py says of them: the idle that is dropped is no longer than the
\* terminator, which is a gap to the hash and fits 16 bits.
ASSUME ThresholdAssumption ==
  IdleTrim <= TerminatorSpace /\ GapThreshold <= TerminatorSpace /\ TerminatorSpace <= 65535

VARIABLES
  transport, \* of the command that was learned, if any
  learned,   \* raw_timings of its payload
  handed     \* what the emitter was handed last, and by which transmitter

codecVars == <<transport, learned, handed>>

Magnitude(t) == IF t < 0 THEN -t ELSE t

\* What is left of s when its ends are dropped up to the first and the last of the
\* positions kept.
Stripped(s, kept) == IF kept = {} THEN <<>> ELSE SubSeq(s, Min(kept), Max(kept))

Signed(widths) == [i \in DOMAIN widths |-> IF i % 2 = 1 THEN widths[i] ELSE -widths[i]]

-------------------------------------------------------------------------------
(* Broadlink packets.                                                      *)

\* The ticks of a buffer: a zero byte with two bytes after it escapes them.
Ticks(buffer) ==
  LET from[i \in 1 .. Len(buffer) + 1] ==
        IF i > Len(buffer) THEN <<>>
        ELSE IF buffer[i] = 0 /\ i + 2 <= Len(buffer)
        THEN <<256 * buffer[i + 1] + buffer[i + 2]>> \o from[i + 3]
        ELSE <<buffer[i]>> \o from[i + 1]
  IN from[1]

\* A packet: type, repeat count, length, the packed ticks, and what the device
\* fills it up with.
Packet(body, filler) ==
  <<38, 0, Len(body) % 256, Len(body) \div 256>> \o body \o filler

PackedTicks(packet) == SubSeq(packet, 5, 4 + packet[3] + 256 * packet[4])

\* broadlink_to_lirc
BroadlinkToLirc(buffer) ==
  [i \in DOMAIN Ticks(buffer) |-> RoundHalfToEven(Ticks(buffer)[i] * 8192, 269)]

\* decode_broadlink_ir_packet
DecodeIr(packet) == Signed(BroadlinkToLirc(PackedTicks(packet)))

\* decode_broadlink_rf_packet, BROADLINK_RF_TICK_US being 32.84
DecodeRf(packet) ==
  LET ticks == Ticks(PackedTicks(packet))
  IN Signed([i \in DOMAIN ticks |-> RoundHalfToEven(ticks[i] * 3284, 100)])

\* lirc_to_broadlink
LircToBroadlink(pulses) ==
  LET Tick(p) == Larger(0, RoundHalfToEven(p * 269, 8192))
      Packed(tick) == IF tick < 256 THEN <<tick>>
                      ELSE <<0, tick \div 256, tick % 256>>
  IN FlattenSeq([i \in DOMAIN pulses |-> Packed(Tick(pulses[i]))])

-------------------------------------------------------------------------------
(* The transmit boundary.                                                  *)

\* Mutant: idle is dropped wherever it is.
TrimIdleInside(t) == SelectSeq(t, LAMBDA x : Magnitude(x) <= IdleTrim)

\* trim_idle
TrimIdle(t) == Stripped(t, {i \in DOMAIN t : Magnitude(t[i]) <= IdleTrim})

\* apply_bounded_terminator
Terminated(t) ==
  IF t = <<>> THEN <<>>
  ELSE IF Last(t) >= 0 THEN Append(t, -TerminatorSpace)
  ELSE [t EXCEPT ![Len(t)] = Larger(@, -TerminatorSpace)]

\* prepare_timings
Prepared(t) == Terminated(TrimIdle(t))

-------------------------------------------------------------------------------
(* Pronto hex.                                                             *)

\* A word takes four digits, or more if it does not fit.
Hex(word) ==
  LET n == CHOOSE n \in 4 .. 6 : word < 16 ^ n /\ (n = 4 \/ word >= 16 ^ (n - 1))
  IN [i \in 1 .. n |-> (word \div 16 ^ (n - i)) % 16]

\* raw_timings_to_pronto_hex, which every caller calls without a frequency
ProntoHex(t) == FlattenSeq([i \in 1 .. 4 + Len(t) |->
                              IF i <= 4 THEN Hex(0) ELSE Hex(Magnitude(t[i - 4]))])

\* _pronto_words accepts them.
IsPronto(hex) == Len(hex) % 4 = 0

ProntoWords(hex) ==
  [i \in 1 .. Len(hex) \div 4 |->
     4096 * hex[4 * i - 3] + 256 * hex[4 * i - 2] + 16 * hex[4 * i - 1] + hex[4 * i]]

\* pronto_hex_to_raw_timings, of a frequency word of zero
ProntoTimings(hex) == Signed(SubSeq(ProntoWords(hex), 5, Len(hex) \div 4))

-------------------------------------------------------------------------------
(* Identity.                                                               *)

NoHash == <<>>

\* The widths of t, but for the zeros.
Widths(t) ==
  LET upTo[i \in 0 .. Len(t)] ==
        IF i = 0 THEN <<>>
        ELSE IF t[i] = 0 THEN upTo[i - 1]
        ELSE Append(upTo[i - 1], Magnitude(t[i]))
  IN upTo[Len(t)]

\* Mutant: the gaps at the ends stay.
SanitizedNot(t) == Widths(t)

\* _sanitize
Sanitized(t) == Stripped(Widths(t), {i \in DOMAIN Widths(t) : Widths(t)[i] < GapThreshold})

\* compute_byte_hash, but for the digest
ByteHash(t) ==
  LET s == Sanitized(t)
  IN IF Len(s) < 2 THEN NoHash
     ELSE [i \in DOMAIN s |-> HashBin * RoundHalfToEven(s[i], HashBin)]

\* extract_sl_pattern
SlPattern(t) ==
  LET gaps == {i \in DOMAIN t : Magnitude(t[i]) >= GapThreshold}
  IN [i \in 1 .. (IF gaps = {} THEN Len(t) ELSE Min(gaps)) |->
        IF i \in gaps THEN "G" ELSE IF Magnitude(t[i]) >= SlThreshold THEN "L" ELSE "S"]

\* match_tier of two captures no receiver has decoded; 0 is none
MatchTier(t, u) ==
  IF ByteHash(t) # NoHash /\ ByteHash(t) = ByteHash(u) THEN 2
  ELSE IF SlPattern(t) # <<>> /\ SlPattern(t) = SlPattern(u) THEN 3
  ELSE 0

-------------------------------------------------------------------------------
NotLearned == <<>>
Idle == [sender |-> "none", is |-> "nothing", value |-> <<>>]

CodecInit == transport = "none" /\ learned = NotLearned /\ handed = Idle

Learn ==
  /\ transport = "none"
  /\ \E body \in Bodies, filler \in {<<>>, <<0, 0>>} :
       \/ transport' = "ir" /\ learned' = DecodeIr(Packet(body, filler))
       \/ transport' = "rf" /\ learned' = DecodeRf(Packet(body, filler))
  /\ UNCHANGED handed

Hand(sender, is, value) ==
  /\ transport # "none"
  /\ handed' = [sender |-> sender, is |-> is, value |-> value]
  /\ UNCHANGED <<transport, learned>>

\* NativeIRTransmitter, NativeRFTransmitter and the RF transmitters of Broadlink
\* and ESPHome hand on the prepared timings.
SendTimings == Hand("timings", "timings", Prepared(learned))

\* ESPHomeIRTransmitter: Pronto hex, which raises if a word was too long.
SendPronto ==
  LET hex == ProntoHex(Prepared(learned))
  IN /\ transport = "ir"
     /\ IF IsPronto(hex) THEN Hand("pronto", "timings", ProntoTimings(hex))
        ELSE Hand("pronto", "refused", <<>>)

\* BroadlinkIRTransmitter: by way of Pronto hex, a buffer.
SendBuffer ==
  LET hex == ProntoHex(Prepared(learned))
  IN /\ transport = "ir"
     /\ IF IsPronto(hex) THEN Hand("broadlink", "buffer", LircToBroadlink(ProntoTimings(hex)))
        ELSE Hand("broadlink", "refused", <<>>)

CodecStep == Learn \/ SendTimings \/ SendPronto \/ SendBuffer

CodecSpec == CodecInit /\ [][CodecStep]_codecVars

-------------------------------------------------------------------------------
(* Correctness.                                                            *)

\* Marks and spaces take turns, none of them zero, from a mark that is not idle.
Alternates(t) ==
  /\ t # <<>> /\ Magnitude(t[1]) <= IdleTrim
  /\ \A i \in DOMAIN t : IF i % 2 = 1 THEN t[i] > 0 ELSE t[i] < 0

IsLong(x) == Magnitude(x) > 65535

\* The capture between the idle at its ends, without the space it ends on.
Signal(t) ==
  LET kept == {i \in DOMAIN t : Magnitude(t[i]) <= IdleTrim}
      ends == Max(kept)
  IN SubSeq(t, Min(kept), IF t[ends] < 0 THEN ends - 1 ELSE ends)

\* What Pronto hex can carry: the capture begins with a mark, as the signs are those
\* of the positions, and every gap inside it fits a word.
FitsPronto(t) ==
  Alternates(t) /\ \A i \in DOMAIN Signal(t) : ~IsLong(Signal(t)[i])

\* An emitter that is handed timings plays the marks and the spaces that were
\* captured, each as what it was, and ends on a space that fits 16 bits, whichever
\* way the pulse took, if it fits there.  Nothing but a gap of more than 16 bits is
\* refused.
PlaysWhatWasLearned ==
  /\ handed.is = "timings" /\ handed.value # <<>>
     /\ (handed.sender = "pronto" => FitsPronto(learned)) =>
       /\ Front(handed.value) = Signal(learned)
       /\ Last(handed.value) < 0 /\ ~IsLong(Last(handed.value))
  /\ handed.is = "refused" => \E i \in DOMAIN learned : IsLong(learned[i])

\* What is played is known again by the sniffer: it has the byte hash of what was
\* learned, though the idle and the terminator differ, unless an end was idle for less
\* than GAP_THRESHOLD_US, which the trim drops and the hash keeps.
ReplayIsRecognised ==
  handed.is = "timings" /\ (handed.sender = "pronto" => FitsPronto(learned))
  /\ Len(Sanitized(learned)) >= 2
  /\ (\A i \in DOMAIN learned : Magnitude(learned[i]) \notin IdleTrim + 1 .. GapThreshold - 1)
    => MatchTier(learned, handed.value) = 2

\* What is packed for a Broadlink emitter unpacks to the widths that were prepared,
\* within a tick: broadlink_to_lirc is documented as the inverse.
BufferUnpacks ==
  handed.is = "buffer" /\ Alternates(learned) =>
    LET packed == Prepared(learned)
        unpacked == BroadlinkToLirc(handed.value)
    IN /\ Len(unpacked) = Len(packed)
       /\ \A i \in DOMAIN packed : Distance(unpacked[i], Magnitude(packed[i])) <= 31

================================================================================
