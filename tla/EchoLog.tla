-------------------------------- MODULE EchoLog ---------------------------------
(***************************************************************************)
(* The gate composed with what hears its transmissions: the mirror log     *)
(* (sniffer/mirror.py), which send writes before it asks for the gate's    *)
(* lock, and the front of the sniffer (sniffer/engine.py), which limits    *)
(* the captures of a receiver (sniffer/rate_limiter.py) and swallows those *)
(* that are echoes of a recent send.                                       *)
(*                                                                         *)
(* A send is logged with the command's own timings, not with those that   *)
(* prepare_for_transport makes of them, and a receiver reports what it     *)
(* heard: whether an echo matches its entry depends on the signal and on   *)
(* what was heard of it.  A remote may have keys with the same signals.    *)
(* Handling a capture is a task of its own, so captures are handled late   *)
(* and in any order.  The engine's first test, for repeats, reads a table  *)
(* that is never written: it drops nothing and is left out.                *)
(***************************************************************************)
EXTENDS TxGate, FiniteSets

CONSTANTS
  Signals,      \* the commands sent: their stored timings and their transport
  SentBy,       \* SentBy[e]: the signals that emitter e can send
  HeardAs,      \* HeardAs[x]: the timings receivers may report of signal x
  Receivers,    \* receivers the sniffer is subscribed to
  Ttl,          \* MIRROR_ECHO_TTL_S, in ticks
  Capacity,     \* SNIFER_CLUSTER_THRESHOLD: tokens of a full bucket
  Rate,         \* SNIFER_RATE_LIMIT_PER_S, in tokens a tick
  MaxCaptures,  \* bound on the captures
  MaxWaiting    \* bound on those whose handling has not begun

Buckets == [tokens : 0 .. Capacity, at : Nat]

ASSUME EchoAssumption ==
  /\ Signals \subseteq [timings : Seq(Int), transport : {"ir", "rf"}]
  /\ SentBy \in [Emitters -> SUBSET Signals]
  /\ HeardAs \in [Signals -> SUBSET Seq(Int)]
  /\ Ttl \in Nat /\ MaxCaptures \in Nat /\ MaxWaiting \in Nat
  /\ Capacity \in Nat \ {0} /\ Rate \in Nat \ {0}
  /\ None \notin Buckets

VARIABLES
  entries,   \* MirrorLog._entries
  called,    \* called[p]: the signal and the time of the call of send p is in, or None
  captures,  \* captures whose handling has not begun
  buckets,   \* RateLimiter._buckets, None where there is none yet
  passed,    \* the capture the latest step handed to the matcher, if it did, and when
  allowed,   \* history: when the limiter let captures of a receiver through
  heardN     \* captures so far

echoVars == <<entries, called, captures, buckets, passed, allowed, heardN>>
gateAndEchoVars == <<vars, echoVars>>

-------------------------------------------------------------------------------
Calls == [signal : Signals, at : Nat]

\* A capture: what was heard, the receiver, and for an echo the call of its send.
Captures == [timings : Seq(Int), by : Receivers, sent : Calls \cup {None}]

Passed == [of : Captures \cup {None}, at : Nat]

Nothing == [of |-> None, at |-> 0]

Entries == [n : Nat, signal : Signals, at : Nat, heardBy : SUBSET Receivers]

EchoTypeOK ==
  /\ entries \subseteq Entries
  /\ called \in [Senders -> Calls \cup {None}]
  /\ captures \subseteq Captures
  /\ \A r \in Receivers : buckets[r] = None \/ buckets[r] \in Buckets
  /\ passed \in Passed
  /\ allowed \in [Receivers -> Seq(Nat)]

EchoInit ==
  /\ Init
  /\ entries = {}
  /\ called = [p \in Senders |-> None]
  /\ captures = {}
  /\ buckets = [r \in Receivers |-> None]
  /\ passed = Nothing
  /\ allowed = [r \in Receivers |-> <<>>]
  /\ heardN = 0

-------------------------------------------------------------------------------
(* MirrorLog: a list that is only appended to and filtered, here the set   *)
(* of its entries, each with its number n in the order they were appended. *)

\* The entries that have not expired.
Unexpired == {e \in entries : e.at + Ttl >= now}

RecordSend(p, x) ==
  /\ entries' = Unexpired \cup {[n |-> sends + 1, signal |-> x, at |-> now, heardBy |-> {}]}
  /\ called' = [called EXCEPT ![p] = [signal |-> x, at |-> now]]

Magnitude(x) == IF x < 0 THEN -x ELSE x

\* _is_echo_of: infrared exactly as logged; radio of the same length and with at
\* most 35 % of the pulses more than 35 % off what was logged.
IsEchoOf(x, t) ==
  IF x.transport = "ir" THEN t = x.timings
  ELSE /\ Len(t) = Len(x.timings)
       /\ LET off == {i \in DOMAIN t : 100 * Magnitude(x.timings[i] - t[i])
                                          > 35 * Magnitude(x.timings[i])
                                        /\ x.timings[i] # 0}
          IN 100 * Cardinality(off) <= 35 * Len(t)

\* The entries among es that what was heard matches, and the one found first.
Matches(es, t) == {e \in es : IsEchoOf(e.signal, t)}
Oldest(es) == CHOOSE e \in es : \A f \in es : e.n <= f.n

\* Mutant: an entry is used up by the first echo of it.
ClaimedOnce(es, t, r) == es \ {Oldest(Matches(es, t))}

\* record_echo: the oldest matching entry notes the receiver, and stays.
Claimed(es, t, r) ==
  LET e == Oldest(Matches(es, t))
  IN (es \ {e}) \cup {[e EXCEPT !.heardBy = @ \cup {r}]}

-------------------------------------------------------------------------------
(* RateLimiter.                                                            *)

\* Mutant: a refill is not capped at the capacity.
RefilledPast(b) == [tokens |-> b.tokens + (now - b.at) * Rate, at |-> now]

Refilled(b) ==
  LET t == b.tokens + (now - b.at) * Rate
  IN [tokens |-> IF t > Capacity THEN Capacity ELSE t, at |-> now]

\* The bucket of r as try_consume finds it after its refill.
Bucket(r) == IF buckets[r] = None THEN [tokens |-> Capacity, at |-> now]
             ELSE Refilled(buckets[r])

-------------------------------------------------------------------------------
SendRecorded(p, e, x) ==
  /\ Send(p, e)
  /\ RecordSend(p, x)
  /\ passed' = Nothing
  /\ UNCHANGED <<captures, buckets, allowed, heardN>>

\* Receiver r hears a pulse, an echo of the call sent or a key of a remote.
Hear(t, r, sent) ==
  /\ heardN < MaxCaptures /\ Cardinality(captures) < MaxWaiting
  /\ [timings |-> t, by |-> r, sent |-> sent] \notin captures
  /\ captures' = captures \cup {[timings |-> t, by |-> r, sent |-> sent]}
  /\ heardN' = heardN + 1
  /\ passed' = Nothing
  /\ UNCHANGED <<vars, entries, called, buckets, allowed>>

HearEcho(p, r) ==
  at[p] = "sending" /\ \E t \in HeardAs[called[p].signal] : Hear(t, r, called[p])

HearPress(x, r) == \E t \in HeardAs[x] : Hear(t, r, None)

\* handle_capture up to its first suspension: limited, swallowed, or passed on
\* to the matcher.
Handle(c) ==
  /\ captures' = captures \ {c}
  /\ LET b == Bucket(c.by)
         through == b.tokens >= 1
         echo == Matches(Unexpired, c.timings) # {}
     IN /\ buckets' = [buckets EXCEPT ![c.by] =
                         IF through THEN [b EXCEPT !.tokens = @ - 1] ELSE b]
        /\ allowed' = IF through THEN [allowed EXCEPT ![c.by] = Append(@, now)]
                      ELSE allowed
        /\ entries' = IF ~through THEN entries
                      ELSE IF echo THEN Claimed(Unexpired, c.timings, c.by) ELSE Unexpired
        /\ passed' = IF through /\ ~echo THEN [of |-> c, at |-> now] ELSE Nothing
  /\ UNCHANGED <<vars, called, heardN>>

EchoIdle ==
  /\ passed' = Nothing
  /\ called' = [p \in Senders |-> IF at'[p] \in {"idle", "timed out"} THEN None ELSE called[p]]
  /\ UNCHANGED <<entries, captures, buckets, allowed, heardN>>

EchoNext ==
  \/ \E p \in Senders, e \in Emitters : \E x \in SentBy[e] : SendRecorded(p, e, x)
  \/ \E p \in Senders : Resumes(p) /\ EchoIdle
  \/ Tick /\ EchoIdle
  \/ \E p \in Senders, r \in Receivers : HearEcho(p, r)
  \/ \E x \in Signals, r \in Receivers : HearPress(x, r)
  \/ \E c \in captures : Handle(c)

EchoSpec == EchoInit /\ [][EchoNext]_gateAndEchoVars

\* The gate's fairness, whatever is heard meanwhile.
EchoFairSpec ==
  /\ EchoSpec
  /\ WF_gateAndEchoVars(Tick /\ EchoIdle)
  /\ \A p \in Senders : WF_gateAndEchoVars(Resumes(p) /\ EchoIdle)

-------------------------------------------------------------------------------
(* Safety.                                                                 *)

\* An echo reaches the matcher, which would count it as a press or mint a signal
\* of it, only when it was heard otherwise than its send logged it or is handled more
\* than Ttl after its send was called: the time a send spends in the gate's queue, on
\* the air and in the event loop counts, and every receiver's echo is claimed.
LeaksOnlyLate ==
  passed.of # None =>
    LET c == passed.of
    IN c.sent # None /\ IsEchoOf(c.sent.signal, c.timings) => passed.at > c.sent.at + Ttl

\* In any stretch of time the limiter lets no more captures of a receiver
\* through than a full bucket and what is refilled meanwhile.
BurstIsBounded ==
  \A r \in Receivers : \A i, j \in DOMAIN allowed[r] :
    i <= j => j - i + 1 <= Capacity + Rate * (allowed[r][j] - allowed[r][i])

===============================================================================
