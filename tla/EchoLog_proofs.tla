----------------------------- MODULE EchoLog_proofs -----------------------------
(***************************************************************************)
(* The gate and what hears its transmissions, for any senders, emitters,   *)
(* receivers, gaps and rates.                                              *)
(*                                                                         *)
(* The gate: no send times out while the timeout covers the gaps, the      *)
(* ledger never goes back, and one sender at a time keeps every pair of    *)
(* emitters apart.  The rate limiter: every token spent is one that the    *)
(* bucket held or was refilled with since.  The mirror log: an echo leaks  *)
(* only when it is handled after its entry expired.                        *)
(***************************************************************************)
EXTENDS EchoLog, SequenceTheorems, WellFoundedInduction, TLAPS

\* The timeout covers the two gaps, as the defaults do.
GapsFit == RepeatGap <= Timeout /\ StaggerGap <= Timeout

-------------------------------------------------------------------------------
(* The ledger.                                                             *)

\* A gap since a past time is at most the gap, and over when it is waited for.
LEMMA GapUntilFacts ==
  ASSUME NEW last \in Times, NEW t \in Nat, NEW gap \in Nat,
         last # None => last <= t
  PROVE  /\ GapUntil(last, t, gap) \in Nat
         /\ GapUntil(last, t, gap) <= gap
         /\ \A u \in Nat : u >= t + GapUntil(last, t, gap) => GapUntil(last, u, gap) = 0
BY TxGateAssumption DEF GapUntil, Times

\* So is the wait of a send, which is at most the longer gap.
LEMMA WaitForFacts ==
  ASSUME TypeOK, LedgerInPast, NEW e \in Emitters
  PROVE  /\ WaitFor(e, now) \in Nat
         /\ WaitFor(e, now) <= RepeatGap \/ WaitFor(e, now) <= StaggerGap
         /\ \A u \in Nat : u >= now + WaitFor(e, now) =>
              /\ GapUntil(lastBy[e], u, RepeatGap) = 0
              /\ ~IsLatest(e) => GapUntil(lastAll, u, StaggerGap) = 0
<1> DEFINE own == GapUntil(lastBy[e], now, RepeatGap)
           all == GapUntil(lastAll, now, StaggerGap)
<1>1. /\ now \in Nat /\ lastBy[e] \in Times /\ lastAll \in Times
      /\ lastBy[e] # None => lastBy[e] <= now
      /\ lastAll # None => lastAll <= now
  BY DEF TypeOK, LedgerInPast
<1>2. /\ own \in Nat /\ own <= RepeatGap
      /\ \A u \in Nat : u >= now + own => GapUntil(lastBy[e], u, RepeatGap) = 0
  BY <1>1, GapUntilFacts, TxGateAssumption
<1>3. /\ all \in Nat /\ all <= StaggerGap
      /\ \A u \in Nat : u >= now + all => GapUntil(lastAll, u, StaggerGap) = 0
  BY <1>1, GapUntilFacts, TxGateAssumption
<1>4. CASE IsLatest(e)
  <2>1. WaitFor(e, now) = IF own > 0 THEN own ELSE 0
    BY <1>4 DEF WaitFor
  <2> HIDE DEF own
  <2>2. WaitFor(e, now) = own
    BY <1>2, <2>1
  <2> QED
    BY <1>2, <1>4, <2>2
<1>5. CASE ~IsLatest(e)
  <2>1. WaitFor(e, now) = IF own > all THEN own ELSE all
    BY <1>5 DEF WaitFor
  <2> HIDE DEF own, all
  <2> QED
    BY <1>1, <1>2, <1>3, <1>5, <2>1, TxGateAssumption
<1> QED
  BY <1>4, <1>5

-------------------------------------------------------------------------------
(* No send times out.                                                      *)

\* The initial state satisfies GateInv.
LEMMA InitGateInv == Init => GateInv
BY TxGateAssumption
   DEF Init, GateInv, TypeOK, LedgerInPast, SleepIsLongEnough, NeverTimesOut, Places, Times

\* A round of _enforce_stagger under the lock preserves GateInv: the deadline
\* is at least as far away as the longest wait.
LEMMA EnforceGateInv ==
  ASSUME GapsFit, GateInv, NEW p \in Senders, NEW e \in Emitters, NEW d \in Nat,
         Enforce(p, e, d),
         holder \in {None, p},
         now + WaitFor(e, now) <= d,
         emitter' = [emitter EXCEPT ![p] = e],
         queue' \in Seq(Senders), sends' \in Nat,
         UNCHANGED <<now, stamp, lastBy, lastAll>>
  PROVE  GateInv'
<1>1. TypeOK /\ LedgerInPast /\ now \in Nat
  BY DEF GateInv, TypeOK
<1> DEFINE w == WaitFor(e, now)
<1>2. /\ w \in Nat /\ now + w <= d
      /\ \A u \in Nat : u >= now + w =>
           /\ GapUntil(lastBy[e], u, RepeatGap) = 0
           /\ ~IsLatest(e) => GapUntil(lastAll, u, StaggerGap) = 0
  BY <1>1, WaitForFacts
<1>3. /\ at' = [at EXCEPT ![p] = IF w = 0 THEN "sending"
                                ELSE IF now + w > d THEN "timed out" ELSE "sleeping"]
      /\ holder' = IF at'[p] = "sleeping" THEN p ELSE None
      /\ wake' = [wake EXCEPT ![p] = IF at'[p] = "sleeping" THEN now + w ELSE 0]
      /\ limit' = [limit EXCEPT ![p] = IF at'[p] = "sleeping" THEN d ELSE 0]
  BY DEF Enforce
<1> HIDE DEF w
<1>4. /\ at'[p] = IF w = 0 THEN "sending" ELSE "sleeping"
      /\ \A q \in Senders \ {p} : at'[q] = at[q] /\ at[q] # "sleeping"
      /\ at' \in [Senders -> Places]
  <2>1. at \in [Senders -> Places]
    BY <1>1 DEF TypeOK
  <2>2. ~(now + w > d)
    BY <1>1, <1>2
  <2>3. at'[p] = IF w = 0 THEN "sending" ELSE "sleeping"
    BY <1>3, <2>1, <2>2
  <2>4. \A q \in Senders \ {p} : at'[q] = at[q]
    BY <1>3, <2>1
  <2>5. \A q \in Senders \ {p} : at[q] # "sleeping"
    BY TxGateAssumption DEF GateInv, SleepIsLongEnough
  <2>6. at' \in [Senders -> Places]
    BY <1>3, <2>1 DEF Places
  <2> QED
    BY <2>3, <2>4, <2>5, <2>6
<1>5. holder' = (IF w = 0 THEN None ELSE p) /\ wake'[p] = IF w = 0 THEN 0 ELSE now + w
  BY <1>1, <1>3, <1>4 DEF TypeOK
<1>6. TypeOK'
  <2>1. wake' \in [Senders -> Nat] /\ limit' \in [Senders -> Nat]
    <3>1. /\ (IF at'[p] = "sleeping" THEN now + w ELSE 0) \in Nat
          /\ (IF at'[p] = "sleeping" THEN d ELSE 0) \in Nat
      BY <1>1, <1>2
    <3>2. wake \in [Senders -> Nat] /\ limit \in [Senders -> Nat]
      BY <1>1 DEF TypeOK
    <3> QED
      BY <1>3, <3>1, <3>2
  <2>2. emitter' \in [Senders -> Emitters \cup {None}]
    BY <1>1 DEF TypeOK
  <2> QED
    BY <1>1, <1>4, <1>5, <2>1, <2>2 DEF TypeOK
<1>7. LedgerInPast'
  BY <1>1 DEF LedgerInPast
<1>8. emitter'[p] = e /\ \A q \in Senders \ {p} : emitter'[q] = emitter[q]
  BY <1>1 DEF TypeOK
<1>9. SleepIsLongEnough'
  <2> SUFFICES ASSUME NEW q \in Senders, at'[q] = "sleeping"
               PROVE  /\ holder' = q
                      /\ GapUntil(lastBy[emitter'[q]], wake'[q], RepeatGap) = 0
                      /\ ~IsLatest(emitter'[q])
                           => GapUntil(lastAll, wake'[q], StaggerGap) = 0
    BY DEF SleepIsLongEnough, IsLatest, GapUntil
  <2>1. q = p /\ w # 0
    BY <1>4
  <2> QED
    BY <1>1, <1>2, <1>5, <1>8, <2>1
<1>10. NeverTimesOut'
  BY <1>4 DEF GateInv, NeverTimesOut
<1> QED
  BY <1>4, <1>6, <1>7, <1>8, <1>9, <1>10 DEF GateInv

\* Writing the ledger preserves GateInv: nobody sleeps while the lock is free.
LEMMA WriteGateInv ==
  ASSUME GateInv, NEW p \in Senders, NEW t \in Nat, t <= now,
         at[p] \in {"sending", "recording"},
         Write(emitter[p], t),
         holder = None,
         at' = [at EXCEPT ![p] = "idle"],
         queue' \in Seq(Senders),
         stamp' \in [Senders -> Nat], \A q \in Senders : stamp'[q] <= now,
         UNCHANGED <<now, emitter, holder, wake, limit, sends>>
  PROVE  GateInv'
<1>1. /\ emitter[p] \in Emitters
      /\ \A q \in Senders : at[q] # "sleeping"
      /\ TypeOK /\ LedgerInPast
  BY TxGateAssumption DEF GateInv, SleepIsLongEnough
<1>2. /\ at'[p] = "idle" /\ \A q \in Senders \ {p} : at'[q] = at[q]
      /\ at' \in [Senders -> Places]
  BY <1>1 DEF TypeOK, Places
<1>3. lastBy' \in [Emitters -> Times] /\ lastAll' \in Times
  BY <1>1 DEF Write, TypeOK, Times
<1>4. TypeOK'
  BY <1>1, <1>2, <1>3 DEF TypeOK
<1>5. LedgerInPast'
  BY <1>1, TxGateAssumption DEF LedgerInPast, Write, TypeOK
<1> QED
  BY <1>1, <1>2, <1>4, <1>5 DEF GateInv, SleepIsLongEnough, NeverTimesOut

\* Every step preserves GateInv.
LEMMA NextGateInv == ASSUME GapsFit PROVE GateInv /\ [Next]_vars => GateInv'
<1> SUFFICES ASSUME GateInv, [Next]_vars PROVE GateInv'
  OBVIOUS
<1>0. TypeOK /\ LedgerInPast /\ now \in Nat /\ queue \in Seq(Senders)
  BY DEF GateInv, TypeOK
<1>a. \A e \in Emitters : now + WaitFor(e, now) <= now + Timeout /\ now + Timeout \in Nat
  BY <1>0, WaitForFacts, TxGateAssumption DEF GapsFit
<1>1. ASSUME NEW p \in Senders, NEW e \in Emitters, Send(p, e) PROVE GateInv'
  <2>1. CASE LockIsFree
    <3>1. /\ Enforce(p, e, now + Timeout)
          /\ UNCHANGED <<queue, now, stamp, lastBy, lastAll>>
          /\ emitter' = [emitter EXCEPT ![p] = e] /\ sends' = sends + 1
      BY <1>1, <2>1 DEF Send
    <3>2. holder = None /\ sends' \in Nat
      BY <1>0, <2>1, <3>1 DEF LockIsFree, TypeOK
    <3> QED
      BY <1>0, <1>a, <3>1, <3>2, EnforceGateInv
  <2>2. CASE ~LockIsFree
    <3>1. /\ queue' = Append(queue, p) /\ at' = [at EXCEPT ![p] = "queued"]
          /\ emitter' = [emitter EXCEPT ![p] = e] /\ sends' = sends + 1
          /\ UNCHANGED <<now, stamp, lastBy, lastAll, holder, wake, limit>>
          /\ at[p] \in {"idle", "timed out"}
      BY <1>1, <2>2 DEF Send
    <3>2. queue' \in Seq(Senders)
      BY <1>0, <3>1, AppendProperties
    <3>3. /\ at \in [Senders -> Places] /\ emitter \in [Senders -> Emitters \cup {None}]
          /\ at'[p] = "queued" /\ emitter'[p] = e
          /\ \A q \in Senders \ {p} : at'[q] = at[q] /\ emitter'[q] = emitter[q]
      BY <1>0, <3>1 DEF TypeOK
    <3>4. at' \in [Senders -> Places] /\ emitter' \in [Senders -> Emitters \cup {None}]
      BY <3>1, <3>3 DEF Places
    <3>5. TypeOK'
      <4>1. sends' \in Nat
        <5>1. sends \in Nat
          BY <1>0 DEF TypeOK
        <5>2. sends' = sends + 1
          BY <3>1
        <5> QED
          BY <5>1, <5>2
      <4>2. UNCHANGED <<now, stamp, lastBy, lastAll, holder, wake, limit>>
        BY <3>1
      <4> QED
        BY <1>0, <3>2, <3>4, <4>1, <4>2 DEF TypeOK
    <3>6. LedgerInPast'
      BY <1>0, <3>1 DEF LedgerInPast
    <3> QED
      BY <3>1, <3>3, <3>5, <3>6
         DEF GateInv, SleepIsLongEnough, NeverTimesOut, GapUntil, IsLatest
  <2> QED
    BY <2>1, <2>2
<1>2. ASSUME NEW p \in Senders, EnterGate(p) PROVE GateInv'
  <2>1. /\ Enforce(p, emitter[p], now + Timeout) /\ holder = None
        /\ queue # <<>> /\ queue' = Tail(queue)
        /\ emitter[p] \in Emitters
        /\ UNCHANGED <<now, emitter, stamp, lastBy, lastAll, sends>>
    BY <1>2 DEF EnterGate, IsNext, GateInv
  <2>2. emitter' = [emitter EXCEPT ![p] = emitter[p]] /\ sends' \in Nat
    BY <1>0, <2>1 DEF TypeOK
  <2>3. queue' \in Seq(Senders)
    BY <1>0, <2>1
  <2> QED
    BY <1>0, <1>a, <2>1, <2>2, <2>3, EnforceGateInv
<1>3. ASSUME NEW p \in Senders, Wake(p) PROVE GateInv'
  <2>1. /\ Enforce(p, emitter[p], limit[p]) /\ holder = p
        /\ emitter[p] \in Emitters
        /\ UNCHANGED <<now, emitter, queue, stamp, lastBy, lastAll, sends>>
        /\ now >= wake[p] /\ wake[p] \in Nat /\ limit[p] \in Nat
    BY <1>0, <1>3 DEF Wake, GateInv, SleepIsLongEnough, TypeOK
  <2>2. /\ GapUntil(lastBy[emitter[p]], now, RepeatGap) = 0
        /\ ~IsLatest(emitter[p]) => GapUntil(lastAll, now, StaggerGap) = 0
    <3>1. /\ GapUntil(lastBy[emitter[p]], wake[p], RepeatGap) = 0
          /\ ~IsLatest(emitter[p]) => GapUntil(lastAll, wake[p], StaggerGap) = 0
      BY <1>3 DEF Wake, GateInv, SleepIsLongEnough
    <3>2. lastBy[emitter[p]] \in Times /\ lastAll \in Times
      BY <1>0, <2>1 DEF TypeOK
    <3> QED
      BY <1>0, <2>1, <3>1, <3>2, TxGateAssumption, SMTT(30) DEF GapUntil, Times
  <2>3. WaitFor(emitter[p], now) = 0
    BY <2>2 DEF WaitFor
  <2>4. /\ at' = [at EXCEPT ![p] = "sending"] /\ holder' = None
        /\ wake' = [wake EXCEPT ![p] = 0] /\ limit' = [limit EXCEPT ![p] = 0]
    BY <1>0, <2>1, <2>3 DEF Enforce, TypeOK
  <2>5. \A q \in Senders \ {p} : at[q] # "sleeping"
    BY <2>1 DEF GateInv, SleepIsLongEnough
  <2>6. TypeOK'
    BY <1>0, <2>1, <2>4 DEF TypeOK, Places
  <2> QED
    BY <1>0, <2>1, <2>4, <2>5, <2>6
       DEF GateInv, TypeOK, LedgerInPast, SleepIsLongEnough, NeverTimesOut
<1>4. ASSUME NEW p \in Senders, Transmitted(p) PROVE GateInv'
  <2>1. CASE LockIsFree
    <3>1. /\ Write(emitter[p], now) /\ at' = [at EXCEPT ![p] = "idle"]
          /\ UNCHANGED <<now, emitter, holder, wake, limit, sends>>
          /\ UNCHANGED <<queue, stamp>>
          /\ at[p] \in {"sending", "recording"}
      BY <1>4, <2>1 DEF Transmitted
    <3>2. holder = None /\ now <= now
      BY <1>0, <2>1 DEF LockIsFree
    <3>3. /\ queue' \in Seq(Senders) /\ stamp' \in [Senders -> Nat]
          /\ \A q \in Senders : stamp'[q] <= now
      BY <1>0, <3>1 DEF TypeOK, LedgerInPast
    <3> QED
      BY <1>0, <3>1, <3>2, <3>3, WriteGateInv
  <2>2. CASE ~LockIsFree
    <3>1. /\ queue' = Append(queue, p) /\ at' = [at EXCEPT ![p] = "recording"]
          /\ stamp' = [stamp EXCEPT ![p] = now]
          /\ UNCHANGED <<lastBy, lastAll, now, emitter, holder, wake, limit, sends>>
          /\ at[p] = "sending"
      BY <1>4, <2>2 DEF Transmitted
    <3>2. queue' \in Seq(Senders)
      BY <1>0, <3>1, AppendProperties
    <3>3. /\ at \in [Senders -> Places] /\ stamp \in [Senders -> Nat]
          /\ at'[p] = "recording" /\ stamp'[p] = now
          /\ \A q \in Senders \ {p} : at'[q] = at[q] /\ stamp'[q] = stamp[q]
      BY <1>0, <3>1 DEF TypeOK
    <3>4. at' \in [Senders -> Places] /\ stamp' \in [Senders -> Nat]
      BY <1>0, <3>1, <3>3 DEF Places
    <3>5. TypeOK' /\ LedgerInPast'
      BY <1>0, <3>1, <3>2, <3>3, <3>4 DEF TypeOK, LedgerInPast
    <3> QED
      BY <3>1, <3>3, <3>5
         DEF GateInv, SleepIsLongEnough, NeverTimesOut, GapUntil, IsLatest
  <2> QED
    BY <2>1, <2>2
<1>5. ASSUME NEW p \in Senders, TransmissionRaises(p) PROVE GateInv'
  <2>1. TypeOK'
    BY <1>0, <1>5 DEF TransmissionRaises, TypeOK, Places
  <2> QED
    BY <1>0, <1>5, <2>1
       DEF TransmissionRaises, GateInv, TypeOK, LedgerInPast, SleepIsLongEnough,
           NeverTimesOut, GapUntil, IsLatest
<1>6. ASSUME NEW p \in Senders, Record(p) PROVE GateInv'
  <2>1. queue' \in Seq(Senders) /\ holder = None
    BY <1>0, <1>6 DEF Record, IsNext
  <2>2. stamp[p] \in Nat /\ stamp[p] <= now
    BY <1>0 DEF TypeOK, LedgerInPast
  <2>3. stamp' \in [Senders -> Nat] /\ \A q \in Senders : stamp'[q] <= now
    BY <1>0, <1>6 DEF Record, TypeOK, LedgerInPast
  <2> QED
    BY <1>6, <2>1, <2>2, <2>3, WriteGateInv DEF Record
<1>7. CASE Tick
  <2>1. TypeOK' /\ LedgerInPast'
    BY <1>0, <1>7, TxGateAssumption DEF Tick, TypeOK, LedgerInPast, Times
  <2> QED
    BY <1>7, <2>1 DEF Tick, GateInv, SleepIsLongEnough, NeverTimesOut, GapUntil, IsLatest
<1>8. CASE UNCHANGED vars
  BY <1>8 DEF vars, GateInv, TypeOK, LedgerInPast, SleepIsLongEnough, NeverTimesOut,
              GapUntil, IsLatest
<1> QED
  BY <1>1, <1>2, <1>3, <1>4, <1>5, <1>6, <1>7, <1>8 DEF Next, Resumes

\* GateInv holds in every reachable state, if the timeout covers the gaps.
THEOREM GateInvariance == ASSUME GapsFit PROVE Spec => []GateInv
BY InitGateInv, NextGateInv, PTL DEF Spec

\* No send times out, however many senders queue for the gate.
THEOREM NoSendTimesOut == ASSUME GapsFit PROVE Spec => []NeverTimesOut
<1>1. GateInv => NeverTimesOut
  BY DEF GateInv
<1> QED
  BY <1>1, GateInvariance, PTL


-------------------------------------------------------------------------------
(* One sender at a time.                                                   *)

\* A send that need not wait finds the air clear of every emitter's last send:
\* either it follows its own, which was far enough from the others, or the latest
\* of all is far enough away.
LEMMA NoWaitIsClear ==
  ASSUME TypeOK, LedgerInPast, SequentialInv, NEW e \in Emitters, WaitFor(e, now) = 0
  PROVE  ClearFor(e)
<1>1. /\ now \in Nat /\ lastAll \in Times /\ \A f \in Emitters : lastBy[f] \in Times
      /\ lastAll # None => lastAll <= now
      /\ \A f \in Emitters : lastBy[f] # None => lastBy[f] <= now
  BY DEF TypeOK, LedgerInPast
<1> DEFINE own == GapUntil(lastBy[e], now, RepeatGap)
           all == GapUntil(lastAll, now, StaggerGap)
<1>2. own \in Nat /\ all \in Nat
  BY <1>1, GapUntilFacts, TxGateAssumption
<1>3. own = 0
  <2>1. WaitFor(e, now) = LET any == IF IsLatest(e) THEN 0 ELSE all
                          IN IF own > any THEN own ELSE any
    BY DEF WaitFor
  <2> HIDE DEF own, all
  <2> QED
    BY <1>2, <2>1
<1>4. ASSUME ~IsLatest(e) PROVE all = 0
  <2>1. WaitFor(e, now) = IF own > all THEN own ELSE all
    BY <1>4 DEF WaitFor
  <2> HIDE DEF own, all
  <2> QED
    BY <1>2, <2>1
<1>5. lastBy[e] # None => now - lastBy[e] >= RepeatGap
  BY <1>1, <1>3, TxGateAssumption DEF GapUntil, Times
<1>6. ASSUME NEW f \in Emitters, f # e, lastBy[f] # None
      PROVE  now - lastBy[f] >= StaggerGap
  <2>1. /\ lastAll \in Nat /\ lastBy[f] \in Nat /\ lastBy[f] <= lastAll
    BY <1>1, <1>6 DEF SequentialInv, Times
  <2>2. CASE IsLatest(e)
    <3>1. lastBy[e] \in Nat /\ lastBy[e] >= lastAll /\ lastBy[e] <= now
      BY <1>1, <2>2 DEF IsLatest, Times
    <3>2. lastBy[e] + StaggerGap <= lastBy[f] \/ lastBy[f] + StaggerGap <= lastBy[e]
      BY <1>6, <2>2 DEF SequentialInv, LedgerIsSpaced, IsLatest
    <3> QED
      BY <1>1, <2>1, <3>1, <3>2, TxGateAssumption
  <2>3. CASE ~IsLatest(e)
    <3>1. now - lastAll >= StaggerGap
      BY <1>1, <1>4, <2>1, <2>3, TxGateAssumption DEF GapUntil
    <3> QED
      BY <1>1, <2>1, <3>1, TxGateAssumption
  <2> QED
    BY <2>2, <2>3
<1> QED
  BY <1>5, <1>6 DEF ClearFor

\* A round of _enforce_stagger of the only sender goes on the air only when it is
\* clear, and preserves SequentialInv.
LEMMA EnforceSequential ==
  ASSUME NEW p, Senders = {p}, TypeOK, LedgerInPast, SequentialInv,
         NEW e \in Emitters, NEW d \in Nat, Enforce(p, e, d),
         emitter'[p] = e, queue' = <<>>,
         UNCHANGED <<now, lastBy, lastAll>>
  PROVE  SequentialInv' /\ (at'[p] = "sending" => ClearFor(e))
<1> DEFINE w == WaitFor(e, now)
<1>1. /\ at' = [at EXCEPT ![p] = IF w = 0 THEN "sending"
                                ELSE IF now + w > d THEN "timed out" ELSE "sleeping"]
      /\ holder' = IF at'[p] = "sleeping" THEN p ELSE None
  BY DEF Enforce
<1> HIDE DEF w
<1>2. at'[p] = IF w = 0 THEN "sending"
               ELSE IF now + w > d THEN "timed out" ELSE "sleeping"
  BY <1>1 DEF TypeOK
<1>3. at'[p] = "sending" => ClearFor(e)
  BY <1>2, NoWaitIsClear DEF w
<1>4. holder' # None => at'[holder'] = "sleeping"
  BY <1>1
<1>5. \A q \in Senders : at'[q] = "sending" => ClearFor(emitter[q])'
  BY <1>3 DEF ClearFor
<1>6. LedgerIsSpaced'
  BY DEF SequentialInv, LedgerIsSpaced
<1> QED
  BY <1>3, <1>4, <1>5, <1>6 DEF SequentialInv

\* With one sender, every step preserves SequentialInv and puts a send on the air
\* only when it is clear of every emitter's last one.
LEMMA NextSequential ==
  ASSUME NEW p, Senders = {p}, GateInv, SequentialInv, [Next]_vars
  PROVE  SequentialInv' /\ (KeysUp(p) => ClearFor(emitter'[p]))
<1>0. /\ TypeOK /\ LedgerInPast /\ now \in Nat /\ now + Timeout \in Nat
      /\ lastAll \in Times /\ \A f \in Emitters : lastBy[f] \in Times
      /\ at \in [Senders -> Places] /\ queue = <<>> /\ p \in Senders /\ limit[p] \in Nat
  <2>1. p \in Senders
    OBVIOUS
  <2>2. TypeOK /\ LedgerInPast /\ queue = <<>>
    BY DEF GateInv, SequentialInv
  <2>3. now \in Nat /\ now + Timeout \in Nat
    BY <2>2, TxGateAssumption DEF TypeOK
  <2> QED
    BY <2>1, <2>2, <2>3 DEF TypeOK
<1>a. at[p] # "sleeping" => LockIsFree
  <2>1. holder \in Senders \cup {None} /\ (holder # None => at[holder] = "sleeping")
    BY <1>0 DEF TypeOK, SequentialInv
  <2> QED
    BY <1>0, <2>1 DEF LockIsFree
<1>1. ASSUME NEW e \in Emitters, Send(p, e)
      PROVE  SequentialInv' /\ (KeysUp(p) => ClearFor(emitter'[p]))
  <2>1. LockIsFree
    BY <1>1, <1>a DEF Send
  <2>2. /\ Enforce(p, e, now + Timeout) /\ UNCHANGED queue
        /\ emitter' = [emitter EXCEPT ![p] = e]
        /\ UNCHANGED <<now, lastBy, lastAll>>
    BY <1>1, <2>1 DEF Send
  <2>3. emitter'[p] = e /\ queue' = <<>>
    BY <1>0, <2>2 DEF TypeOK
  <2> QED
    BY <1>0, <2>2, <2>3, EnforceSequential DEF KeysUp
<1>2. ASSUME Wake(p) PROVE SequentialInv' /\ (KeysUp(p) => ClearFor(emitter'[p]))
  <2>1. /\ Enforce(p, emitter[p], limit[p]) /\ queue' = <<>>
        /\ UNCHANGED <<now, lastBy, lastAll>> /\ emitter' = emitter
        /\ emitter[p] \in Emitters
    BY <1>0, <1>2 DEF Wake, GateInv
  <2> QED
    BY <1>0, <2>1, EnforceSequential DEF KeysUp
<1>3. ASSUME Transmitted(p) PROVE SequentialInv' /\ (KeysUp(p) => ClearFor(emitter'[p]))
  <2>1. LockIsFree
    BY <1>3, <1>a DEF Transmitted
  <2>2. /\ Write(emitter[p], now) /\ at' = [at EXCEPT ![p] = "idle"]
        /\ at[p] = "sending" /\ emitter[p] \in Emitters
        /\ UNCHANGED <<queue, now, emitter, holder>>
    BY <1>0, <1>3, <2>1 DEF Transmitted, GateInv
  <2>3. at'[p] = "idle" /\ holder = None
    BY <1>0, <2>1, <2>2 DEF LockIsFree
  <2>4. ClearFor(emitter[p])
    BY <1>0, <2>2 DEF SequentialInv
  <2>5. /\ lastAll' = now /\ lastBy'[emitter[p]] = now
        /\ \A f \in Emitters \ {emitter[p]} : lastBy'[f] = lastBy[f]
    BY <1>0, <2>2 DEF Write, TypeOK
  <2>6. LedgerIsSpaced'
    <3> SUFFICES ASSUME NEW e \in Emitters, NEW f \in Emitters, e # f,
                        lastBy'[e] # None, lastBy'[f] # None
                 PROVE  \/ lastBy'[e] + StaggerGap <= lastBy'[f]
                        \/ lastBy'[f] + StaggerGap <= lastBy'[e]
      BY DEF LedgerIsSpaced
    <3>1. CASE e = emitter[p]
      BY <1>0, <2>4, <2>5, <3>1, TxGateAssumption DEF ClearFor, Times
    <3>2. CASE f = emitter[p]
      BY <1>0, <2>4, <2>5, <3>2, TxGateAssumption DEF ClearFor, Times
    <3>3. CASE e # emitter[p] /\ f # emitter[p]
      BY <2>5, <3>3 DEF SequentialInv, LedgerIsSpaced
    <3> QED
      BY <3>1, <3>2, <3>3
  <2>7. \A f \in Emitters : lastBy'[f] # None => lastAll' # None /\ lastBy'[f] <= lastAll'
    BY <1>0, <2>5, TxGateAssumption DEF LedgerInPast
  <2> QED
    BY <1>0, <2>2, <2>3, <2>6, <2>7 DEF SequentialInv, KeysUp
<1>4. ASSUME TransmissionRaises(p)
      PROVE  SequentialInv' /\ (KeysUp(p) => ClearFor(emitter'[p]))
  <2>1. /\ at' = [at EXCEPT ![p] = "idle"] /\ at[p] = "sending"
        /\ UNCHANGED <<queue, now, emitter, holder, lastBy, lastAll>>
    BY <1>4 DEF TransmissionRaises
  <2>2. at'[p] = "idle" /\ holder = None
    BY <1>0, <1>a, <2>1 DEF LockIsFree
  <2>3. LedgerIsSpaced'
    BY <2>1 DEF SequentialInv, LedgerIsSpaced
  <2> QED
    BY <1>0, <2>1, <2>2, <2>3 DEF SequentialInv, KeysUp
<1>5. ~EnterGate(p) /\ ~Record(p)
  BY <1>0 DEF EnterGate, Record, IsNext
<1>6. CASE Tick
  <2>1. now' = now + 1 /\ UNCHANGED <<at, emitter, holder, queue, lastBy, lastAll>>
    BY <1>6 DEF Tick
  <2>2. \A e : ClearFor(e) => ClearFor(e)'
    BY <1>0, <2>1, TxGateAssumption DEF ClearFor, Times
  <2>3. LedgerIsSpaced'
    BY <2>1 DEF SequentialInv, LedgerIsSpaced
  <2>4. \A q \in Senders : at'[q] = "sending" => ClearFor(emitter[q])'
    BY <2>1, <2>2, ZenonT(60) DEF SequentialInv, ClearFor
  <2> QED
    BY <2>1, <2>3, <2>4 DEF SequentialInv, KeysUp
<1>7. CASE UNCHANGED vars
  BY <1>7 DEF vars, SequentialInv, LedgerIsSpaced, ClearFor, KeysUp
<1> QED
  BY <1>1, <1>2, <1>3, <1>4, <1>5, <1>6, <1>7 DEF Next, Resumes

\* While sends come one after the other, every transmission begins clear of the
\* last send of every emitter: the docstring of _enforce_stagger holds.
THEOREM OneSenderKeepsEmittersApart ==
  ASSUME GapsFit, NEW only, Senders = {only} PROVE Spec => StaggeredInLedger
<1> DEFINE Clear == \A p \in Senders : KeysUp(p) =>
                      \A e \in Emitters :
                        lastBy[e] # None =>
                          now - lastBy[e]
                            >= IF e = emitter'[p] THEN RepeatGap ELSE StaggerGap
<1>1. Init => SequentialInv
  BY DEF Init, SequentialInv, LedgerIsSpaced
<1>2. GateInv /\ SequentialInv /\ [Next]_vars => SequentialInv'
  BY NextSequential
<1>3. GateInv /\ SequentialInv /\ [Next]_vars => [Clear]_vars
  BY NextSequential DEF ClearFor
<1>4. Spec => []GateInv
  BY GateInvariance
<1>5. StaggeredInLedger <=> [][Clear]_vars
  BY DEF StaggeredInLedger
<1> HIDE DEF Clear
<1> QED
  BY <1>1, <1>2, <1>3, <1>4, <1>5, PTL DEF Spec

-------------------------------------------------------------------------------
(* The ledger never goes back.                                             *)

\* Whoever waits for the lock is in the queue once, and those who wait to write
\* the ledger stand in the order of their stamps, none before what is written.
QueueOrder ==
  /\ \A i \in 1 .. Len(queue) : at[queue[i]] \in {"queued", "recording"}
  /\ \A i, j \in 1 .. Len(queue) : i < j =>
       /\ queue[i] # queue[j]
       /\ at[queue[i]] = "recording" /\ at[queue[j]] = "recording"
            => stamp[queue[i]] <= stamp[queue[j]]
  /\ \A i \in 1 .. Len(queue) :
       at[queue[i]] = "recording" /\ lastAll # None => lastAll <= stamp[queue[i]]

\* The last send of an emitter is no later than the last of all.
LedgerOrder == \A e \in Emitters : lastBy[e] # None => lastAll # None /\ lastBy[e] <= lastAll

\* The invariant behind LedgerIsMonotone.
LedgerInv ==
  /\ TypeOK
  /\ LedgerInPast
  /\ \A p \in Senders : at[p] \notin {"idle", "timed out"} => emitter[p] \in Emitters
  /\ QueueOrder
  /\ LedgerOrder

\* A round of _enforce_stagger moves only the sender it is for.
LEMMA EnforceMoves ==
  ASSUME TypeOK, LedgerInPast, NEW p \in Senders, NEW e \in Emitters, NEW d \in Nat,
         Enforce(p, e, d)
  PROVE  /\ at' \in [Senders -> Places] /\ holder' \in Senders \cup {None}
         /\ wake' \in [Senders -> Nat] /\ limit' \in [Senders -> Nat]
         /\ at'[p] \in {"sending", "timed out", "sleeping"}
         /\ \A q \in Senders \ {p} : at'[q] = at[q]
<1> DEFINE w == WaitFor(e, now)
           x == IF w = 0 THEN "sending" ELSE IF now + w > d THEN "timed out" ELSE "sleeping"
<1>1. /\ at' = [at EXCEPT ![p] = x]
      /\ holder' = IF at'[p] = "sleeping" THEN p ELSE None
      /\ wake' = [wake EXCEPT ![p] = IF at'[p] = "sleeping" THEN now + w ELSE 0]
      /\ limit' = [limit EXCEPT ![p] = IF at'[p] = "sleeping" THEN d ELSE 0]
  BY DEF Enforce
<1>2. x \in {"sending", "timed out", "sleeping"} /\ now + w \in Nat
  BY WaitForFacts DEF TypeOK
<1>3. /\ at \in [Senders -> Places] /\ wake \in [Senders -> Nat]
      /\ limit \in [Senders -> Nat]
  BY DEF TypeOK
<1> HIDE DEF w, x
<1>4. at' \in [Senders -> Places]
  BY ONLY <1>1, <1>2, <1>3 DEF Places
<1>5. at'[p] = x /\ \A q \in Senders \ {p} : at'[q] = at[q]
  BY ONLY <1>1, <1>3
<1>6. holder' \in Senders \cup {None}
  BY <1>1
<1>7. wake' \in [Senders -> Nat] /\ limit' \in [Senders -> Nat]
  <2>1. /\ (IF at'[p] = "sleeping" THEN now + w ELSE 0) \in Nat
        /\ (IF at'[p] = "sleeping" THEN d ELSE 0) \in Nat
    BY <1>2
  <2> QED
    BY ONLY <1>1, <1>3, <2>1
<1> QED
  BY <1>2, <1>4, <1>5, <1>6, <1>7

\* A sender that is not in the queue, or leaves it from the head, disturbs the
\* others nowhere.
LEMMA AsideKeepsOrder ==
  ASSUME TypeOK, QueueOrder, NEW p \in Senders,
         \/ queue' = queue /\ at[p] \notin {"queued", "recording"}
         \/ queue # <<>> /\ Head(queue) = p /\ queue' = Tail(queue),
         \A q \in Senders \ {p} : at'[q] = at[q] /\ stamp'[q] = stamp[q],
         \A q \in Senders \ {p} :
           (\E i \in 1 .. Len(queue) : queue[i] = q) /\ at[q] = "recording" /\ lastAll' # None
             => lastAll' <= stamp[q]
  PROVE  queue' \in Seq(Senders) /\ QueueOrder'
<1>1. queue \in Seq(Senders) /\ Len(queue) \in Nat
  BY DEF TypeOK
<1>2. \A i \in 1 .. Len(queue) : queue[i] \in Senders
  BY <1>1
<1>3. PICK k \in {0, 1} :
        /\ queue' \in Seq(Senders) /\ Len(queue') = Len(queue) - k
        /\ \A i \in 1 .. Len(queue') : /\ i + k \in 1 .. Len(queue)
                                       /\ queue'[i] = queue[i + k]
                                       /\ queue'[i] # p
  <2>1. CASE queue' = queue /\ at[p] \notin {"queued", "recording"}
    <3>1. \A i \in 1 .. Len(queue) : queue[i] # p
      BY <2>1 DEF QueueOrder
    <3>2. /\ queue' \in Seq(Senders) /\ Len(queue') = Len(queue) - 0
          /\ \A i \in 1 .. Len(queue') : /\ i + 0 \in 1 .. Len(queue)
                                         /\ queue'[i] = queue[i + 0]
                                         /\ queue'[i] # p
      BY ONLY <1>1, <2>1, <3>1
    <3> QED
      BY <3>2
  <2>2. CASE queue # <<>> /\ Head(queue) = p /\ queue' = Tail(queue)
    <3>1. /\ queue' \in Seq(Senders) /\ Len(queue') = Len(queue) - 1
          /\ \A i \in 1 .. Len(queue') : queue'[i] = queue[i + 1]
      BY ONLY <1>1, <2>2, HeadTailProperties
    <3>2. queue[1] = p /\ Len(queue) \in Nat \ {0}
      BY ONLY <1>1, <2>2, EmptySeq
    <3>3. \A i \in 1 .. Len(queue') : i + 1 \in 1 .. Len(queue) /\ 1 < i + 1
                                      /\ 1 \in 1 .. Len(queue)
      BY ONLY <3>1, <3>2
    <3>4. \A i \in 1 .. Len(queue') : queue[1] # queue[i + 1]
      BY <3>3 DEF QueueOrder
    <3> QED
      BY <3>1, <3>2, <3>3, <3>4
  <2> QED
    BY <2>1, <2>2
<1>4. \A i \in 1 .. Len(queue') :
        /\ i + k \in 1 .. Len(queue) /\ queue'[i] = queue[i + k]
        /\ at'[queue'[i]] = at[queue[i + k]] /\ stamp'[queue'[i]] = stamp[queue[i + k]]
  BY <1>2, <1>3
<1>5. \A i \in 1 .. Len(queue') : at'[queue'[i]] \in {"queued", "recording"}
  BY <1>4 DEF QueueOrder
<1>6. ASSUME NEW i \in 1 .. Len(queue'), NEW j \in 1 .. Len(queue'), i < j
      PROVE  /\ queue'[i] # queue'[j]
             /\ at'[queue'[i]] = "recording" /\ at'[queue'[j]] = "recording"
                  => stamp'[queue'[i]] <= stamp'[queue'[j]]
  <2>1. i + k < j + k /\ i + k \in 1 .. Len(queue) /\ j + k \in 1 .. Len(queue)
    BY <1>3, <1>6
  <2>2. /\ queue[i + k] # queue[j + k]
        /\ at[queue[i + k]] = "recording" /\ at[queue[j + k]] = "recording"
             => stamp[queue[i + k]] <= stamp[queue[j + k]]
    BY <2>1 DEF QueueOrder
  <2> QED
    BY ONLY <1>4, <2>2
<1>7. ASSUME NEW i \in 1 .. Len(queue'), at'[queue'[i]] = "recording", lastAll' # None
      PROVE  lastAll' <= stamp'[queue'[i]]
  <2>1. queue'[i] \in Senders \ {p} /\ queue[i + k] = queue'[i]
    BY <1>2, <1>3
  <2> QED
    BY <1>4, <1>7, <2>1
<1> QED
  BY <1>3, <1>5, <1>6, <1>7 DEF QueueOrder

\* A sender that joins the queue joins it at its end, and its stamp is the latest.
LEMMA JoiningKeepsOrder ==
  ASSUME TypeOK, LedgerInPast, QueueOrder, NEW p \in Senders,
         at[p] \notin {"queued", "recording"}, queue' = Append(queue, p),
         at'[p] = "queued" \/ (at'[p] = "recording" /\ stamp'[p] = now),
         \A q \in Senders \ {p} : at'[q] = at[q] /\ stamp'[q] = stamp[q],
         lastAll' = lastAll
  PROVE  queue' \in Seq(Senders) /\ QueueOrder'
<1>1. queue \in Seq(Senders) /\ Len(queue) \in Nat
  BY DEF TypeOK
<1>2. /\ queue' \in Seq(Senders) /\ Len(queue') = Len(queue) + 1
      /\ \A i \in 1 .. Len(queue) : queue'[i] = queue[i]
      /\ queue'[Len(queue) + 1] = p
  BY ONLY <1>1, queue' = Append(queue, p), p \in Senders, AppendProperties
<1>3. \A i \in 1 .. Len(queue) :
        /\ queue[i] \in Senders \ {p} /\ queue'[i] = queue[i]
        /\ at'[queue'[i]] = at[queue[i]] /\ stamp'[queue'[i]] = stamp[queue[i]]
        /\ stamp[queue[i]] <= now
  <2>1. \A i \in 1 .. Len(queue) : queue[i] \in Senders /\ queue[i] # p
    BY <1>1 DEF QueueOrder
  <2> QED
    BY <1>2, <2>1 DEF LedgerInPast
<1>4. ASSUME NEW i \in 1 .. Len(queue')
      PROVE  i \in 1 .. Len(queue) \/ i = Len(queue) + 1
  BY ONLY <1>1, <1>2, <1>4
<1>5. \A i \in 1 .. Len(queue') : at'[queue'[i]] \in {"queued", "recording"}
  BY <1>2, <1>3, <1>4 DEF QueueOrder
<1>6. ASSUME NEW i \in 1 .. Len(queue'), NEW j \in 1 .. Len(queue'), i < j
      PROVE  /\ queue'[i] # queue'[j]
             /\ at'[queue'[i]] = "recording" /\ at'[queue'[j]] = "recording"
                  => stamp'[queue'[i]] <= stamp'[queue'[j]]
  <2>1. i \in 1 .. Len(queue)
    BY ONLY <1>1, <1>2, <1>6
  <2>2. CASE j = Len(queue) + 1
    <3>1. at'[p] = "recording" => stamp'[p] = now
      OBVIOUS
    <3> QED
      BY ONLY <1>2, <1>3, <2>1, <2>2, <3>1
  <2>3. CASE j \in 1 .. Len(queue)
    BY <1>3, <1>6, <2>1, <2>3 DEF QueueOrder
  <2> QED
    BY <1>4, <2>2, <2>3
<1>7. ASSUME NEW i \in 1 .. Len(queue'), at'[queue'[i]] = "recording", lastAll' # None
      PROVE  lastAll' <= stamp'[queue'[i]]
  BY <1>2, <1>3, <1>4, <1>7 DEF QueueOrder, LedgerInPast
<1> QED
  BY <1>2, <1>5, <1>6, <1>7 DEF QueueOrder

\* The initial state satisfies LedgerInv.
LEMMA InitLedgerInv == Init => LedgerInv
<1> SUFFICES ASSUME Init PROVE LedgerInv
  OBVIOUS
<1>1. TypeOK /\ LedgerInPast
  BY InitGateInv DEF GateInv
<1>2. Len(queue) = 0
  BY EmptySeq DEF Init
<1> QED
  BY <1>1, <1>2 DEF Init, LedgerInv, QueueOrder, LedgerOrder

\* A send that begins, gets the lock or wakes leaves the ledger alone, and those
\* who wait to write it in their order.
LEMMA GateKeepsLedger ==
  ASSUME LedgerInv, NEW p \in Senders, NEW e \in Emitters, NEW d \in Nat,
         Enforce(p, e, d),
         \/ queue' = queue /\ at[p] \notin {"queued", "recording"}
         \/ queue # <<>> /\ Head(queue) = p /\ queue' = Tail(queue),
         emitter' = [emitter EXCEPT ![p] = e], sends' \in Nat,
         UNCHANGED <<now, stamp, lastBy, lastAll>>
  PROVE  LedgerInv'
<1>0. TypeOK /\ LedgerInPast /\ QueueOrder /\ LedgerOrder
  BY DEF LedgerInv
<1>1. /\ at' \in [Senders -> Places] /\ holder' \in Senders \cup {None}
      /\ wake' \in [Senders -> Nat] /\ limit' \in [Senders -> Nat]
      /\ \A q \in Senders \ {p} : at'[q] = at[q]
  BY <1>0, EnforceMoves
<1>2. queue' \in Seq(Senders) /\ QueueOrder'
  <2>1. ASSUME NEW q \in Senders, \E i \in 1 .. Len(queue) : queue[i] = q,
               at[q] = "recording", lastAll' # None
        PROVE  lastAll' <= stamp[q]
    BY <1>0, <2>1 DEF QueueOrder
  <2> QED
    BY <1>0, <1>1, <2>1, AsideKeepsOrder
<1>3. /\ emitter' \in [Senders -> Emitters \cup {None}]
      /\ emitter'[p] = e /\ \A q \in Senders \ {p} : emitter'[q] = emitter[q]
  BY <1>0 DEF TypeOK
<1>4. TypeOK'
  <2>1. UNCHANGED <<now, stamp, lastBy, lastAll>>
    OBVIOUS
  <2> QED
    BY <1>0, <1>1, <1>2, <1>3, <2>1 DEF TypeOK
<1>5. LedgerInPast' /\ LedgerOrder'
  BY <1>0 DEF LedgerInPast, LedgerOrder
<1> QED
  BY <1>1, <1>2, <1>3, <1>4, <1>5 DEF LedgerInv

\* The ledger is written with a time that is no earlier than the last.
LEMMA WriteKeepsLedger ==
  ASSUME LedgerInv, NEW p \in Senders, NEW t \in Nat, t <= now,
         at[p] \in {"sending", "recording"}, Write(emitter[p], t),
         lastAll # None => lastAll <= t,
         \/ queue' = queue /\ queue = <<>>
         \/ queue # <<>> /\ Head(queue) = p /\ queue' = Tail(queue),
         \A i \in 1 .. Len(queue) : at[queue[i]] = "recording" => t <= stamp[queue[i]],
         at' = [at EXCEPT ![p] = "idle"],
         stamp' \in {stamp, [stamp EXCEPT ![p] = 0]},
         UNCHANGED <<now, emitter, holder, wake, limit, sends>>
  PROVE  LedgerInv' /\ lastAll' = t
<1>0. /\ TypeOK /\ LedgerInPast /\ QueueOrder /\ LedgerOrder
      /\ emitter[p] \in Emitters /\ now \in Nat
  BY DEF LedgerInv, TypeOK
<1>1. /\ lastAll' = t /\ lastBy'[emitter[p]] = t
      /\ \A e \in Emitters \ {emitter[p]} : lastBy'[e] = lastBy[e]
      /\ lastBy' \in [Emitters -> Times] /\ lastAll' \in Times
  BY <1>0 DEF Write, TypeOK, Times
<1>2. /\ at' \in [Senders -> Places] /\ at'[p] = "idle"
      /\ \A q \in Senders \ {p} : at'[q] = at[q]
  BY <1>0 DEF TypeOK, Places
<1>3. /\ stamp' \in [Senders -> Nat]
      /\ \A q \in Senders \ {p} : stamp'[q] = stamp[q]
      /\ stamp'[p] \in {0, stamp[p]}
  <2>1. stamp \in [Senders -> Nat]
    BY <1>0 DEF TypeOK
  <2>2. stamp' = stamp \/ stamp' = [stamp EXCEPT ![p] = 0]
    OBVIOUS
  <2> QED
    BY ONLY <2>1, <2>2
<1>4. queue' \in Seq(Senders) /\ QueueOrder'
  <2>1. CASE queue' = queue /\ queue = <<>>
    <3>1. Len(queue') = 0 /\ queue' \in Seq(Senders)
      BY <2>1, EmptySeq
    <3> QED
      BY ONLY <3>1 DEF QueueOrder
  <2>2. CASE queue # <<>> /\ Head(queue) = p /\ queue' = Tail(queue)
    <3>1. \A q \in Senders \ {p} :
            (\E i \in 1 .. Len(queue) : queue[i] = q) /\ at[q] = "recording" /\ lastAll' # None
              => lastAll' <= stamp[q]
      BY <1>1
    <3> QED
      BY <1>0, <1>2, <1>3, <2>2, <3>1, AsideKeepsOrder
  <2> QED
    BY <2>1, <2>2
<1>5. TypeOK'
  <2>1. UNCHANGED <<now, emitter, holder, wake, limit, sends>>
    OBVIOUS
  <2> QED
    BY <1>0, <1>1, <1>2, <1>3, <1>4, <2>1 DEF TypeOK
<1>6. LedgerInPast'
  <2>1. \A q \in Senders : stamp'[q] <= now
    BY <1>0, <1>3 DEF LedgerInPast, TypeOK
  <2>2. \A e \in Emitters : lastBy'[e] # None => lastBy'[e] <= now
    BY <1>0, <1>1 DEF LedgerInPast
  <2> QED
    BY <1>1, <2>1, <2>2 DEF LedgerInPast
<1>7. LedgerOrder'
  <2>1. t # None
    BY TxGateAssumption
  <2>2. ASSUME NEW e \in Emitters, lastBy'[e] # None
        PROVE  lastBy'[e] <= t
    <3>1. CASE e = emitter[p]
      BY <1>1, <3>1
    <3>2. CASE e # emitter[p]
      <4>1. lastBy'[e] = lastBy[e] /\ lastAll # None /\ lastBy[e] <= lastAll
        BY <1>0, <1>1, <2>2, <3>2 DEF LedgerOrder
      <4>2. lastAll \in Nat /\ lastBy[e] \in Nat
        BY <1>0, <2>2, <4>1 DEF TypeOK, Times
      <4> QED
        BY <4>1, <4>2
    <3> QED
      BY <3>1, <3>2
  <2> QED
    BY <1>1, <2>1, <2>2 DEF LedgerOrder
<1> QED
  BY <1>0, <1>1, <1>2, <1>4, <1>5, <1>6, <1>7 DEF LedgerInv

\* A sender that joins the queue, to send or to write its stamp.
LEMMA JoiningKeepsLedger ==
  ASSUME LedgerInv, NEW p \in Senders, NEW e \in Emitters,
         at[p] \notin {"queued", "recording"}, queue' = Append(queue, p),
         \/ at' = [at EXCEPT ![p] = "queued"] /\ stamp' = stamp
         \/ at' = [at EXCEPT ![p] = "recording"] /\ stamp' = [stamp EXCEPT ![p] = now],
         emitter' = [emitter EXCEPT ![p] = e], sends' \in Nat,
         UNCHANGED <<now, holder, wake, limit, lastBy, lastAll>>
  PROVE  LedgerInv'
<1>0. TypeOK /\ LedgerInPast /\ QueueOrder /\ LedgerOrder /\ now \in Nat
  BY DEF LedgerInv, TypeOK
<1>1. /\ at' \in [Senders -> Places] /\ stamp' \in [Senders -> Nat]
      /\ at'[p] = "queued" \/ (at'[p] = "recording" /\ stamp'[p] = now)
      /\ \A q \in Senders \ {p} : at'[q] = at[q] /\ stamp'[q] = stamp[q]
      /\ \A q \in Senders : stamp'[q] <= now
  <2>1. at \in [Senders -> Places] /\ stamp \in [Senders -> Nat] /\ {"queued", "recording"} \in SUBSET Places
    BY <1>0 DEF TypeOK, Places
  <2>2. \A q \in Senders : stamp[q] <= now
    BY <1>0 DEF LedgerInPast
  <2>3. \/ at' = [at EXCEPT ![p] = "queued"] /\ stamp' = stamp
        \/ at' = [at EXCEPT ![p] = "recording"] /\ stamp' = [stamp EXCEPT ![p] = now]
    OBVIOUS
  <2>4. now \in Nat
    BY <1>0
  <2> QED
    BY ONLY <2>1, <2>2, <2>3, <2>4
<1>2. queue' \in Seq(Senders) /\ QueueOrder'
  BY <1>0, <1>1, JoiningKeepsOrder
<1>3. /\ emitter' \in [Senders -> Emitters \cup {None}]
      /\ emitter'[p] = e /\ \A q \in Senders \ {p} : emitter'[q] = emitter[q]
  BY <1>0 DEF TypeOK
<1>4. TypeOK'
  <2>1. UNCHANGED <<now, holder, wake, limit, lastBy, lastAll>>
    OBVIOUS
  <2> QED
    BY <1>0, <1>1, <1>2, <1>3, <2>1 DEF TypeOK
<1>5. LedgerInPast' /\ LedgerOrder'
  BY <1>0, <1>1 DEF LedgerInPast, LedgerOrder
<1> QED
  BY <1>1, <1>2, <1>3, <1>4, <1>5 DEF LedgerInv

\* Every step preserves LedgerInv, and the last send of all only moves on.
LEMMA NextLedgerInv ==
  ASSUME LedgerInv, [Next]_vars
  PROVE  LedgerInv' /\ (lastAll # None => lastAll' # None /\ lastAll' >= lastAll)
<1>0. /\ TypeOK /\ LedgerInPast /\ QueueOrder /\ LedgerOrder
      /\ now \in Nat /\ now + Timeout \in Nat /\ queue \in Seq(Senders)
      /\ lastAll \in Times /\ sends \in Nat
      /\ lastAll # None => lastAll <= now /\ lastAll \in Nat
  <2>1. TypeOK /\ LedgerInPast /\ QueueOrder /\ LedgerOrder
    BY DEF LedgerInv
  <2> QED
    BY <2>1, TxGateAssumption DEF TypeOK, LedgerInPast, Times
<1>1. ASSUME NEW p \in Senders, NEW e \in Emitters, Send(p, e)
      PROVE  LedgerInv' /\ lastAll' = lastAll
  <2>1. /\ emitter' = [emitter EXCEPT ![p] = e] /\ at[p] \notin {"queued", "recording"}
        /\ UNCHANGED <<now, stamp, lastBy, lastAll>>
    BY <1>1 DEF Send
  <2>2. sends' \in Nat
    <3>1. sends' = sends + 1
      BY <1>1 DEF Send
    <3> QED
      BY <1>0, <3>1
  <2>3. CASE LockIsFree
    <3>1. Enforce(p, e, now + Timeout) /\ queue' = queue
      BY <1>1, <2>3 DEF Send
    <3> QED
      BY <1>0, <2>1, <2>2, <3>1, GateKeepsLedger
  <2>4. CASE ~LockIsFree
    <3>1. /\ queue' = Append(queue, p) /\ at' = [at EXCEPT ![p] = "queued"]
          /\ UNCHANGED <<holder, wake, limit>>
      BY <1>1, <2>4 DEF Send
    <3> QED
      BY <2>1, <2>2, <3>1, JoiningKeepsLedger
  <2> QED
    BY <2>3, <2>4
<1>2. ASSUME NEW p \in Senders, EnterGate(p)
      PROVE  LedgerInv' /\ lastAll' = lastAll
  <2>1. /\ Enforce(p, emitter[p], now + Timeout) /\ emitter[p] \in Emitters
        /\ queue # <<>> /\ Head(queue) = p /\ queue' = Tail(queue)
        /\ UNCHANGED <<now, emitter, stamp, lastBy, lastAll, sends>>
    BY <1>2 DEF EnterGate, IsNext, LedgerInv
  <2>2. emitter' = [emitter EXCEPT ![p] = emitter[p]] /\ sends' \in Nat
    BY <1>0, <2>1 DEF TypeOK
  <2> QED
    BY <1>0, <2>1, <2>2, GateKeepsLedger
<1>3. ASSUME NEW p \in Senders, Wake(p)
      PROVE  LedgerInv' /\ lastAll' = lastAll
  <2>1. /\ Enforce(p, emitter[p], limit[p]) /\ emitter[p] \in Emitters
        /\ queue' = queue /\ at[p] \notin {"queued", "recording"}
        /\ UNCHANGED <<now, emitter, stamp, lastBy, lastAll, sends>>
    BY <1>3 DEF Wake, LedgerInv
  <2>2. emitter' = [emitter EXCEPT ![p] = emitter[p]] /\ sends' \in Nat /\ limit[p] \in Nat
    BY <1>0, <2>1 DEF TypeOK
  <2> QED
    BY <1>0, <2>1, <2>2, GateKeepsLedger
<1>4. ASSUME NEW p \in Senders, Transmitted(p)
      PROVE  LedgerInv' /\ (lastAll # None => lastAll' # None /\ lastAll' >= lastAll)
  <2>1. /\ at[p] = "sending" /\ emitter[p] \in Emitters
        /\ UNCHANGED <<now, emitter, holder, wake, limit, sends>>
    BY <1>4 DEF Transmitted, LedgerInv
  <2>2. CASE LockIsFree
    <3>1. /\ Write(emitter[p], now) /\ at' = [at EXCEPT ![p] = "idle"]
          /\ queue' = queue /\ queue = <<>> /\ stamp' = stamp
      BY <1>4, <2>2 DEF Transmitted, LockIsFree
    <3>2. Len(queue) = 0 /\ now <= now
      BY <1>0, <3>1, EmptySeq
    <3>3. /\ \A i \in 1 .. Len(queue) : at[queue[i]] = "recording" => now <= stamp[queue[i]]
          /\ stamp' \in {stamp, [stamp EXCEPT ![p] = 0]}
          /\ at[p] \in {"sending", "recording"}
      BY ONLY <2>1, <3>1, <3>2
    <3>4. LedgerInv' /\ lastAll' = now
      BY <1>0, <2>1, <3>1, <3>2, <3>3, WriteKeepsLedger
    <3> QED
      BY <1>0, <3>4, TxGateAssumption DEF Times
  <2>3. CASE ~LockIsFree
    <3>1. /\ queue' = Append(queue, p) /\ at' = [at EXCEPT ![p] = "recording"]
          /\ stamp' = [stamp EXCEPT ![p] = now] /\ UNCHANGED <<lastBy, lastAll>>
      BY <1>4, <2>3 DEF Transmitted
    <3>2. emitter' = [emitter EXCEPT ![p] = emitter[p]] /\ sends' \in Nat
      BY <1>0, <2>1 DEF TypeOK
    <3>3. LedgerInv'
      BY <2>1, <3>1, <3>2, JoiningKeepsLedger
    <3> QED
      BY <1>0, <3>1, <3>3 DEF Times
  <2> QED
    BY <2>2, <2>3
<1>5. ASSUME NEW p \in Senders, TransmissionRaises(p)
      PROVE  LedgerInv' /\ lastAll' = lastAll
  <2>1. /\ at[p] = "sending" /\ at' = [at EXCEPT ![p] = "idle"]
        /\ UNCHANGED <<now, emitter, holder, queue, wake, limit, stamp, lastBy, lastAll,
                       sends>>
    BY <1>5 DEF TransmissionRaises
  <2>2. /\ at' \in [Senders -> Places] /\ at'[p] = "idle"
        /\ \A q \in Senders \ {p} : at'[q] = at[q]
    BY <1>0, <2>1 DEF TypeOK, Places
  <2>3. QueueOrder'
    <3>1. ASSUME NEW i \in 1 .. Len(queue)
          PROVE  queue[i] \in Senders /\ queue[i] # p
      BY <1>0, <2>1 DEF QueueOrder
    <3> QED
      BY <1>0, <2>1, <2>2, <3>1 DEF QueueOrder
  <2>4. TypeOK' /\ LedgerInPast' /\ LedgerOrder'
    BY <1>0, <2>1, <2>2 DEF TypeOK, LedgerInPast, LedgerOrder
  <2> QED
    BY <2>1, <2>2, <2>3, <2>4 DEF LedgerInv
<1>6. ASSUME NEW p \in Senders, Record(p)
      PROVE  LedgerInv' /\ (lastAll # None => lastAll' # None /\ lastAll' >= lastAll)
  <2>1. /\ at[p] = "recording" /\ queue # <<>> /\ Head(queue) = p /\ queue' = Tail(queue)
        /\ Write(emitter[p], stamp[p]) /\ stamp' = [stamp EXCEPT ![p] = 0]
        /\ at' = [at EXCEPT ![p] = "idle"]
        /\ UNCHANGED <<now, emitter, holder, wake, limit, sends>>
    BY <1>6 DEF Record, IsNext
  <2>2. /\ Len(queue) \in Nat /\ 1 \in 1 .. Len(queue) /\ queue[1] = p
        /\ stamp[p] \in Nat /\ stamp[p] <= now
    BY <1>0, <2>1, EmptySeq DEF TypeOK, LedgerInPast
  <2>3. lastAll # None => lastAll <= stamp[p]
    BY <1>0, <2>1, <2>2 DEF QueueOrder
  <2>4. ASSUME NEW i \in 1 .. Len(queue), at[queue[i]] = "recording"
        PROVE  stamp[p] <= stamp[queue[i]]
    <3>1. CASE i = 1
      BY <2>2, <3>1
    <3>2. CASE i # 1
      <4>1. 1 < i
        BY <2>2, <3>2
      <4> QED
        BY <1>0, <2>1, <2>2, <2>4, <4>1 DEF QueueOrder
    <3> QED
      BY <3>1, <3>2
  <2>5. LedgerInv' /\ lastAll' = stamp[p]
    BY <2>1, <2>2, <2>3, <2>4, WriteKeepsLedger
  <2> QED
    BY <1>0, <2>2, <2>3, <2>5, TxGateAssumption DEF Times
<1>7. CASE Tick
  <2>1. /\ now' = now + 1
        /\ UNCHANGED <<at, emitter, holder, queue, wake, limit, stamp, lastBy, lastAll,
                       sends>>
    BY <1>7 DEF Tick
  <2>2. TypeOK' /\ LedgerInPast'
    BY <1>0, <2>1, TxGateAssumption DEF TypeOK, LedgerInPast, Times
  <2>3. QueueOrder' /\ LedgerOrder'
    BY <1>0, <2>1 DEF QueueOrder, LedgerOrder
  <2>4. lastAll # None => lastAll' >= lastAll
    BY <1>0, <2>1 DEF Times
  <2> QED
    BY <2>1, <2>2, <2>3, <2>4 DEF LedgerInv
<1>8. CASE UNCHANGED vars
  <2>1. LedgerInv' /\ lastAll' = lastAll
    BY <1>8 DEF vars, LedgerInv, TypeOK, LedgerInPast, QueueOrder, LedgerOrder
  <2> QED
    BY <1>0, <2>1 DEF Times
<1>9. ASSUME lastAll' = lastAll
      PROVE  lastAll # None => lastAll' # None /\ lastAll' >= lastAll
  BY <1>0, <1>9 DEF Times
<1> QED
  BY <1>1, <1>2, <1>3, <1>4, <1>5, <1>6, <1>7, <1>8, <1>9 DEF Next, Resumes

\* Whatever the timeout and however the senders interleave, the ledger never goes
\* back: stamps are written in the order they were taken.
THEOREM LedgerNeverGoesBack == Spec => LedgerIsMonotone
<1> DEFINE Forth == /\ lastAll # None => lastAll' # None /\ lastAll' >= lastAll
                    /\ \A e \in Emitters : lastBy'[e] # None => lastBy'[e] <= lastAll'
<1>1. LedgerInv /\ [Next]_vars => LedgerInv'
  BY NextLedgerInv
<1>2. LedgerInv /\ [Next]_vars => [Forth]_vars
  BY NextLedgerInv DEF LedgerInv, LedgerOrder
<1>3. LedgerIsMonotone <=> [][Forth]_vars
  BY DEF LedgerIsMonotone
<1> HIDE DEF Forth
<1> QED
  BY <1>1, <1>2, <1>3, InitLedgerInv, PTL DEF Spec

-------------------------------------------------------------------------------
(* One bucket.                                                             *)

\* From each capture on, what was let through and what bucket b still holds is at
\* most a full bucket and what was refilled up to its last refill.
Balanced(b, s) ==
  /\ b \in Buckets
  /\ s \in Seq(Nat)
  /\ \A i \in DOMAIN s :
       /\ s[i] <= b.at
       /\ b.tokens + (Len(s) - i + 1) <= Capacity + Rate * (b.at - s[i])

\* The bound, of one receiver.
Bounded(s) ==
  \A i, j \in DOMAIN s : i <= j => j - i + 1 <= Capacity + Rate * (s[j] - s[i])

\* Time adds up, at any rate.
LEMMA RateAdds ==
  ASSUME NEW k \in Nat, NEW x \in Nat, NEW y \in Nat, NEW z \in Nat
  PROVE  k * (z - x) = k * (y - x) + (z - y) * k
OBVIOUS

\* What is added to both sides of a bound, or taken from the left, keeps it.
LEMMA SumsKeep ==
  ASSUME NEW m \in Int, NEW n \in Int, NEW u \in Int, NEW v \in Int, NEW w \in Int,
         NEW d \in Int, m + n <= u + v, w <= m + d
  PROVE  w + n <= u + (v + d)
OBVIOUS

\* A refill keeps the balance: what it adds it may add, and the cap only takes.
LEMMA RefillBalances ==
  ASSUME NEW b, NEW s, Balanced(b, s), now \in Nat, b.at <= now
  PROVE  Balanced(Refilled(b), s) /\ Refilled(b).at = now
<1> USE EchoAssumption DEF Buckets
<1> DEFINE more == (now - b.at) * Rate
           full == b.tokens + more
<1>1. /\ b.tokens \in Nat /\ b.tokens <= Capacity /\ b.at \in Nat
      /\ s \in Seq(Nat)
  BY DEF Balanced
<1>2. more \in Nat
  <2>1. now - b.at \in Nat /\ Rate \in Nat
    BY <1>1
  <2> QED
    BY <2>1
<1>3. Refilled(b) = [tokens |-> IF full > Capacity THEN Capacity ELSE full, at |-> now]
  BY DEF Refilled
<1> HIDE DEF more
<1>4. /\ Refilled(b) \in Buckets /\ Refilled(b).at = now
      /\ Refilled(b).tokens \in Nat /\ Refilled(b).tokens <= b.tokens + more
  BY <1>1, <1>2, <1>3
<1>5. ASSUME NEW i \in DOMAIN s
      PROVE  /\ s[i] <= now
             /\ Refilled(b).tokens + (Len(s) - i + 1) <= Capacity + Rate * (now - s[i])
  <2>1. /\ i \in Nat /\ Len(s) \in Nat /\ s[i] \in Nat
        /\ Capacity \in Nat /\ Rate \in Nat
    BY <1>1
  <2>2. /\ s[i] <= b.at
        /\ b.tokens + (Len(s) - i + 1) <= Capacity + Rate * (b.at - s[i])
    BY DEF Balanced
  <2>3. Rate * (now - s[i]) = Rate * (b.at - s[i]) + (now - b.at) * Rate
    <3> HIDE EchoAssumption DEF Buckets
    <3> QED
      BY <1>1, <2>1, RateAdds
  <2>4. s[i] <= now
    BY <1>1, <2>1, <2>2
  <2> DEFINE till == Rate * (b.at - s[i])
             n == Len(s) - i + 1
  <2> HIDE EchoAssumption DEF Buckets
  <2>5. till \in Int /\ n \in Int /\ b.tokens + n <= Capacity + till
    <3>1. till \in Int
      BY <1>1, <2>1
    <3>2. n \in Int
      BY <2>1
    <3> QED
      BY <2>2, <3>1, <3>2
  <2>6. Rate * (now - s[i]) = till + more
    BY <2>3 DEF more
  <2>7. Refilled(b).tokens + n <= Capacity + (till + more)
    <3>1. b.tokens \in Int /\ more \in Int /\ Capacity \in Int
      BY <1>1, <1>2, <2>1
    <3>2. Refilled(b).tokens \in Int /\ Refilled(b).tokens <= b.tokens + more
      BY <1>4
    <3> HIDE DEF till, n
    <3> QED
      BY <2>5, <3>1, <3>2, SumsKeep
  <2> QED
    BY <2>4, <2>6, <2>7
<1> QED
  BY <1>1, <1>4, <1>5 DEF Balanced

\* A capture let through spends a token, and is at the end of a bounded stretch from
\* every capture before it.
LEMMA SpendBalances ==
  ASSUME NEW b, NEW s, Balanced(b, s), Bounded(s), b.tokens >= 1, b.at = now
  PROVE  /\ Balanced([b EXCEPT !.tokens = @ - 1], Append(s, now))
         /\ Bounded(Append(s, now))
<1> USE EchoAssumption DEF Buckets
<1> DEFINE c == [b EXCEPT !.tokens = @ - 1]
           t == Append(s, now)
<1>1. /\ b.tokens \in Nat /\ b.tokens <= Capacity /\ now \in Nat
      /\ s \in Seq(Nat) /\ Len(s) \in Nat
  BY DEF Balanced
<1>2. c \in Buckets /\ c.tokens = b.tokens - 1 /\ c.at = now
  <2>1. b \in [tokens : 0 .. Capacity, at : Nat]
    BY DEF Balanced
  <2>2. c = [tokens |-> b.tokens - 1, at |-> b.at]
    BY <2>1
  <2>3. b.tokens - 1 \in 0 .. Capacity
    BY <1>1
  <2> QED
    BY <1>1, <2>2, <2>3
<1>3. /\ t \in Seq(Nat) /\ Len(t) = Len(s) + 1 /\ DOMAIN t = 1 .. Len(s) + 1
      /\ \A i \in 1 .. Len(s) : t[i] = s[i]
      /\ t[Len(s) + 1] = now
      /\ DOMAIN s = 1 .. Len(s)
  BY <1>1
<1> HIDE DEF c, t
<1>4. Rate * (now - now) = 0
  BY <1>1
<1>5. ASSUME NEW i \in DOMAIN s
      PROVE  /\ s[i] \in Nat /\ s[i] <= now
             /\ b.tokens + (Len(s) - i + 1) <= Capacity + Rate * (now - s[i])
             /\ Rate * (now - s[i]) \in Int
  <2>1. s[i] \in Nat
    BY <1>1
  <2> QED
    BY <1>1, <2>1 DEF Balanced
<1>6. ASSUME NEW i \in DOMAIN t
      PROVE  /\ t[i] <= now
             /\ c.tokens + (Len(t) - i + 1) <= Capacity + Rate * (now - t[i])
             /\ Len(t) - i + 1 <= Capacity + Rate * (now - t[i])
  <2>1. CASE i \in DOMAIN s
    <3>1. /\ i \in Nat /\ s[i] <= now /\ t[i] = s[i]
          /\ b.tokens + (Len(s) - i + 1) <= Capacity + Rate * (now - s[i])
      BY <1>3, <1>5, <2>1
    <3> DEFINE n == Len(s) - i + 1
               till == Capacity + Rate * (now - s[i])
    <3>2. n \in Int /\ Len(t) - i + 1 = n + 1
      <4>1. Len(s) \in Nat
        BY <1>1
      <4>2. Len(t) = Len(s) + 1
        BY <1>3
      <4>3. i \in Nat
        BY <3>1
      <4> HIDE EchoAssumption DEF Buckets
      <4> QED
        BY <4>1, <4>2, <4>3
    <3>3. till \in Int /\ b.tokens + n <= till
      BY <1>5, <2>1, <3>1
    <3> HIDE DEF n, till
    <3>4. c.tokens + (n + 1) <= till /\ n + 1 <= till
      BY <1>1, <1>2, <3>2, <3>3, SMTT(30)
    <3> QED
      BY <3>1, <3>2, <3>4 DEF till
  <2>2. CASE i = Len(s) + 1
    <3>1. t[i] = now /\ Len(t) - i + 1 = 1
      BY <1>1, <1>3, <2>2
    <3> QED
      BY <1>1, <1>2, <1>4, <3>1
  <2> QED
    BY <1>1, <1>3, <2>1, <2>2
<1>7. Balanced(c, t)
  BY <1>2, <1>3, <1>6 DEF Balanced
<1>8. Bounded(t)
  <2> SUFFICES ASSUME NEW i \in DOMAIN t, NEW j \in DOMAIN t, i <= j
               PROVE  j - i + 1 <= Capacity + Rate * (t[j] - t[i])
    BY DEF Bounded
  <2>1. CASE j \in DOMAIN s
    <3>1. i \in DOMAIN s
      BY <1>1, <1>3, <2>1
    <3> QED
      BY <1>3, <2>1, <3>1 DEF Bounded
  <2>2. CASE j = Len(t)
    BY <1>1, <1>3, <1>6, <2>2
  <2> QED
    BY <1>1, <1>3, <2>1, <2>2
<1> QED
  BY <1>7, <1>8 DEF c, t

\* A full bucket before the first capture.
LEMMA FullBalances ==
  ASSUME now \in Nat
  PROVE  Balanced([tokens |-> Capacity, at |-> now], <<>>) /\ Bounded(<<>>)
BY EchoAssumption DEF Balanced, Bounded, Buckets

-------------------------------------------------------------------------------
(* All the buckets.                                                        *)

\* Every bucket was last refilled in the past and is balanced.
LimiterInv ==
  /\ now \in Nat
  /\ \A c \in captures : c.by \in Receivers
  /\ buckets \in [Receivers -> Buckets \cup {None}]
  /\ allowed \in [Receivers -> Seq(Nat)]
  /\ \A r \in Receivers :
       /\ Bounded(allowed[r])
       /\ buckets[r] = None => allowed[r] = <<>>
       /\ buckets[r] # None => Balanced(buckets[r], allowed[r]) /\ buckets[r].at <= now

\* Handling a capture refills its receiver's bucket, and may spend a token of it.
LEMMA HandleKeeps ==
  ASSUME LimiterInv, NEW c \in captures, Handle(c)
  PROVE  LimiterInv'
<1> DEFINE r == c.by
           b == Bucket(r)
           through == b.tokens >= 1
<1>1. r \in Receivers /\ now \in Nat
  BY DEF LimiterInv
<1>2. Balanced(b, allowed[r]) /\ b.at = now
  <2>1. CASE buckets[r] = None
    BY <1>1, <2>1, FullBalances DEF LimiterInv, Bucket
  <2>2. CASE buckets[r] # None
    BY <1>1, <2>2, RefillBalances DEF LimiterInv, Bucket
  <2> QED
    BY <2>1, <2>2
<1>3. /\ now' = now /\ captures' = captures \ {c}
      /\ buckets' = [buckets EXCEPT ![r] = IF through THEN [b EXCEPT !.tokens = @ - 1] ELSE b]
      /\ allowed' = IF through THEN [allowed EXCEPT ![r] = Append(@, now)] ELSE allowed
  BY DEF Handle, vars
<1>4. Bounded(allowed[r]) /\ buckets \in [Receivers -> Buckets \cup {None}]
      /\ allowed \in [Receivers -> Seq(Nat)]
  BY <1>1 DEF LimiterInv
<1> HIDE DEF r, b
<1>5. /\ Balanced(buckets'[r], allowed'[r]) /\ buckets'[r].at = now
      /\ Bounded(allowed'[r])
  <2>1. CASE through
    <3>1. /\ buckets'[r] = [b EXCEPT !.tokens = @ - 1]
          /\ allowed'[r] = Append(allowed[r], now)
      BY <1>1, <1>3, <1>4, <2>1
    <3>2. [b EXCEPT !.tokens = @ - 1].at = now
      BY <1>2 DEF Balanced, Buckets
    <3> QED
      BY <1>2, <1>4, <2>1, <3>1, <3>2, SpendBalances
  <2>2. CASE ~through
    BY <1>1, <1>2, <1>3, <1>4, <2>2
  <2> QED
    BY <2>1, <2>2
<1>6. buckets'[r] \in Buckets /\ allowed'[r] \in Seq(Nat)
  BY <1>5 DEF Balanced
<1>7. \A q \in Receivers \ {r} : buckets'[q] = buckets[q] /\ allowed'[q] = allowed[q]
  BY <1>3, <1>4
<1>8. /\ buckets' \in [Receivers -> Buckets \cup {None}]
      /\ allowed' \in [Receivers -> Seq(Nat)]
  <2>1. /\ buckets' = [buckets EXCEPT ![r] = buckets'[r]]
        /\ allowed' = [allowed EXCEPT ![r] = allowed'[r]]
    BY <1>1, <1>3, <1>4
  <2> QED
    BY <1>4, <1>6, <2>1
<1>9. ASSUME NEW q \in Receivers
      PROVE  /\ Bounded(allowed'[q])
             /\ buckets'[q] = None => allowed'[q] = <<>>
             /\ buckets'[q] # None => /\ Balanced(buckets'[q], allowed'[q])
                                     /\ buckets'[q].at <= now
  <2>1. CASE q = r
    BY <1>1, <1>5, <1>6, <2>1, EchoAssumption
  <2>2. CASE q # r
    BY <1>7, <2>2 DEF LimiterInv
  <2> QED
    BY <2>1, <2>2
<1> QED
  BY <1>1, <1>3, <1>8, <1>9, ZenonT(60) DEF LimiterInv

\* The other steps leave the limiter alone, and time does not go back.
LEMMA LimiterSteps == LimiterInv /\ [EchoNext]_gateAndEchoVars => LimiterInv'
<1> SUFFICES ASSUME LimiterInv, [EchoNext]_gateAndEchoVars PROVE LimiterInv'
  OBVIOUS
<1>1. ASSUME UNCHANGED <<buckets, allowed>>, now' \in Nat, now' >= now,
             \A c \in captures' : c.by \in Receivers
      PROVE  LimiterInv'
  <2>1. \A r \in Receivers :
          buckets[r] # None => buckets[r].at \in Nat /\ now \in Nat /\ buckets[r].at <= now
    BY DEF LimiterInv, Balanced, Buckets
  <2>2. \A r \in Receivers : buckets[r] # None => buckets[r].at <= now'
    BY <1>1, <2>1
  <2> QED
    BY <1>1, <2>2 DEF LimiterInv
<1>2. CASE UNCHANGED gateAndEchoVars
  BY <1>1, <1>2 DEF gateAndEchoVars, vars, echoVars, LimiterInv
<1>3. ASSUME NEW p \in Senders, NEW e \in Emitters, NEW x, SendRecorded(p, e, x)
      PROVE  LimiterInv'
  BY <1>1, <1>3 DEF SendRecorded, Send, LimiterInv
<1>4. ASSUME NEW p \in Senders, Resumes(p) /\ EchoIdle
      PROVE  LimiterInv'
  BY <1>1, <1>4 DEF Resumes, EnterGate, Wake, Transmitted, TransmissionRaises, Record,
                    EchoIdle, LimiterInv
<1>5. CASE Tick /\ EchoIdle
  <2>1. now' = now + 1 /\ UNCHANGED <<captures, buckets, allowed>>
    BY <1>5 DEF Tick, EchoIdle
  <2>2. now' \in Nat /\ now' >= now /\ \A c \in captures' : c.by \in Receivers
    BY <2>1 DEF LimiterInv
  <2> QED
    BY <1>1, <2>1, <2>2
<1>6. ASSUME NEW r \in Receivers, NEW p,
             HearEcho(p, r) \/ HearPress(p, r)
      PROVE  LimiterInv'
  <2>1. PICK t, sent : Hear(t, r, sent)
    BY <1>6 DEF HearEcho, HearPress
  <2>2. /\ now' = now /\ UNCHANGED <<buckets, allowed>>
        /\ captures' = captures \cup {[timings |-> t, by |-> r, sent |-> sent]}
    BY <2>1 DEF Hear, vars
  <2>3. now' \in Nat /\ now' >= now /\ \A c \in captures' : c.by \in Receivers
    BY <2>2 DEF LimiterInv
  <2> QED
    BY <1>1, <2>2, <2>3
<1>7. ASSUME NEW c \in captures, Handle(c)
      PROVE  LimiterInv'
  BY <1>7, HandleKeeps
<1> QED
  BY <1>2, <1>3, <1>4, <1>5, <1>6, <1>7 DEF EchoNext

\* The buckets stay balanced.
THEOREM LimiterInvariance == EchoSpec => []LimiterInv
<1>1. EchoInit => LimiterInv
  BY DEF EchoInit, Init, LimiterInv, Bounded
<1> QED
  BY <1>1, LimiterSteps, PTL DEF EchoSpec

\* In any stretch of time no more captures of a receiver get through than a full
\* bucket and what is refilled meanwhile.
THEOREM BurstIsBoundedProved == EchoSpec => []BurstIsBounded
<1>1. LimiterInv => BurstIsBounded
  BY DEF LimiterInv, Bounded, BurstIsBounded
<1> QED
  BY <1>1, LimiterInvariance, PTL

-------------------------------------------------------------------------------
(* The mirror log.                                                         *)

\* A non-empty set of natural numbers has a least one.
LEMMA Least ==
  ASSUME NEW S \in SUBSET Nat, S # {}
  PROVE  \E n \in S : \A m \in S : n <= m
<1> DEFINE R == OpToRel(<, Nat)
<1>1. \A x, y \in Nat : <<y, x>> \in R <=> y < x
  BY DEF OpToRel
<1>2. IsWellFoundedOn(R, Nat)
  BY NatLessThanWellFounded
<1> HIDE DEF R
<1>3. PICK n \in S : \A m \in S : ~ (<<m, n>> \in R)
  BY <1>2, WFMin
<1>4. ASSUME NEW m \in S
      PROVE  n <= m
  <2>1. n \in Nat /\ m \in Nat /\ ~ (m < n)
    BY <1>1, <1>3
  <2> QED
    BY ONLY <2>1
<1> QED
  BY <1>4

\* The entry found first is one of those that match.
LEMMA OldestIsOne ==
  ASSUME NEW es \in SUBSET Entries, es # {}
  PROVE  Oldest(es) \in es
<1> DEFINE N == {e.n : e \in es}
<1>1. N \in SUBSET Nat /\ N # {}
  BY DEF Entries
<1>2. PICK n \in N : \A m \in N : n <= m
  BY <1>1, Least
<1>3. PICK e \in es : e.n = n
  BY <1>2
<1>4. \A f \in es : e.n <= f.n
  BY <1>2, <1>3
<1> QED
  BY <1>4 DEF Oldest

\* record_echo keeps every entry, with its signal and its time.
LEMMA ClaimKeepsEntries ==
  ASSUME NEW es \in SUBSET Entries, NEW t, NEW r \in Receivers, Matches(es, t) # {}
  PROVE  /\ Claimed(es, t, r) \in SUBSET Entries
         /\ \A e \in es : \E f \in Claimed(es, t, r) : f.signal = e.signal /\ f.at = e.at
<1> DEFINE o == Oldest(Matches(es, t))
           k == [o EXCEPT !.heardBy = @ \cup {r}]
<1>1. o \in es
  BY OldestIsOne DEF Matches
<1>2. Claimed(es, t, r) = (es \ {o}) \cup {k}
  BY DEF Claimed
<1> HIDE DEF o
<1>3. k \in Entries /\ k.signal = o.signal /\ k.at = o.at
  BY <1>1 DEF Entries
<1> HIDE DEF k
<1> QED
  BY <1>1, <1>2, <1>3

\* A send of signal x called at time t has an entry, or is more than Ttl past.
Remembered(x, t) == (\E e \in entries : e.signal = x /\ e.at = t) \/ t + Ttl < now

\* So has the call k of a send, if there is one.
CallRemembered(k) == k # None => k \in Calls /\ Remembered(k.signal, k.at)

\* Every call of send that may still be echoed is remembered, and no echo has leaked
\* before its time.
MirrorInv ==
  /\ now \in Nat /\ sends \in Nat
  /\ entries \in SUBSET Entries
  /\ DOMAIN called = Senders
  /\ \A c \in captures : c.by \in Receivers
  /\ \A p \in Senders : CallRemembered(called[p])
  /\ \A c \in captures : CallRemembered(c.sent)
  /\ LeaksOnlyLate

\* What is remembered stays so while no entry is lost but by its age.
LEMMA StaysRemembered ==
  ASSUME MirrorInv, now' \in Nat, now' >= now, NEW k, CallRemembered(k),
         \A e \in entries : \/ e.at + Ttl < now
                            \/ \E f \in entries' : f.signal = e.signal /\ f.at = e.at
  PROVE  k # None => k \in Calls /\ (\/ \E f \in entries' : f.signal = k.signal /\ f.at = k.at
                                    \/ k.at + Ttl < now')
<1> SUFFICES ASSUME k # None PROVE k \in Calls /\ (\/ \E f \in entries' : f.signal = k.signal /\ f.at = k.at
                                    \/ k.at + Ttl < now')
  OBVIOUS
<1>1. now \in Nat /\ now' \in Nat /\ Ttl \in Nat /\ k.at \in Nat /\ k \in Calls
  BY EchoAssumption DEF MirrorInv, CallRemembered, Calls
<1>2. CASE k.at + Ttl < now
  BY <1>1, <1>2
<1>3. CASE \E e \in entries : e.signal = k.signal /\ e.at = k.at
  <2>1. PICK e \in entries : e.signal = k.signal /\ e.at = k.at
    BY <1>3
  <2>2. CASE \E f \in entries' : f.signal = e.signal /\ f.at = e.at
    BY <1>1, <2>1, <2>2
  <2>3. CASE e.at + Ttl < now
    BY <1>1, <2>1, <2>3
  <2> QED
    BY <2>2, <2>3
<1> QED
  BY <1>2, <1>3 DEF CallRemembered, Remembered

\* So every call that a sender is in or a capture echoes stays remembered, and so do
\* those that come to be, if they are remembered.
LEMMA KeepsMirror ==
  ASSUME MirrorInv, now' \in Nat, now' >= now, sends' \in Nat,
         entries' \in SUBSET Entries, DOMAIN called' = Senders, LeaksOnlyLate',
         \A e \in entries : \/ e.at + Ttl < now
                            \/ \E f \in entries' : f.signal = e.signal /\ f.at = e.at,
         \A p \in Senders : \/ called'[p] \in {None, called[p]}
                            \/ /\ called'[p] \in Calls
                               /\ \E f \in entries' : /\ f.signal = called'[p].signal
                                                    /\ f.at = called'[p].at,
         \A c \in captures' : /\ c.by \in Receivers
                              /\ \/ c \in captures \/ c.sent = None
                                 \/ \E p \in Senders : c.sent = called[p]
  PROVE  MirrorInv'
<1> DEFINE Kept(k) == k # None => k \in Calls /\ (\/ \E f \in entries' : /\ f.signal = k.signal
                                                                        /\ f.at = k.at
                                                 \/ k.at + Ttl < now')
<1>1. \A p \in Senders : Kept(called[p])
  BY StaysRemembered DEF MirrorInv
<1>2. \A c \in captures : Kept(c.sent)
  BY StaysRemembered DEF MirrorInv
<1>3. \A p \in Senders : Kept(called'[p])
  BY <1>1
<1>4. \A c \in captures' : Kept(c.sent)
  BY <1>1, <1>2
<1> QED
  BY <1>3, <1>4 DEF MirrorInv, CallRemembered, Remembered

\* A step that neither calls send nor brings or handles a capture.
LEMMA QuietKeepsMirror ==
  ASSUME MirrorInv, now' \in Nat, now' >= now, sends' \in Nat,
         UNCHANGED <<entries, captures>>, DOMAIN called' = Senders,
         \A p \in Senders : called'[p] \in {None, called[p]},
         passed' \in {Nothing, passed}
  PROVE  MirrorInv'
<1>1. LeaksOnlyLate'
  BY DEF MirrorInv, LeaksOnlyLate, Nothing
<1>2. /\ entries' \in SUBSET Entries
      /\ \A e \in entries : \E f \in entries' : f.signal = e.signal /\ f.at = e.at
      /\ \A c \in captures' : c.by \in Receivers /\ c \in captures
  BY DEF MirrorInv
<1> QED
  BY <1>1, <1>2, KeepsMirror

\* send writes its entry before it does anything else.
LEMMA SendKeepsMirror ==
  ASSUME MirrorInv, NEW p \in Senders, NEW e \in Emitters, NEW x \in SentBy[e],
         SendRecorded(p, e, x)
  PROVE  MirrorInv'
<1> DEFINE new == [n |-> sends + 1, signal |-> x, at |-> now, heardBy |-> {}]
           call == [signal |-> x, at |-> now]
<1>1. /\ now' = now /\ sends' = sends + 1 /\ passed' = Nothing /\ captures' = captures
      /\ entries' = Unexpired \cup {new} /\ called' = [called EXCEPT ![p] = call]
  BY DEF SendRecorded, RecordSend, Send
<1>2. now \in Nat /\ sends \in Nat /\ Ttl \in Nat /\ sends' \in Nat /\ x \in Signals
  <2>1. now \in Nat /\ sends \in Nat
    BY DEF MirrorInv
  <2> QED
    BY <1>1, <2>1, EchoAssumption
<1>3. /\ new \in Entries /\ new.signal = x /\ new.at = now
      /\ call \in Calls /\ call.signal = x /\ call.at = now
  BY <1>2 DEF Entries, Calls
<1> HIDE DEF new, call
<1>4. \A f \in entries : \/ f.at + Ttl < now
                         \/ \E g \in entries' : g.signal = f.signal /\ g.at = f.at
  <2>1. \A f \in entries : f.at \in Nat
    BY DEF MirrorInv, Entries
  <2> QED
    BY <1>1, <1>2, <2>1 DEF Unexpired
<1>5. entries' \in SUBSET Entries
  BY <1>1, <1>3 DEF MirrorInv, Unexpired
<1>6. /\ DOMAIN called' = Senders /\ called'[p] = call
      /\ \A q \in Senders \ {p} : called'[q] = called[q]
  BY <1>1 DEF MirrorInv
<1>7. \A q \in Senders : \/ called'[q] \in {None, called[q]}
                         \/ /\ called'[q] \in Calls
                            /\ \E f \in entries' : /\ f.signal = called'[q].signal
                                                 /\ f.at = called'[q].at
  BY <1>1, <1>3, <1>6
<1>8. LeaksOnlyLate'
  BY <1>1 DEF LeaksOnlyLate, Nothing
<1>9. now' \in Nat /\ now' >= now
  BY <1>1, <1>2
<1>10. \A c \in captures' : c.by \in Receivers /\ c \in captures
  BY <1>1 DEF MirrorInv
<1> QED
  BY <1>2, <1>4, <1>5, <1>6, <1>7, <1>8, <1>9, <1>10, KeepsMirror

\* A receiver hears a transmission of the call its sender is in, or a key.
LEMMA HearKeepsMirror ==
  ASSUME MirrorInv, NEW r \in Receivers, NEW t, NEW sent, Hear(t, r, sent),
         sent = None \/ \E p \in Senders : sent = called[p]
  PROVE  MirrorInv'
<1> DEFINE new == [timings |-> t, by |-> r, sent |-> sent]
<1>1. /\ now' = now /\ sends' = sends /\ entries' = entries /\ called' = called
      /\ passed' = Nothing /\ captures' = captures \cup {new}
  BY DEF Hear, vars
<1>2. new.by = r /\ new.sent = sent
  OBVIOUS
<1> HIDE DEF new
<1>3. \A c \in captures' : /\ c.by \in Receivers
                          /\ \/ c \in captures \/ c.sent = None
                             \/ \E p \in Senders : c.sent = called[p]
  BY <1>1, <1>2 DEF MirrorInv
<1>4. LeaksOnlyLate'
  BY <1>1 DEF LeaksOnlyLate, Nothing
<1>5. /\ now' \in Nat /\ now' >= now /\ sends' \in Nat /\ entries' \in SUBSET Entries
      /\ DOMAIN called' = Senders
  BY <1>1 DEF MirrorInv
<1> QED
  BY <1>1, <1>3, <1>4, <1>5, KeepsMirror

\* A capture passes the log only if nothing that it matches is left there; what is
\* claimed stays in the log.
LEMMA HandleKeepsMirror ==
  ASSUME MirrorInv, NEW c \in captures, Handle(c)
  PROVE  MirrorInv'
<1> DEFINE through == Bucket(c.by).tokens >= 1
           echo == Matches(Unexpired, c.timings) # {}
<1>1. /\ now' = now /\ sends' = sends /\ called' = called /\ captures' = captures \ {c}
      /\ entries' = IF ~through THEN entries
                    ELSE IF echo THEN Claimed(Unexpired, c.timings, c.by) ELSE Unexpired
      /\ passed' = IF through /\ ~echo THEN [of |-> c, at |-> now] ELSE Nothing
  BY DEF Handle, vars
<1> HIDE DEF through
<1>2. /\ now \in Nat /\ Ttl \in Nat /\ Unexpired \in SUBSET Entries /\ c.by \in Receivers
  BY EchoAssumption DEF MirrorInv, Unexpired
<1>3. echo => /\ Claimed(Unexpired, c.timings, c.by) \in SUBSET Entries
              /\ \A e \in Unexpired : \E f \in Claimed(Unexpired, c.timings, c.by) :
                   f.signal = e.signal /\ f.at = e.at
  BY <1>2, ClaimKeepsEntries
<1>4. entries' \in SUBSET Entries
  BY <1>1, <1>2, <1>3 DEF MirrorInv
<1>5. \A e \in entries : \/ e.at + Ttl < now
                         \/ \E f \in entries' : f.signal = e.signal /\ f.at = e.at
  <2>1. \A e \in entries : e.at \in Nat /\ (e \in Unexpired \/ e.at + Ttl < now)
    BY <1>2 DEF MirrorInv, Entries, Unexpired
  <2> HIDE DEF echo
  <2> QED
    BY <1>1, <1>3, <2>1
<1>6. LeaksOnlyLate'
  <2> SUFFICES ASSUME passed'.of # None, passed'.of.sent # None,
                      IsEchoOf(passed'.of.sent.signal, passed'.of.timings)
               PROVE  passed'.at > passed'.of.sent.at + Ttl
    BY DEF LeaksOnlyLate
  <2>1. passed'.of = c /\ passed'.at = now /\ ~echo
    BY <1>1 DEF Nothing
  <2>2. c.sent \in Calls /\ c.sent.at \in Nat /\ Remembered(c.sent.signal, c.sent.at)
    BY <2>1 DEF MirrorInv, CallRemembered, Calls
  <2>3. \A e \in entries : e.signal = c.sent.signal => ~(e.at + Ttl >= now)
    BY <2>1 DEF Matches, Unexpired
  <2>4. c.sent.at + Ttl < now
    BY <1>2, <2>2, <2>3 DEF Remembered
  <2> QED
    BY <1>2, <2>1, <2>2, <2>4
<1>7. \A d \in captures' : d.by \in Receivers /\ d \in captures
  BY <1>1 DEF MirrorInv
<1>8. now' \in Nat /\ now' >= now /\ sends' \in Nat /\ DOMAIN called' = Senders
  BY <1>1 DEF MirrorInv
<1> QED
  BY <1>1, <1>4, <1>5, <1>6, <1>7, <1>8, KeepsMirror

\* Every step of the gate and of the sniffer keeps the log.
LEMMA MirrorSteps == MirrorInv /\ [EchoNext]_gateAndEchoVars => MirrorInv'
<1> SUFFICES ASSUME MirrorInv, [EchoNext]_gateAndEchoVars PROVE MirrorInv'
  OBVIOUS
<1>0. now \in Nat /\ sends \in Nat
  BY DEF MirrorInv
<1>1. CASE UNCHANGED gateAndEchoVars
  <2>1. UNCHANGED <<now, sends, entries, captures, called, passed>>
    BY <1>1 DEF gateAndEchoVars, vars, echoVars
  <2>2. DOMAIN called' = Senders /\ \A p \in Senders : called'[p] \in {None, called[p]}
    BY <2>1 DEF MirrorInv
  <2> QED
    BY <1>0, <2>1, <2>2, QuietKeepsMirror
<1>2. ASSUME NEW p \in Senders, NEW e \in Emitters, NEW x \in SentBy[e],
             SendRecorded(p, e, x)
      PROVE  MirrorInv'
  BY <1>2, SendKeepsMirror
<1>3. ASSUME EchoIdle, now' \in Nat, now' >= now, sends' = sends
      PROVE  MirrorInv'
  <2>1. /\ UNCHANGED <<entries, captures>> /\ passed' = Nothing
        /\ called' = [p \in Senders |-> IF at'[p] \in {"idle", "timed out"} THEN None
                                       ELSE called[p]]
    BY <1>3 DEF EchoIdle
  <2>2. DOMAIN called' = Senders /\ \A p \in Senders : called'[p] \in {None, called[p]}
    BY <2>1
  <2> QED
    BY <1>0, <1>3, <2>1, <2>2, QuietKeepsMirror
<1>4. ASSUME NEW p \in Senders, Resumes(p), EchoIdle
      PROVE  MirrorInv'
  <2>1. now' = now /\ sends' = sends
    BY <1>4 DEF Resumes, EnterGate, Wake, Transmitted, TransmissionRaises, Record
  <2> QED
    BY <1>0, <1>3, <1>4, <2>1
<1>5. CASE Tick /\ EchoIdle
  <2>1. now' = now + 1 /\ sends' = sends
    BY <1>5 DEF Tick
  <2> QED
    BY <1>0, <1>3, <1>5, <2>1
<1>6. ASSUME NEW p \in Senders, NEW r \in Receivers, HearEcho(p, r)
      PROVE  MirrorInv'
  BY <1>6, HearKeepsMirror DEF HearEcho
<1>7. ASSUME NEW x \in Signals, NEW r \in Receivers, HearPress(x, r)
      PROVE  MirrorInv'
  BY <1>7, HearKeepsMirror DEF HearPress
<1>8. ASSUME NEW c \in captures, Handle(c)
      PROVE  MirrorInv'
  BY <1>8, HandleKeepsMirror
<1> QED
  BY <1>1, <1>2, <1>4, <1>5, <1>6, <1>7, <1>8 DEF EchoNext

\* An echo that was heard as its send logged it is handed to the matcher only when it
\* is handled more than Ttl after the send was called, however late and in whatever
\* order captures are handled, and whatever signals are logged beside it.
THEOREM EchoesLeakOnlyLate == EchoSpec => []LeaksOnlyLate
<1>1. EchoInit => MirrorInv
  BY DEF EchoInit, Init, MirrorInv, LeaksOnlyLate, Nothing, CallRemembered
<1>2. MirrorInv => LeaksOnlyLate
  BY DEF MirrorInv
<1> QED
  BY <1>1, <1>2, MirrorSteps, PTL DEF EchoSpec

-------------------------------------------------------------------------------
(* The gate that is heard.                                                 *)

\* With the log and the sniffer around it, the gate does what it does alone: what
\* is proved of it holds.
THEOREM EchoRefinement == EchoSpec => Spec
<1>1. EchoInit => Init
  BY DEF EchoInit
<1>2. [EchoNext]_gateAndEchoVars => [Next]_vars
  BY DEF EchoNext, gateAndEchoVars, SendRecorded, HearEcho, HearPress, Hear, Handle, Next
<1> QED
  BY <1>1, <1>2, PTL DEF EchoSpec, Spec

===============================================================================
