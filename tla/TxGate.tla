-------------------------------- MODULE TxGate ---------------------------------
(***************************************************************************)
(* The gate every transmission goes through (adapters/tx_gate.py): it      *)
(* keeps a gap between two sends of one emitter, and a longer one between  *)
(* sends of different emitters.                                            *)
(*                                                                         *)
(* A send takes the gate's asyncio lock, sleeps under it until the ledger  *)
(* of past sends allows it, gives the lock back, transmits, reads the      *)
(* clock, and takes the lock once more to write the ledger.  asyncio.Lock  *)
(* is first come, first served: a caller that finds callers waiting joins  *)
(* them.  The transmission itself runs outside the lock.                   *)
(*                                                                         *)
(* The clock moves by ticks of 0.1 s whenever it likes, so a callback may  *)
(* run as late as it likes; a sleep never ends early.                      *)
(***************************************************************************)
EXTENDS Integers, Sequences

CONSTANTS
  Senders,     \* concurrent callers of send
  Emitters,    \* emitter entity ids
  RepeatGap,   \* SEND_REPEAT_GAP_S, in ticks
  StaggerGap,  \* EMITTER_STAGGER_GAP_S
  Timeout,     \* stagger_timeout_s
  None,
  MaxSends,    \* bound on the sends that begin
  MaxTime      \* bound on the clock while nobody sleeps

ASSUME TxGateAssumption ==
  /\ RepeatGap \in Nat /\ StaggerGap \in Nat /\ Timeout \in Nat
  /\ MaxSends \in Nat /\ MaxTime \in Nat
  /\ None \notin Int
  /\ None \notin Senders

VARIABLES
  now,      \* the monotonic clock
  at,       \* at[p]: where sender p is suspended; "idle" outside send
  emitter,  \* emitter[p]: the emitter of its send
  holder,   \* who holds _lock, or None
  queue,    \* who waits for _lock, in order
  wake,     \* wake[p]: when its sleep under the lock ends
  limit,    \* limit[p]: deadline of its _enforce_stagger
  stamp,    \* stamp[p]: the time it read after its transmission
  lastBy,   \* _last_send_by_emitter
  lastAll,  \* _last_send_at_all
  sends     \* sends begun

vars == <<now, at, emitter, holder, queue, wake, limit, stamp, lastBy, lastAll, sends>>

Places == {"idle", "queued", "sleeping", "sending", "recording", "timed out"}
Times == Nat \cup {None}

TypeOK ==
  /\ now \in Nat
  /\ at \in [Senders -> Places]
  /\ emitter \in [Senders -> Emitters \cup {None}]
  /\ holder \in Senders \cup {None}
  /\ queue \in Seq(Senders)
  /\ wake \in [Senders -> Nat]
  /\ limit \in [Senders -> Nat]
  /\ stamp \in [Senders -> Nat]
  /\ lastBy \in [Emitters -> Times]
  /\ lastAll \in Times
  /\ sends \in Nat

Init ==
  /\ now = 0
  /\ at = [p \in Senders |-> "idle"]
  /\ emitter = [p \in Senders |-> None]
  /\ holder = None
  /\ queue = <<>>
  /\ wake = [p \in Senders |-> 0]
  /\ limit = [p \in Senders |-> 0]
  /\ stamp = [p \in Senders |-> 0]
  /\ lastBy = [e \in Emitters |-> None]
  /\ lastAll = None
  /\ sends = 0

-------------------------------------------------------------------------------
(* The ledger.                                                             *)

\* How long from time t until gap has passed since last.
GapUntil(last, t, gap) ==
  IF last = None \/ t - last >= gap THEN 0 ELSE gap - (t - last)

\* Mutant: an emitter that ever sent is taken for the latest.
IsLatestEver(e) == lastBy[e] # None

IsLatest(e) == lastBy[e] # None /\ lastAll # None /\ lastBy[e] >= lastAll

\* How long a send on e still has to wait at time t.
WaitFor(e, t) ==
  LET own == GapUntil(lastBy[e], t, RepeatGap)
      any == IF IsLatest(e) THEN 0 ELSE GapUntil(lastAll, t, StaggerGap)
  IN IF own > any THEN own ELSE any

Write(e, t) ==
  /\ lastBy' = [lastBy EXCEPT ![e] = t]
  /\ lastAll' = t

-------------------------------------------------------------------------------
(* The lock.                                                               *)

LockIsFree == holder = None /\ queue = <<>>

\* p is the waiter the lock goes to next.
IsNext(p) == holder = None /\ queue # <<>> /\ Head(queue) = p

-------------------------------------------------------------------------------
(* send                                                                    *)

\* Mutant: a wait that ends exactly at the deadline times out.
EnforceStrictly(p, e, d) ==
  LET w == WaitFor(e, now)
  IN /\ at' = [at EXCEPT ![p] = IF w = 0 THEN "sending"
                                ELSE IF now + w >= d THEN "timed out" ELSE "sleeping"]
     /\ holder' = IF at'[p] = "sleeping" THEN p ELSE None
     /\ wake' = [wake EXCEPT ![p] = IF at'[p] = "sleeping" THEN now + w ELSE 0]
     /\ limit' = [limit EXCEPT ![p] = IF at'[p] = "sleeping" THEN d ELSE 0]

\* Mutant: the sleep is outside the lock.
EnforceOutsideLock(p, e, d) ==
  LET w == WaitFor(e, now)
  IN /\ at' = [at EXCEPT ![p] = IF w = 0 THEN "sending"
                                ELSE IF now + w > d THEN "timed out" ELSE "sleeping"]
     /\ holder' = None
     /\ wake' = [wake EXCEPT ![p] = IF at'[p] = "sleeping" THEN now + w ELSE 0]
     /\ limit' = [limit EXCEPT ![p] = IF at'[p] = "sleeping" THEN d ELSE 0]

\* Mutant: a send that times out keeps the lock.
EnforceKeepsLock(p, e, d) ==
  LET w == WaitFor(e, now)
  IN /\ at' = [at EXCEPT ![p] = IF w = 0 THEN "sending"
                                ELSE IF now + w > d THEN "timed out" ELSE "sleeping"]
     /\ holder' = IF at'[p] = "sending" THEN None ELSE p
     /\ wake' = [wake EXCEPT ![p] = IF at'[p] = "sleeping" THEN now + w ELSE 0]
     /\ limit' = [limit EXCEPT ![p] = IF at'[p] = "sleeping" THEN d ELSE 0]

\* One round of _enforce_stagger for p, which holds the lock, with deadline d:
\* through the gate, timed out, or asleep with the lock held.
Enforce(p, e, d) ==
  LET w == WaitFor(e, now)
  IN /\ at' = [at EXCEPT ![p] = IF w = 0 THEN "sending"
                                ELSE IF now + w > d THEN "timed out" ELSE "sleeping"]
     /\ holder' = IF at'[p] = "sleeping" THEN p ELSE None
     /\ wake' = [wake EXCEPT ![p] = IF at'[p] = "sleeping" THEN now + w ELSE 0]
     /\ limit' = [limit EXCEPT ![p] = IF at'[p] = "sleeping" THEN d ELSE 0]

\* send is called: the gate is free, or p joins the queue.
Send(p, e) ==
  /\ at[p] \in {"idle", "timed out"}
  /\ sends < MaxSends
  /\ sends' = sends + 1
  /\ emitter' = [emitter EXCEPT ![p] = e]
  /\ \/ /\ LockIsFree
        /\ Enforce(p, e, now + Timeout)
        /\ UNCHANGED queue
     \/ /\ ~LockIsFree
        /\ queue' = Append(queue, p)
        /\ at' = [at EXCEPT ![p] = "queued"]
        /\ UNCHANGED <<holder, wake, limit>>
  /\ UNCHANGED <<now, stamp, lastBy, lastAll>>

\* The lock goes to p, whose deadline starts only now.
EnterGate(p) ==
  /\ at[p] = "queued"
  /\ IsNext(p)
  /\ queue' = Tail(queue)
  /\ Enforce(p, emitter[p], now + Timeout)
  /\ UNCHANGED <<now, emitter, stamp, lastBy, lastAll, sends>>

\* The sleep ends and the gate is checked again.
Wake(p) ==
  /\ at[p] = "sleeping"
  /\ now >= wake[p]
  /\ Enforce(p, emitter[p], limit[p])
  /\ UNCHANGED <<now, emitter, queue, stamp, lastBy, lastAll, sends>>

\* The transmission ends.  The clock is read, then the lock asked for.
Transmitted(p) ==
  /\ at[p] = "sending"
  /\ \/ /\ LockIsFree
        /\ Write(emitter[p], now)
        /\ at' = [at EXCEPT ![p] = "idle"]
        /\ UNCHANGED <<queue, stamp>>
     \/ /\ ~LockIsFree
        /\ queue' = Append(queue, p)
        /\ at' = [at EXCEPT ![p] = "recording"]
        /\ stamp' = [stamp EXCEPT ![p] = now]
        /\ UNCHANGED <<lastBy, lastAll>>
  /\ UNCHANGED <<now, emitter, holder, wake, limit, sends>>

\* The sender raises: nothing is written to the ledger.
TransmissionRaises(p) ==
  /\ at[p] = "sending"
  /\ at' = [at EXCEPT ![p] = "idle"]
  /\ UNCHANGED <<now, emitter, holder, queue, wake, limit, stamp, lastBy, lastAll,
                 sends>>

\* Mutant: the sender polls for a free lock instead of waiting its turn.
RecordOutOfTurn(p) ==
  /\ at[p] = "recording"
  /\ holder = None
  /\ queue' = SelectSeq(queue, LAMBDA q : q # p)
  /\ Write(emitter[p], stamp[p])
  /\ stamp' = [stamp EXCEPT ![p] = 0]
  /\ at' = [at EXCEPT ![p] = "idle"]
  /\ UNCHANGED <<now, emitter, holder, wake, limit, sends>>

Record(p) ==
  /\ at[p] = "recording"
  /\ IsNext(p)
  /\ queue' = Tail(queue)
  /\ Write(emitter[p], stamp[p])
  /\ stamp' = [stamp EXCEPT ![p] = 0]
  /\ at' = [at EXCEPT ![p] = "idle"]
  /\ UNCHANGED <<now, emitter, holder, wake, limit, sends>>

Tick ==
  /\ now < MaxTime \/ \E p \in Senders : at[p] = "sleeping" /\ now < wake[p]
  /\ now' = now + 1
  /\ UNCHANGED <<at, emitter, holder, queue, wake, limit, stamp, lastBy, lastAll,
                 sends>>

Resumes(p) == EnterGate(p) \/ Wake(p) \/ Transmitted(p) \/ TransmissionRaises(p) \/ Record(p)

Next ==
  \/ \E p \in Senders, e \in Emitters : Send(p, e)
  \/ \E p \in Senders : Resumes(p)
  \/ Tick

Spec == Init /\ [][Next]_vars

\* Time passes, transmissions end and the event loop runs what is ready.
FairSpec == Spec /\ WF_vars(Tick) /\ \A p \in Senders : WF_vars(Resumes(p))

-------------------------------------------------------------------------------
(* Safety.                                                                 *)

\* The ledger never goes back: stamps are written in the order they were taken,
\* and the last send of all is the last of some emitter's.
LedgerIsMonotone ==
  [][/\ lastAll # None => lastAll' # None /\ lastAll' >= lastAll
     /\ \A e \in Emitters : lastBy'[e] # None => lastBy'[e] <= lastAll']_vars

\* No send times out while the timeout covers the longer gap: the ledger does
\* not change under the lock, so the first sleep is long enough.
NeverTimesOut == \A p \in Senders : at[p] # "timed out"

\* Times written or about to be written lie in the past.
LedgerInPast ==
  /\ lastAll # None => lastAll <= now
  /\ \A e \in Emitters : lastBy[e] # None => lastBy[e] <= now
  /\ \A p \in Senders : stamp[p] <= now

\* A sender asleep holds the lock, and once it wakes it has nothing to wait for.
SleepIsLongEnough ==
  \A p \in Senders : at[p] = "sleeping" =>
    /\ holder = p
    /\ GapUntil(lastBy[emitter[p]], wake[p], RepeatGap) = 0
    /\ ~IsLatest(emitter[p]) => GapUntil(lastAll, wake[p], StaggerGap) = 0

\* The invariant behind NeverTimesOut.
GateInv ==
  /\ TypeOK
  /\ LedgerInPast
  /\ SleepIsLongEnough
  /\ \A p \in Senders : at[p] \notin {"idle", "timed out"} => emitter[p] \in Emitters
  /\ NeverTimesOut

\* p goes on the air.
KeysUp(p) == at[p] # "sending" /\ at'[p] = "sending"

\* "at least emitter_stagger_gap_s after the most-recent send on ANY other
\* emitter" (and send_repeat_gap_s after its own): what the docstring of
\* _enforce_stagger promises of the ledger when a transmission begins.  The code
\* looks at the latest send alone, so it takes one sender at a time to hold.
StaggeredInLedger ==
  [][\A p \in Senders : KeysUp(p) =>
       \A e \in Emitters :
         lastBy[e] # None =>
           now - lastBy[e] >= IF e = emitter'[p] THEN RepeatGap ELSE StaggerGap]_vars

\* Sends of different emitters in the ledger are StaggerGap apart.
LedgerIsSpaced ==
  \A e, f \in Emitters :
    (e # f /\ lastBy[e] # None /\ lastBy[f] # None)
      => lastBy[e] + StaggerGap <= lastBy[f] \/ lastBy[f] + StaggerGap <= lastBy[e]

\* The air is clear for a send on e, as far as the ledger knows.
ClearFor(e) ==
  \A f \in Emitters :
    lastBy[f] # None => now - lastBy[f] >= IF f = e THEN RepeatGap ELSE StaggerGap

\* The invariant behind StaggeredInLedger, for one sender at a time.
SequentialInv ==
  /\ LedgerIsSpaced
  /\ queue = <<>>
  /\ holder # None => at[holder] = "sleeping"
  /\ \A e \in Emitters : lastBy[e] # None => lastAll # None /\ lastBy[e] <= lastAll
  /\ \A p \in Senders : at[p] = "sending" => ClearFor(emitter[p])

(* Liveness.                                                               *)

\* Every send returns or raises.
SendReturns ==
  \A p \in Senders : at[p] \notin {"idle", "timed out"} ~> at[p] \in {"idle", "timed out"}

===============================================================================
