------------------------------- MODULE MCSniffer -------------------------------
(* Sniffer on a small instance: two devices share receiver r1, of two.       *)
EXTENDS Sniffer, TLC

CONSTANTS r1, r2, k1, k2, h1, h2, x1

MCReceivers    == {r1, r2}
MCReceiverList == <<r1, r2, r1>>
MCKeys         == {k1, k2}
TwoHandlers    == {h1, h2}
OneHandler     == {h1}
OneDismisser   == {x1}
NoDismisser    == {}

Row(r, k, n) == [remote |-> r, key |-> k, hits |-> n, seen |-> 0]
Absent == [i \in 1 .. MaxRows |-> None]

\* An empty store, and one that holds two signals of one remote.
MCInitialCatalogs ==
  {[remotes |-> {}, dismissed |-> {}, rows |-> Absent],
   [remotes |-> {r1}, dismissed |-> {},
    rows |-> [Absent EXCEPT ![1] = Row(r1, k1, 1), ![2] = Row(r1, k1, 2)]]}

\* Handlers are interchangeable.
MCSymmetry == Permutations(Handlers)

===============================================================================
