------------------------------- MODULE MCTxGate --------------------------------
(* TxGate on a small instance, with the gaps of const.py in ticks of 0.1 s.  *)
EXTENDS TxGate, TLC

CONSTANTS p1, p2, p3, e1, e2

ThreeSenders == {p1, p2, p3}
TwoSenders   == {p1, p2}

TwoEmitters == {e1, e2}

\* Senders and emitters are interchangeable; for safety only.
SafetySymmetry == Permutations(Senders) \cup Permutations(Emitters)

===============================================================================
