------------------------------ MODULE MCSession ------------------------------
(* Small instances of Session for TLC.                                      *)
EXTENDS SessionLease, TLC

CONSTANTS c1, c2

OneCaller == {c1}
TwoCallers == {c1, c2}

(* Callers are interchangeable: no action or safety property names one.     *)
Symmetry == Permutations(Callers)
=============================================================================
