------------------------- MODULE MCBackendLifetime -------------------------
(* Instances of BackendLifetime for TLC: the sets are model values.         *)
EXTENDS BackendLifetime, TLC

CONSTANTS b1, b2, b3, b4, b5, a1, a2

MCBackends4 == {b1, b2, b3, b4}
MCBackends5 == {b1, b2, b3, b4, b5}
MCAttempts1 == {a1}
MCAttempts2 == {a1, a2}

\* the clients other than the initial one are interchangeable, as are attempts
Symmetry == Permutations(MCBackends5 \ {b1}) \cup Permutations(MCAttempts2)
=============================================================================
