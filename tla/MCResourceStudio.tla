--------------------------- MODULE MCResourceStudio ---------------------------
(* A small instance of ResourceStudio for TLC.                             *)
EXTENDS ResourceStudio, TLC

CONSTANTS e1, e2, n1, n2, a1, a2, w1, w2

Entities1 == {e1}
Entities2 == {e1, e2}
Names2 == {n1, n2}
Profiles1 == {a1}
Profiles2 == {a1, a2}
Identities2 == {w1, w2}

\* Entities, names, profiles and identities are only compared for equality.
Symmetry ==
  Permutations(Entities) \cup Permutations(Names) \cup Permutations(Profiles)
    \cup Permutations(Identities)
=============================================================================
