------------------------- MODULE MCEmberguardAccess -------------------------
(* Small instances of EmberguardAccess for TLC.                            *)
EXTENDS EmberguardAccess, TLC

CONSTANTS r1, u1, u2, i1, t1, a1, a2

AppRoles1 == {r1}
Subjects2 == {u1, u2}
Ids1 == {i1}
Tenants1 == {t1}
Admins1 == {a1}
Admins2 == {a1, a2}
Supers1 == {a1}

\* Users are only compared for equality.
Symmetry == Permutations(Subjects)
=============================================================================
