--------------------------- MODULE MCSeederCleanup ---------------------------
(* Small instances of SeederCleanup for TLC.                               *)
EXTENDS SeederCleanup, TLC

CONSTANTS u1, u2, u3, t1, t2, a1, a2, s1, s2

Units2 == {u1, u2}
Units3 == {u1, u2, u3}
Tenants1 == {t1}
Tenants2 == {t1, t2}
Actors1 == {a1}

Slugs2 == {s1, s2}

\* Ids, slugs and tenants are interchangeable.
Symmetry == Permutations(OrgUnitIds) \cup Permutations(TenantIds) \cup Permutations(Slugs)
=============================================================================
