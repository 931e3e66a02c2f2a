----------------------------- MODULE MCOrgUnits -----------------------------
(* Small instances of OrgUnits for TLC.                                    *)
EXTENDS OrgUnits, TLC

CONSTANTS u1, u2, u3, t1, t2, a1, a2, s1, s2, active, archived

Units2 == {u1, u2}
Units3 == {u1, u2, u3}
Tenants1 == {t1}
Tenants2 == {t1, t2}
Actors1 == {a1}
Actors2 == {a1, a2}

Slugs1 == {s1}
Slugs2 == {s1, s2}
Statuses1 == {active}
Statuses2 == {active, archived}

\* Ids, slugs, tenants, statuses and actors are interchangeable.
Symmetry == Permutations(OrgUnitIds) \cup Permutations(TenantIds) \cup Permutations(Slugs)
              \cup Permutations(Statuses) \cup Permutations(Actors)
=============================================================================
