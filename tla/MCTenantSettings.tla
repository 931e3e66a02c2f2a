-------------------------- MODULE MCTenantSettings --------------------------
(* Small instances of TenantSettings for TLC. *)
EXTENDS TenantSettings, TLC

CONSTANTS global, tenant, u1, u2, title, color

\* The registered defaults of a group with the fields title and color.
FirstValues == [f \in {title, color} |-> 0]

\* No rule, and a rule that locks the title.
TitleRules == {{}, {title} \X Targets}

\* The users are interchangeable when they hold the same permissions.
Symmetry == Permutations({u1, u2})
=============================================================================
