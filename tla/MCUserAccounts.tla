--------------------------- MODULE MCUserAccounts ---------------------------
(* Small instances of UserAccounts for TLC. *)
EXTENDS UserAccounts, TLC

CONSTANTS root, admin, user, r1, r2

\* Administrators of one rank and an ordinary user.
Ranks ==
  [u \in {root, admin, user} \intersect Users |->
     IF u = user THEN 0 ELSE 1]

\* Requests are interchangeable.
Symmetry == Permutations({r1, r2})
=============================================================================
