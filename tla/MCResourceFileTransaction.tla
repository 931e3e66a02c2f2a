---------------------- MODULE MCResourceFileTransaction ----------------------
(* A small instance of ResourceFileTransaction for TLC.                    *)
EXTENDS ResourceFileTransaction, TLC

CONSTANTS p1, p2, d1, d2, i1, i2, i3, x1

\* p2 lies in d1/d2, p1 at the root of the application.
Paths2 == {p1, p2}
Dirs2 == {d1, d2}
Tree == (p1 :> {}) @@ (p2 :> {d1, d2}) @@ (d1 :> {}) @@ (d2 :> {d1})

Images3 == {i1, i2, i3}
Transactions1 == {x1}

\* Images and transaction ids are interchangeable.
Symmetry == Permutations(Images) \cup Permutations(Transactions)
=============================================================================
