---------------------------- MODULE MCSubscriptions ----------------------------
(* Model values and symmetry for checking Subscriptions. *)
EXTENDS Subscriptions, TLC

CONSTANTS ann, ben, a, b, c, d, r1, r2

MCUsers    == {ann, ben}
MCRoutes   == {a, b, c, d}
MCIds      == 1..6
MCRequests == {r1, r2}

\* The _ids are chosen in order, so they are not interchangeable.
Symmetry == Permutations(MCUsers) \cup Permutations(MCRoutes)
              \cup Permutations(MCRequests)
=============================================================================
