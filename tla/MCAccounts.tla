------------------------------ MODULE MCAccounts ------------------------------
(* Model values and symmetry for checking Accounts. *)
EXTENDS Accounts, TLC

CONSTANTS u1, u2, admin, ann, bob, p, q, r1, r2, none

MCUserIds   == {u1, u2}
MCUsernames == {admin, ann, bob}
MCProfiles  == {p, q}
MCKinds     == {"status", "privilege", "rename", "email", "password", "register"}
MCRequests  == {r1, r2}

\* No request of these kinds changes a username that is already in use.
NamesStay   == {"status", "privilege", "register"}

\* ann and bob, the _ids, the profiles and the request slots are interchangeable.
Symmetry == Permutations(MCUserIds) \cup Permutations({ann, bob})
              \cup Permutations(MCProfiles) \cup Permutations(MCRequests)
=============================================================================
