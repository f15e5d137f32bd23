-------------------------- MODULE MCAuthentication --------------------------
(***************************************************************************)
(* Authentication on small instances.                                      *)
(***************************************************************************)
EXTENDS Authentication, TLC

\* Request slots, users, organizations and connections are interchangeable.
Symmetry == Permutations(Requests) \cup Permutations(Users)
              \cup Permutations(Organizations) \cup Permutations(Connections)

=============================================================================
