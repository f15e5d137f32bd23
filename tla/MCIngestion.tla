---------------------------- MODULE MCIngestion ----------------------------
(***************************************************************************)
(* Ingestion on small instances.  The owners of the endpoints come from    *)
(* the configuration through MCOrganizationOf.                             *)
(***************************************************************************)
EXTENDS Ingestion, TLC

CONSTANTS e1, e2, o1, o2

\* e1 belongs to o1, the others to o2.
MCOrganizationOf == [e \in Endpoints |-> IF e = e1 THEN o1 ELSE o2]

\* Requests are interchangeable.
RequestSymmetry == Permutations(Requests)

\* So are event ids, and the endpoints of o2.
TenantSymmetry == Permutations(EventIds) \cup RequestSymmetry
                      \cup Permutations(Endpoints \ {e1})

=============================================================================
