----------------------------- MODULE MCService -----------------------------
(***************************************************************************)
(* The service on a small instance: two request slots, one endpoint.       *)
(***************************************************************************)
EXTENDS Service, TLC

CONSTANTS o1

MCOrganizationOf == [e \in Endpoints |-> o1]

=============================================================================
