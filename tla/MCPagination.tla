---------------------------- MODULE MCPagination ----------------------------
(***************************************************************************)
(* Pagination on small instances: ids are numbers, as their order matters. *)
(***************************************************************************)
EXTENDS Pagination, TLC

MCEndpoints == 1..4

=============================================================================
