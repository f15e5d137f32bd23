---------------------------- MODULE MCMigrations ----------------------------
(***************************************************************************)
(* Migrations on small instances.                                          *)
(***************************************************************************)
EXTENDS Migrations

\* Base, head, and two revisions between which an upgrade and a downgrade may wait for
\* each other.
MCTargets == {0, 2, 3, 10}

=============================================================================
