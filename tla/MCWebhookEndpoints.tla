------------------------- MODULE MCWebhookEndpoints -------------------------
(***************************************************************************)
(* WebhookEndpoints on small instances.                                    *)
(***************************************************************************)
EXTENDS WebhookEndpoints, TLC

\* Request slots, ids, columns and organizations are interchangeable.
Symmetry == Permutations(Requests) \cup Permutations(Endpoints)
              \cup Permutations(Columns) \cup Permutations(Organizations)

=============================================================================
