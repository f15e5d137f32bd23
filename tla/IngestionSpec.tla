--------------------------- MODULE IngestionSpec ---------------------------
(***************************************************************************)
(* What webhook ingestion promises its senders, with no requests,          *)
(* transactions or endpoints in sight.                                     *)
(*                                                                         *)
(* A delivery is named by a key.  The first time a key is accepted it gets *)
(* an event of its own, and in the same instant that event is queued for   *)
(* dispatch.  Every successful answer to a delivery of that key names that *)
(* event.                                                                  *)
(***************************************************************************)

CONSTANTS Keys, EventIds

VARIABLES
    accepted,   \* the accepted events: records [key, id]
    queued,     \* the ids of the events that wait in the outbox
    answered    \* every [key, id] a sender was ever told

vars == <<accepted, queued, answered>>

Init ==
    /\ accepted = {}
    /\ queued = {}
    /\ answered = {}

\* A key is accepted once, with an unused event id, and queued at once.
Accept(key, id) ==
    /\ \A a \in accepted : a.key # key /\ a.id # id
    /\ accepted' = accepted \cup {[key |-> key, id |-> id]}
    /\ queued' = queued \cup {id}
    /\ UNCHANGED answered

\* A sender is told which event its delivery became.
Answer(a) ==
    /\ answered' = answered \cup {a}
    /\ UNCHANGED <<accepted, queued>>

Next ==
    \/ \E key \in Keys, id \in EventIds : Accept(key, id)
    \/ \E a \in accepted : Answer(a)

Spec == Init /\ [][Next]_vars

=============================================================================
