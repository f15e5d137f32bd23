-------------------------- MODULE RegistrationSpec --------------------------
(***************************************************************************)
(* What registration promises, with no requests or transactions in sight.  *)
(*                                                                         *)
(* An address gets at most one account, which comes into being at once and *)
(* whole.  A client is told that its account was created only when it was, *)
(* and that the address is taken only when it is.                          *)
(***************************************************************************)

CONSTANTS Addresses, Ids

VARIABLES
    accounts,   \* records [address, id]
    created,    \* every account that a client was told it had created
    conflicts   \* every address that a client was told was taken

vars == <<accounts, created, conflicts>>

Init ==
    /\ accounts = {}
    /\ created = {}
    /\ conflicts = {}

Open(address, id) ==
    /\ \A a \in accounts : a.address # address /\ a.id # id
    /\ accounts' = accounts \cup {[address |-> address, id |-> id]}
    /\ UNCHANGED <<created, conflicts>>

Confirm(a) ==
    /\ created' = created \cup {a}
    /\ UNCHANGED <<accounts, conflicts>>

Refuse(a) ==
    /\ conflicts' = conflicts \cup {a.address}
    /\ UNCHANGED <<accounts, created>>

Next ==
    \/ \E address \in Addresses, id \in Ids : Open(address, id)
    \/ \E a \in accounts : Confirm(a) \/ Refuse(a)

Spec == Init /\ [][Next]_vars

=============================================================================
