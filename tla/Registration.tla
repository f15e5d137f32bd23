---------------------------- MODULE Registration ----------------------------
(***************************************************************************)
(* POST /auth/register: register_owner in the transaction that             *)
(* get_db_session wraps around it, any number of registrations at a time.  *)
(*                                                                         *)
(* The password is hashed in a thread before the first statement, that is, *)
(* before the session has a connection.  At READ COMMITTED an INSERT into  *)
(* users whose email another open transaction has inserted waits for that  *)
(* transaction; it violates uq_users_email only if that one commits.       *)
(***************************************************************************)
EXTENDS Rls, Naturals, FiniteSets

CONSTANTS
    Requests,    \* request slots: one is reused when its request has ended
    Emails,      \* addresses as clients type them
    Normalized,  \* what normalize_email makes of them
    Ids,         \* uuid4 values; one stands for the user_uuid and the
                 \* organization_uuid that an attempt draws together
    Threads,     \* how many passwords are hashed at a time
    Connections, \* how many connections the pool has
    MaxFailures  \* bound on lost connections and lost answers

ASSUME NormalizedAssumption ==
    /\ Normalized \in [Emails -> Emails]
    /\ \A e \in Emails : Normalized[Normalized[e]] = Normalized[e]
ASSUME BoundsAssumption ==
    Threads \in Nat \ {0} /\ Connections \in Nat \ {0} /\ MaxFailures \in Nat
UserRow == [id : Ids, email : Emails]
MembershipRow == [user : Ids, organization : Ids, role : {"owner", "viewer"}]
Account == [address : Emails, id : Ids]

ASSUME NullAssumption ==
    /\ Null \notin Emails /\ Null \notin Ids /\ Null \notin UserRow
    /\ Empty \notin Ids

VARIABLES
    users,         \* committed rows
    organizations,
    memberships,
    pc,            \* the step each registration executes next
    email,         \* the address each registration was asked for
    identity,      \* the ids it has drawn
    user,          \* relaymaid.user_id in its transaction
    tenant,        \* relaymaid.organization_id in its transaction
    draft,         \* the user each open transaction inserted, with its organization
    joined,        \* requests whose open transaction holds the membership too
    created,       \* history: accounts that a client was told it had created
    conflicts,     \* history: addresses that a client was told were taken
    failures       \* failures injected so far

tables == <<users, organizations, memberships>>
transaction == <<user, tenant, draft, joined>>
history == <<created, conflicts>>
vars == <<users, organizations, memberships, pc, email, identity, user, tenant,
          draft, joined, created, conflicts, failures>>

\* Steps at which a registration has a connection.
StatementSteps == {"tenant_context", "insert", "membership", "commit"}
Steps == StatementSteps \cup {"idle", "hash", "hashing", "connect", "committed",
                              "taken", "unwinding", "orphaned"}

TypeOK ==
    /\ users \subseteq UserRow
    /\ organizations \subseteq Ids
    /\ memberships \subseteq MembershipRow
    /\ pc \in [Requests -> Steps]
    /\ email \in [Requests -> Emails \cup {Null}]
    /\ identity \in [Requests -> Ids \cup {Null}]
    /\ user \in [Requests -> Ids \cup {Empty}]
    /\ tenant \in [Requests -> Ids \cup {Empty}]
    /\ draft \in [Requests -> UserRow \cup {Null}]
    /\ joined \subseteq Requests
    /\ created \subseteq Account
    /\ conflicts \subseteq Emails
    /\ failures \in 0..MaxFailures

Init ==
    /\ users = {}
    /\ organizations = {}
    /\ memberships = {}
    /\ pc = [r \in Requests |-> "idle"]
    /\ email = [r \in Requests |-> Null]
    /\ identity = [r \in Requests |-> Null]
    /\ user = [r \in Requests |-> Empty]
    /\ tenant = [r \in Requests |-> Empty]
    /\ draft = [r \in Requests |-> Null]
    /\ joined = {}
    /\ created = {}
    /\ conflicts = {}
    /\ failures = 0

-----------------------------------------------------------------------------
(* Helpers *)

GoTo(r, step) == pc' = [pc EXCEPT ![r] = step]

\* normalize_email, before the route function is called.
Address(r) == Normalized[email[r]]

\* ck_users_email_lowercase
IsLowercase(address) == Normalized[address] = address

UserOf(r) == [id |-> identity[r], email |-> Address(r)]
MembershipOf(r) ==
    [user |-> identity[r], organization |-> identity[r], role |-> "owner"]

\* Variant of AddressInFlight: a SELECT before the INSERT instead of the constraint.
NeverInFlight(r) == FALSE

\* An open transaction has inserted a user of this address.
AddressInFlight(r) == \E q \in Requests : draft[q] # Null /\ draft[q].email = Address(r)

\* uuid4: an id that no row and no registration in flight has.
FreshIds == Ids \ ({row.id : row \in users} \cup {identity[q] : q \in Requests})

\* Variant of EndTransaction: a session used without session.begin() ends nothing.
TransactionLeftOpen(r) ==
    /\ user' = [user EXCEPT ![r] = Empty]
    /\ tenant' = [tenant EXCEPT ![r] = Empty]
    /\ UNCHANGED <<draft, joined>>

\* COMMIT and ROLLBACK alike: locks are released, transaction-local settings revert.
EndTransaction(r) ==
    /\ user' = [user EXCEPT ![r] = Empty]
    /\ tenant' = [tenant EXCEPT ![r] = Empty]
    /\ draft' = [draft EXCEPT ![r] = Null]
    /\ joined' = joined \ {r}

\* An exception leaves the route: session.begin() rolls back.
Raise(r, step) ==
    /\ EndTransaction(r)
    /\ GoTo(r, step)
    /\ UNCHANGED <<tables, email, identity, history, failures>>

Release(r) ==
    /\ GoTo(r, "idle")
    /\ email' = [email EXCEPT ![r] = Null]
    /\ identity' = [identity EXCEPT ![r] = Null]

Fail ==
    /\ failures < MaxFailures
    /\ failures' = failures + 1

-----------------------------------------------------------------------------
(* The request *)

\* Bound: the finite set of ids is never exhausted by the registrations in flight.
IdsLeft == Cardinality(FreshIds) > Cardinality({q \in Requests : pc[q] \in {"hash", "hashing"}})

Receive(r, typed) ==
    /\ pc[r] = "idle"
    /\ IdsLeft
    /\ GoTo(r, "hash")
    /\ email' = [email EXCEPT ![r] = typed]
    /\ UNCHANGED <<tables, identity, transaction, history, failures>>

\* to_thread.run_sync(hash_password, password) gets a thread.
StartHashing(r) ==
    /\ pc[r] = "hash"
    /\ Cardinality({q \in Requests : pc[q] = "hashing"}) < Threads
    /\ GoTo(r, "hashing")
    /\ UNCHANGED <<tables, email, identity, transaction, history, failures>>

\* Variant of FinishHashing: the ids are left to the columns' default, which the
\* first flush applies, after the contexts were set from them.
IdsLeftToTheFlush(r) ==
    /\ pc[r] = "hashing"
    /\ GoTo(r, "connect")
    /\ UNCHANGED <<tables, email, identity, transaction, history, failures>>

\* The hash is there, and the ids are drawn.
FinishHashing(r) ==
    /\ pc[r] = "hashing"
    /\ \E id \in FreshIds : identity' = [identity EXCEPT ![r] = id]
    /\ GoTo(r, "connect")
    /\ UNCHANGED <<tables, email, transaction, history, failures>>

\* The first statement, set_user_context, takes a connection out of the pool.
SetUserContext(r) ==
    /\ pc[r] = "connect"
    /\ Cardinality({q \in Requests : pc[q] \in StatementSteps}) < Connections
    /\ user' = [user EXCEPT ![r] = identity[r]]
    /\ GoTo(r, "tenant_context")
    /\ UNCHANGED <<tables, email, identity, tenant, draft, joined, history, failures>>

\* Variant of SetTenantContext: the call is missing.
ContextForgotten(r) ==
    /\ pc[r] = "tenant_context"
    /\ GoTo(r, "insert")
    /\ UNCHANGED <<tables, email, identity, transaction, history, failures>>

\* set_tenant_context(session, organization_uuid)
SetTenantContext(r) ==
    /\ pc[r] = "tenant_context"
    /\ tenant' = [tenant EXCEPT ![r] = identity[r]]
    /\ GoTo(r, "insert")
    /\ UNCHANGED <<tables, email, identity, user, draft, joined, history, failures>>

\* Variant of InsertUserAndOrganization: a taken address is not waited for.
ConflictWithoutWaiting(r) ==
    /\ pc[r] = "insert"
    /\ \/ /\ AddressInFlight(r) \/ \E row \in users : row.email = Address(r)
          /\ Raise(r, "taken")
       \/ /\ ~AddressInFlight(r)
          /\ \A row \in users : row.email # Address(r)
          /\ draft' = [draft EXCEPT ![r] = UserOf(r)]
          /\ GoTo(r, "membership")
          /\ UNCHANGED <<tables, email, identity, user, tenant, joined, history, failures>>

\* The first flush inserts the user and the organization.  ck_users_email_lowercase
\* and organizations_insert_own may refuse it; a transaction in flight may hold the
\* address, and once that has committed it is EmailAlreadyExistsError: a 409.
InsertUserAndOrganization(r) ==
    /\ pc[r] = "insert"
    /\ \/ /\ ~IsLowercase(Address(r)) \/ ~TenantPolicy(identity[r], tenant[r])
          /\ Raise(r, "unwinding")
       \/ /\ IsLowercase(Address(r)) /\ TenantPolicy(identity[r], tenant[r])
          /\ ~AddressInFlight(r)
          /\ \E row \in users : row.email = Address(r)
          /\ Raise(r, "taken")
       \/ /\ IsLowercase(Address(r)) /\ TenantPolicy(identity[r], tenant[r])
          /\ ~AddressInFlight(r)
          /\ \A row \in users : row.email # Address(r)
          /\ draft' = [draft EXCEPT ![r] = UserOf(r)]
          /\ GoTo(r, "membership")
          /\ UNCHANGED <<tables, email, identity, user, tenant, joined, history, failures>>

\* Variant of InsertMembership: the membership is left to a later transaction.
MembershipLeftForLater(r) ==
    /\ pc[r] = "membership"
    /\ GoTo(r, "commit")
    /\ UNCHANGED <<tables, email, identity, transaction, history, failures>>

\* The second flush inserts the owner's membership, if membership_insert_self lets it.
InsertMembership(r) ==
    /\ pc[r] = "membership"
    /\ \/ /\ ~MembershipInsertPolicy(identity[r], identity[r], user[r], tenant[r])
          /\ Raise(r, "unwinding")
       \/ /\ MembershipInsertPolicy(identity[r], identity[r], user[r], tenant[r])
          /\ joined' = joined \cup {r}
          /\ GoTo(r, "commit")
          /\ UNCHANGED <<tables, email, identity, user, tenant, draft, history, failures>>

\* COMMIT takes effect.
Publish(r) ==
    /\ users' = users \cup {draft[r]}
    /\ organizations' = organizations \cup {draft[r].id}
    /\ memberships' = IF r \in joined THEN memberships \cup {MembershipOf(r)}
                                      ELSE memberships
    /\ EndTransaction(r)

\* session.begin() exits without an exception, before the response is sent.
Commit(r) ==
    /\ pc[r] = "commit"
    /\ Publish(r)
    /\ GoTo(r, "committed")
    /\ UNCHANGED <<email, identity, history, failures>>

\* Variant of Respond: scope="request", which answers before the commit.
RespondBeforeCommit(r) ==
    \/ /\ pc[r] = "commit"
       /\ created' = created \cup {[address |-> Address(r), id |-> identity[r]]}
       /\ UNCHANGED <<tables, pc, email, identity, transaction, conflicts, failures>>
    \/ /\ pc[r] \in {"committed", "taken", "unwinding"}
       /\ Release(r)
       /\ UNCHANGED <<tables, transaction, history, failures>>

\* The response reaches the client: 201, 409, or 500.
Respond(r) ==
    /\ pc[r] \in {"committed", "taken", "unwinding"}
    /\ created' = IF pc[r] = "committed"
                  THEN created \cup {[address |-> Address(r), id |-> identity[r]]}
                  ELSE created
    /\ conflicts' = IF pc[r] = "taken" THEN conflicts \cup {Address(r)} ELSE conflicts
    /\ Release(r)
    /\ UNCHANGED <<tables, transaction, failures>>

-----------------------------------------------------------------------------
(* What may go wrong.  A client that got no answer, or a 500, registers again. *)

\* No connection became free within the timeout of the pool.
PoolTimeout(r) ==
    /\ pc[r] = "connect"
    /\ Fail
    /\ GoTo(r, "unwinding")
    /\ UNCHANGED <<tables, email, identity, transaction, history>>

\* The request dies with its transaction open, and PostgreSQL has not noticed.
LoseConnection(r) ==
    /\ pc[r] \in StatementSteps
    /\ Fail
    /\ GoTo(r, "orphaned")
    /\ UNCHANGED <<tables, email, identity, transaction, history>>

\* PostgreSQL aborts the transaction of a dead connection.
AbortOrphan(r) ==
    /\ pc[r] = "orphaned"
    /\ EndTransaction(r)
    /\ Release(r)
    /\ UNCHANGED <<tables, history, failures>>

\* COMMIT takes effect but its acknowledgement is lost: a 500.
CommitUnacknowledged(r) ==
    /\ pc[r] = "commit"
    /\ Fail
    /\ Publish(r)
    /\ GoTo(r, "unwinding")
    /\ UNCHANGED <<email, identity, history>>

\* The client never hears of it.
LoseResponse(r) ==
    /\ pc[r] \in {"committed", "taken"}
    /\ Fail
    /\ Release(r)
    /\ UNCHANGED <<tables, transaction, history>>

-----------------------------------------------------------------------------

RequestStep(r) ==
    \/ StartHashing(r)
    \/ FinishHashing(r)
    \/ SetUserContext(r)
    \/ SetTenantContext(r)
    \/ InsertUserAndOrganization(r)
    \/ InsertMembership(r)
    \/ Commit(r)
    \/ Respond(r)
    \/ AbortOrphan(r)

FailureStep(r) ==
    \/ PoolTimeout(r)
    \/ LoseConnection(r)
    \/ CommitUnacknowledged(r)
    \/ LoseResponse(r)

Next ==
    \/ \E r \in Requests, typed \in Emails : Receive(r, typed)
    \/ \E r \in Requests : RequestStep(r)
    \/ \E r \in Requests : FailureStep(r)

\* The thread limiter, the pool and the lock queue of a key serve who waits in the
\* order of arrival.
Fairness ==
    \A r \in Requests : WF_vars(RequestStep(r)) /\ SF_vars(StartHashing(r))
        /\ SF_vars(SetUserContext(r)) /\ SF_vars(InsertUserAndOrganization(r))

Spec == Init /\ [][Next]_vars

FairSpec == Spec /\ Fairness

-----------------------------------------------------------------------------
(* Properties *)

\* However an address is spelled and however many registrations of it race, fail or
\* are retried, it has at most one account (uq_users_email over normalize_email).
OneAccountPerAddress ==
    \A a, b \in users :
        Normalized[a.email] = Normalized[b.email] \/ a.id = b.id => a = b

\* A registration leaves all of its rows or none: every user is the owner, and the
\* only member, of an organization of its own (the "current transaction" of
\* register_owner; a login infers the organization from the membership).
AccountsAreWhole ==
    /\ organizations = {row.id : row \in users}
    /\ memberships = {[user |-> id, organization |-> id, role |-> "owner"] :
                         id \in organizations}

\* What clients were told stays true: an account reported as created exists, and an
\* address reported as taken has an account, not merely an attempt that was in
\* flight and failed.
AnswersAreTrue ==
    /\ \A a \in created : [id |-> a.id, email |-> a.address] \in users
    /\ \A a \in conflicts : \E row \in users : row.email = a

\* An account is a user with the membership and the organization that make it whole.
Accounts ==
    {[address |-> row.email, id |-> row.id] :
        row \in {u \in users : /\ u.id \in organizations
                               /\ \E m \in memberships : m.user = u.id}}

Abstract == INSTANCE RegistrationSpec WITH
    Addresses <- Emails,
    accounts <- Accounts

\* Registering, with its transactions, retries and losses, is opening whole accounts
\* one at a time and telling clients only what has happened (201 after the commit,
\* 409 for an address that has an account).
ImplementsRegistrationSpec == Abstract!Spec

\* No registration waits for ever: for a thread, for a connection, or for another
\* registration of its address.
EveryRequestEnds ==
    \A r \in Requests : pc[r] # "idle" ~> pc[r] = "idle"

-----------------------------------------------------------------------------
(* The inductive invariant behind the safety properties *)

\* Which requests are at which step, with which ids, contexts and rows.
RequestsAreWhole ==
    \A r \in Requests :
        /\ pc[r] = "idle" <=> email[r] = Null
        /\ pc[r] \in StatementSteps \cup {"connect", "committed", "taken"} =>
              identity[r] # Null
        /\ pc[r] \in StatementSteps => user[r] = identity[r]
        /\ pc[r] \in {"insert", "membership", "commit"} => tenant[r] = identity[r]
        /\ draft[r] # Null =>
              /\ pc[r] \in {"membership", "commit", "orphaned"}
              /\ draft[r] = UserOf(r)
        /\ pc[r] \in {"membership", "commit"} => draft[r] # Null
        /\ pc[r] = "commit" => r \in joined
        /\ r \in joined => draft[r] # Null

\* The unique indexes: what is in flight differs from everything else in its
\* address, and ids are drawn once.
AttemptsAreNew ==
    /\ \A r \in Requests : draft[r] # Null =>
          /\ \A row \in users : row.email # draft[r].email
          /\ \A q \in Requests \ {r} : draft[q] # Null => draft[q].email # draft[r].email
    /\ \A r \in Requests : identity[r] # Null =>
          /\ \A q \in Requests \ {r} : identity[q] # identity[r]
          /\ pc[r] \notin {"committed", "unwinding"} =>
                \A row \in users : row.id # identity[r]

\* A request about to answer answers with what is committed.
OutcomesAreCommitted ==
    \A r \in Requests :
        /\ pc[r] = "committed" => UserOf(r) \in users
        /\ pc[r] = "taken" => \E row \in users : row.email = Address(r)

EmailsAreNormalized == \A row \in users : Normalized[row.email] = row.email

\* The safety properties of a registration, with what makes them inductive.
RegistrationInv ==
    /\ TypeOK
    /\ RequestsAreWhole
    /\ AttemptsAreNew
    /\ OutcomesAreCommitted
    /\ EmailsAreNormalized
    /\ OneAccountPerAddress
    /\ AccountsAreWhole
    /\ AnswersAreTrue

=============================================================================
