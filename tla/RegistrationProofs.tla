------------------------- MODULE RegistrationProofs -------------------------
(***************************************************************************)
(* Proofs about Registration for any requests, addresses and ids, and any  *)
(* number of threads, connections and failures.                            *)
(***************************************************************************)
EXTENDS Registration, TLAPS

USE NormalizedAssumption, BoundsAssumption, NullAssumption

-----------------------------------------------------------------------------
(* The inductive invariant, action by action *)

\* As long as neither the tables nor what clients were told changes, what holds of
\* them keeps holding.
LEMMA TablesKeep ==
    ASSUME RegistrationInv, UNCHANGED <<tables, history>>
    PROVE  EmailsAreNormalized' /\ OneAccountPerAddress' /\ AccountsAreWhole' /\ AnswersAreTrue'
BY DEF RegistrationInv, tables, history, EmailsAreNormalized, OneAccountPerAddress,
       AccountsAreWhole, AnswersAreTrue

\* A step that only moves on, before the first statement or to what a dead
\* connection leaves behind.
LEMMA ProceedInv ==
    ASSUME RegistrationInv, NEW r \in Requests, NEW step \in Steps, GoTo(r, step),
           \/ pc[r] = "hash" /\ step = "hashing"
           \/ pc[r] = "connect" /\ step = "unwinding"
           \/ pc[r] \in StatementSteps /\ step = "orphaned",
           failures' \in 0..MaxFailures,
           UNCHANGED <<tables, email, identity, transaction, history>>
    PROVE  RegistrationInv'
<1>. USE DEF RegistrationInv, tables, transaction, history
<1>1. pc' = [pc EXCEPT ![r] = step]
  BY DEF GoTo
<1>2. TypeOK'
  BY <1>1 DEF TypeOK
<1>3. RequestsAreWhole'
  BY <1>1 DEF TypeOK, RequestsAreWhole, StatementSteps, UserOf, Address
<1>4. AttemptsAreNew'
  BY <1>1 DEF TypeOK, AttemptsAreNew, StatementSteps
<1>5. OutcomesAreCommitted'
  BY <1>1 DEF TypeOK, OutcomesAreCommitted, UserOf, Address
<1>6. QED
  BY <1>2, <1>3, <1>4, <1>5, TablesKeep

\* A transaction that is rolled back frees its address; taken is the answer only
\* when the address has an account.
LEMMA RaiseInv ==
    ASSUME RegistrationInv, NEW r \in Requests, NEW step \in {"taken", "unwinding"},
           Raise(r, step), pc[r] \in {"insert", "membership"},
           step = "taken" => \E row \in users : row.email = Address(r)
    PROVE  RegistrationInv'
<1>. USE DEF RegistrationInv, tables, history
<1>1. /\ pc' = [pc EXCEPT ![r] = step]
      /\ user' = [user EXCEPT ![r] = Empty]
      /\ tenant' = [tenant EXCEPT ![r] = Empty]
      /\ draft' = [draft EXCEPT ![r] = Null]
      /\ joined' = joined \ {r}
      /\ UNCHANGED <<tables, email, identity, history, failures>>
  BY DEF Raise, GoTo, EndTransaction
<1>2. TypeOK'
  BY <1>1 DEF TypeOK, Steps
<1>3. RequestsAreWhole'
  BY <1>1 DEF TypeOK, RequestsAreWhole, StatementSteps, UserOf, Address
<1>4. AttemptsAreNew'
  BY <1>1 DEF TypeOK, AttemptsAreNew
<1>5. OutcomesAreCommitted'
  BY <1>1 DEF TypeOK, OutcomesAreCommitted, UserOf, Address
<1>6. QED
  BY <1>1, <1>2, <1>3, <1>4, <1>5, TablesKeep

\* A request that has no transaction open is over: its slot is free again.
LEMMA ReleaseInv ==
    ASSUME RegistrationInv, NEW r \in Requests, Release(r),
           pc[r] \in {"committed", "taken", "unwinding"},
           failures' \in 0..MaxFailures, AnswersAreTrue', UNCHANGED <<tables, transaction>>,
           created' \subseteq Account, conflicts' \subseteq Emails
    PROVE  RegistrationInv'
<1>. USE DEF RegistrationInv, tables, transaction
<1>1. /\ pc' = [pc EXCEPT ![r] = "idle"]
      /\ email' = [email EXCEPT ![r] = Null]
      /\ identity' = [identity EXCEPT ![r] = Null]
  BY DEF Release, GoTo
<1>2. draft[r] = Null
  BY DEF RequestsAreWhole
<1>3. TypeOK'
  BY <1>1 DEF TypeOK, Steps
<1>4. RequestsAreWhole'
  BY <1>1, <1>2 DEF TypeOK, RequestsAreWhole, StatementSteps, UserOf, Address
<1>5. AttemptsAreNew'
  BY <1>1 DEF TypeOK, AttemptsAreNew
<1>6. OutcomesAreCommitted'
  BY <1>1 DEF TypeOK, OutcomesAreCommitted, UserOf, Address
<1>7. EmailsAreNormalized' /\ OneAccountPerAddress' /\ AccountsAreWhole'
  BY DEF EmailsAreNormalized, OneAccountPerAddress, AccountsAreWhole
<1>8. QED
  BY <1>3, <1>4, <1>5, <1>6, <1>7

LEMMA ReceiveInv ==
    ASSUME RegistrationInv, NEW r \in Requests, NEW typed \in Emails, Receive(r, typed)
    PROVE  RegistrationInv'
<1>. USE DEF RegistrationInv, tables, transaction, history
<1>1. /\ pc[r] = "idle"
      /\ pc' = [pc EXCEPT ![r] = "hash"]
      /\ email' = [email EXCEPT ![r] = typed]
      /\ UNCHANGED <<tables, identity, transaction, history, failures>>
  BY DEF Receive, GoTo
<1>2. draft[r] = Null
  BY <1>1 DEF RequestsAreWhole
<1>3. TypeOK'
  BY <1>1 DEF TypeOK, Steps
<1>4. RequestsAreWhole'
  BY <1>1, <1>2 DEF TypeOK, RequestsAreWhole, StatementSteps, UserOf, Address
<1>5. AttemptsAreNew'
  BY <1>1 DEF TypeOK, AttemptsAreNew
<1>6. OutcomesAreCommitted'
  BY <1>1 DEF TypeOK, OutcomesAreCommitted, UserOf, Address
<1>7. QED
  BY <1>1, <1>3, <1>4, <1>5, <1>6, TablesKeep

\* The ids that are drawn differ from those of every row and every other request.
LEMMA FinishHashingInv ==
    ASSUME RegistrationInv, NEW r \in Requests, FinishHashing(r)
    PROVE  RegistrationInv'
<1>. USE DEF RegistrationInv, tables, transaction, history
<1>1. PICK id \in FreshIds : identity' = [identity EXCEPT ![r] = id]
  BY DEF FinishHashing
<1>2. /\ pc[r] = "hashing"
      /\ pc' = [pc EXCEPT ![r] = "connect"]
      /\ UNCHANGED <<tables, email, transaction, history, failures>>
  BY DEF FinishHashing, GoTo
<1>3. /\ id \in Ids
      /\ \A row \in users : row.id # id
      /\ \A q \in Requests : identity[q] # id
  BY DEF FreshIds
<1>4. draft[r] = Null
  BY <1>2 DEF RequestsAreWhole
<1>5. TypeOK'
  BY <1>1, <1>2, <1>3 DEF TypeOK, Steps
<1>6. RequestsAreWhole'
  BY <1>1, <1>2, <1>3, <1>4 DEF TypeOK, RequestsAreWhole, StatementSteps, UserOf, Address
<1>7. AttemptsAreNew'
  BY <1>1, <1>2, <1>3 DEF TypeOK, AttemptsAreNew
<1>8. OutcomesAreCommitted'
  BY <1>1, <1>2 DEF TypeOK, OutcomesAreCommitted, UserOf, Address
<1>9. QED
  BY <1>2, <1>5, <1>6, <1>7, <1>8, TablesKeep

LEMMA ContextInv ==
    ASSUME RegistrationInv, NEW r \in Requests, SetUserContext(r) \/ SetTenantContext(r)
    PROVE  RegistrationInv'
<1>. USE DEF RegistrationInv, tables, transaction, history
<1>1. identity[r] \in Ids /\ draft[r] = Null
  BY DEF SetUserContext, SetTenantContext, TypeOK, RequestsAreWhole, StatementSteps
<1>2. TypeOK'
  BY <1>1 DEF TypeOK, SetUserContext, SetTenantContext, GoTo, Steps, StatementSteps
<1>3. RequestsAreWhole'
  BY <1>1 DEF TypeOK, RequestsAreWhole, StatementSteps, UserOf, Address, SetUserContext,
              SetTenantContext, GoTo
<1>4. AttemptsAreNew'
  BY DEF TypeOK, AttemptsAreNew, SetUserContext, SetTenantContext, GoTo
<1>5. OutcomesAreCommitted'
  BY DEF TypeOK, OutcomesAreCommitted, UserOf, Address, SetUserContext, SetTenantContext,
         GoTo
<1>6. UNCHANGED <<tables, history>>
  BY DEF SetUserContext, SetTenantContext
<1>7. QED
  BY <1>2, <1>3, <1>4, <1>5, <1>6, TablesKeep

\* An insert that goes through has found its address neither committed nor in flight.
LEMMA InsertInv ==
    ASSUME RegistrationInv, NEW r \in Requests, InsertUserAndOrganization(r)
    PROVE  RegistrationInv'
<1>. USE DEF RegistrationInv, tables, history
<1>1. CASE Raise(r, "unwinding")
  BY <1>1, RaiseInv DEF InsertUserAndOrganization
<1>2. CASE Raise(r, "taken") /\ \E row \in users : row.email = Address(r)
  BY <1>2, RaiseInv DEF InsertUserAndOrganization
<1>3. CASE /\ ~AddressInFlight(r)
           /\ \A row \in users : row.email # Address(r)
           /\ draft' = [draft EXCEPT ![r] = UserOf(r)]
           /\ GoTo(r, "membership")
           /\ UNCHANGED <<tables, email, identity, user, tenant, joined, history, failures>>
  <2>1. /\ pc[r] = "insert"
        /\ pc' = [pc EXCEPT ![r] = "membership"]
    BY <1>3 DEF InsertUserAndOrganization, GoTo
  <2>2. email[r] \in Emails /\ identity[r] \in Ids /\ r \notin joined
    BY <2>1 DEF TypeOK, RequestsAreWhole, StatementSteps
  <2>3. UserOf(r) \in UserRow /\ UserOf(r).email = Address(r)
    BY <2>2 DEF UserOf, Address, UserRow
  <2>4. UserOf(r) # Null
    BY <2>3
  <2>5. TypeOK'
    BY <1>3, <2>1, <2>3 DEF TypeOK, Steps, StatementSteps
  <2>6. RequestsAreWhole'
    BY <1>3, <2>1, <2>4 DEF TypeOK, RequestsAreWhole, StatementSteps, UserOf, Address
  <2>7. AttemptsAreNew'
    BY <1>3, <2>1, <2>3 DEF TypeOK, AttemptsAreNew, AddressInFlight
  <2>8. OutcomesAreCommitted'
    BY <1>3, <2>1 DEF TypeOK, OutcomesAreCommitted, UserOf, Address
  <2>9. QED
    BY <1>3, <2>5, <2>6, <2>7, <2>8, TablesKeep
<1>4. QED
  BY <1>1, <1>2, <1>3 DEF InsertUserAndOrganization

LEMMA InsertMembershipInv ==
    ASSUME RegistrationInv, NEW r \in Requests, InsertMembership(r)
    PROVE  RegistrationInv'
<1>. USE DEF RegistrationInv, tables, history
<1>1. CASE Raise(r, "unwinding")
  BY <1>1, RaiseInv DEF InsertMembership
<1>2. CASE /\ joined' = joined \cup {r}
           /\ GoTo(r, "commit")
           /\ UNCHANGED <<tables, email, identity, user, tenant, draft, history, failures>>
  <2>1. /\ pc[r] = "membership"
        /\ pc' = [pc EXCEPT ![r] = "commit"]
    BY <1>2 DEF InsertMembership, GoTo
  <2>2. TypeOK'
    BY <1>2, <2>1 DEF TypeOK, Steps, StatementSteps
  <2>3. RequestsAreWhole'
    BY <1>2, <2>1 DEF TypeOK, RequestsAreWhole, StatementSteps, UserOf, Address
  <2>4. AttemptsAreNew'
    BY <1>2, <2>1 DEF TypeOK, AttemptsAreNew
  <2>5. OutcomesAreCommitted'
    BY <1>2, <2>1 DEF TypeOK, OutcomesAreCommitted, UserOf, Address
  <2>6. QED
    BY <1>2, <2>2, <2>3, <2>4, <2>5, TablesKeep
<1>3. QED
  BY <1>1, <1>2 DEF InsertMembership

\* What a registration about to commit has in hand: one whole account, of a new
\* address and with new ids.
LEMMA CommittingIsNew ==
    ASSUME RegistrationInv, NEW r \in Requests, pc[r] = "commit"
    PROVE  /\ draft[r] = UserOf(r)
           /\ UserOf(r) \in UserRow
           /\ UserOf(r).id = identity[r] /\ UserOf(r).email = Address(r)
           /\ identity[r] \in Ids
           /\ Address(r) \in Emails /\ Normalized[Address(r)] = Address(r)
           /\ r \in joined
           /\ \A row \in users : row.email # Address(r) /\ row.id # identity[r]
           /\ \A q \in Requests \ {r} : identity[q] # identity[r]
           /\ \A q \in Requests \ {r} : draft[q] # Null => draft[q].email # Address(r)
<1>1. email[r] \in Emails /\ identity[r] \in Ids /\ r \in joined /\ draft[r] # Null
  BY DEF RegistrationInv, TypeOK, RequestsAreWhole, StatementSteps
<1>2. draft[r] = UserOf(r)
  BY <1>1 DEF RegistrationInv, RequestsAreWhole
<1>3. UserOf(r) \in UserRow /\ UserOf(r).id = identity[r] /\ UserOf(r).email = Address(r)
  BY <1>1 DEF UserOf, Address, UserRow
<1>4. QED
  BY <1>1, <1>2, <1>3 DEF RegistrationInv, AttemptsAreNew, Address

\* The whole account of a commit joins the others.
LEMMA PublishInv ==
    ASSUME RegistrationInv, NEW r \in Requests, pc[r] = "commit", Publish(r),
           NEW step \in {"committed", "unwinding"}, GoTo(r, step),
           failures' \in 0..MaxFailures, UNCHANGED <<email, identity, history>>
    PROVE  RegistrationInv'
<1>. USE DEF RegistrationInv, history
<1>1. /\ pc' = [pc EXCEPT ![r] = step]
      /\ user' = [user EXCEPT ![r] = Empty]
      /\ tenant' = [tenant EXCEPT ![r] = Empty]
      /\ draft' = [draft EXCEPT ![r] = Null]
      /\ joined' = joined \ {r}
  BY DEF Publish, GoTo, EndTransaction
<1>2. /\ users' = users \cup {UserOf(r)}
      /\ organizations' = organizations \cup {identity[r]}
      /\ memberships' = memberships \cup {MembershipOf(r)}
  BY CommittingIsNew DEF Publish
<1>3. TypeOK'
  BY <1>1, <1>2, CommittingIsNew DEF TypeOK, Steps, MembershipOf, MembershipRow
<1>4. RequestsAreWhole'
  BY <1>1, CommittingIsNew DEF TypeOK, RequestsAreWhole, StatementSteps, UserOf, Address
<1>5. AttemptsAreNew'
  BY <1>1, <1>2, CommittingIsNew DEF TypeOK, AttemptsAreNew
<1>6. OutcomesAreCommitted'
  BY <1>1, <1>2 DEF TypeOK, OutcomesAreCommitted, UserOf, Address
<1>7. EmailsAreNormalized'
  BY <1>2, CommittingIsNew DEF EmailsAreNormalized
<1>8. OneAccountPerAddress'
  <2>1. \A a \in users : Normalized[a.email] = a.email
    BY DEF EmailsAreNormalized
  <2>2. QED
    BY <1>2, <2>1, CommittingIsNew DEF OneAccountPerAddress
<1>9. AccountsAreWhole'
  BY <1>2, CommittingIsNew DEF AccountsAreWhole, MembershipOf
<1>10. AnswersAreTrue'
  BY <1>2 DEF AnswersAreTrue
<1>11. QED
  BY <1>3, <1>4, <1>5, <1>6, <1>7, <1>8, <1>9, <1>10

\* A 201 names the account that was committed, a 409 an address that has one.
LEMMA RespondInv ==
    ASSUME RegistrationInv, NEW r \in Requests, Respond(r)
    PROVE  RegistrationInv'
<1>. USE DEF RegistrationInv, tables
<1>1. CASE pc[r] = "committed"
  <2>1. UserOf(r) \in users /\ email[r] \in Emails /\ identity[r] \in Ids
    BY <1>1 DEF OutcomesAreCommitted, TypeOK, RequestsAreWhole
  <2>2. [id |-> identity[r], email |-> Address(r)] \in users /\ Address(r) \in Emails
    BY <2>1 DEF UserOf, Address
  <2>3. /\ created' = created \cup {[address |-> Address(r), id |-> identity[r]]}
        /\ UNCHANGED <<users, conflicts>>
    BY <1>1 DEF Respond
  <2>4. AnswersAreTrue'
    BY <2>2, <2>3 DEF AnswersAreTrue
  <2>5. created' \subseteq Account /\ conflicts' \subseteq Emails
    BY <2>1, <2>2, <2>3 DEF Account, TypeOK
  <2>6. QED
    BY <2>4, <2>5, ReleaseInv DEF Respond, TypeOK
<1>2. CASE pc[r] = "taken"
  <2>1. (\E row \in users : row.email = Address(r)) /\ Address(r) \in Emails
    BY <1>2 DEF OutcomesAreCommitted, TypeOK, RequestsAreWhole, Address
  <2>2. conflicts' = conflicts \cup {Address(r)} /\ UNCHANGED <<users, created>>
    BY <1>2 DEF Respond
  <2>3. AnswersAreTrue' /\ created' \subseteq Account /\ conflicts' \subseteq Emails
    BY <2>1, <2>2 DEF AnswersAreTrue, TypeOK
  <2>4. QED
    BY <2>3, ReleaseInv DEF Respond, TypeOK
<1>3. CASE pc[r] = "unwinding"
  <2>1. UNCHANGED <<users, created, conflicts>>
    BY <1>3 DEF Respond
  <2>2. AnswersAreTrue' /\ created' \subseteq Account /\ conflicts' \subseteq Emails
    BY <2>1 DEF AnswersAreTrue, TypeOK
  <2>3. QED
    BY <1>3, <2>2, ReleaseInv DEF Respond, TypeOK
<1>4. QED
  BY <1>1, <1>2, <1>3 DEF Respond

\* PostgreSQL rolls back what a dead connection left open.
LEMMA AbortOrphanInv ==
    ASSUME RegistrationInv, NEW r \in Requests, AbortOrphan(r)
    PROVE  RegistrationInv'
<1>. USE DEF RegistrationInv, tables, history
<1>1. /\ pc[r] = "orphaned"
      /\ pc' = [pc EXCEPT ![r] = "idle"]
      /\ email' = [email EXCEPT ![r] = Null]
      /\ identity' = [identity EXCEPT ![r] = Null]
      /\ user' = [user EXCEPT ![r] = Empty]
      /\ tenant' = [tenant EXCEPT ![r] = Empty]
      /\ draft' = [draft EXCEPT ![r] = Null]
      /\ joined' = joined \ {r}
      /\ UNCHANGED <<tables, history, failures>>
  BY DEF AbortOrphan, Release, EndTransaction, GoTo
<1>2. TypeOK'
  BY <1>1 DEF TypeOK, Steps
<1>3. RequestsAreWhole'
  BY <1>1 DEF TypeOK, RequestsAreWhole, StatementSteps, UserOf, Address
<1>4. AttemptsAreNew'
  BY <1>1 DEF TypeOK, AttemptsAreNew
<1>5. OutcomesAreCommitted'
  BY <1>1 DEF TypeOK, OutcomesAreCommitted, UserOf, Address
<1>6. QED
  BY <1>1, <1>2, <1>3, <1>4, <1>5, TablesKeep

LEMMA InitInv == Init => RegistrationInv
BY DEF Init, RegistrationInv, TypeOK, Steps, RequestsAreWhole, AttemptsAreNew, StatementSteps,
       OutcomesAreCommitted, EmailsAreNormalized, OneAccountPerAddress, AccountsAreWhole,
       AnswersAreTrue

LEMMA NextInv == RegistrationInv /\ [Next]_vars => RegistrationInv'
<1>. SUFFICES ASSUME RegistrationInv, [Next]_vars
              PROVE  RegistrationInv'
  OBVIOUS
<1>1. CASE \E r \in Requests, typed \in Emails : Receive(r, typed)
  BY <1>1, ReceiveInv
<1>2. CASE \E r \in Requests : RequestStep(r)
  <2>. SUFFICES ASSUME NEW r \in Requests, RequestStep(r)
                PROVE  RegistrationInv'
    BY <1>2
  <2>1. CASE StartHashing(r)
    BY <2>1, ProceedInv DEF StartHashing, RegistrationInv, TypeOK, Steps
  <2>2. CASE FinishHashing(r)
    BY <2>2, FinishHashingInv
  <2>3. CASE SetUserContext(r) \/ SetTenantContext(r)
    BY <2>3, ContextInv
  <2>4. CASE InsertUserAndOrganization(r)
    BY <2>4, InsertInv
  <2>5. CASE InsertMembership(r)
    BY <2>5, InsertMembershipInv
  <2>6. CASE Commit(r)
    BY <2>6, PublishInv DEF Commit, RegistrationInv, TypeOK
  <2>7. CASE Respond(r)
    BY <2>7, RespondInv
  <2>8. CASE AbortOrphan(r)
    BY <2>8, AbortOrphanInv
  <2>9. QED
    BY <2>1, <2>2, <2>3, <2>4, <2>5, <2>6, <2>7, <2>8 DEF RequestStep
<1>3. CASE \E r \in Requests : FailureStep(r)
  <2>. SUFFICES ASSUME NEW r \in Requests, FailureStep(r)
                PROVE  RegistrationInv'
    BY <1>3
  <2>1. failures' \in 0..MaxFailures
    BY DEF FailureStep, PoolTimeout, LoseConnection, CommitUnacknowledged, LoseResponse,
           Fail, RegistrationInv, TypeOK
  <2>2. CASE PoolTimeout(r) \/ LoseConnection(r)
    BY <2>1, <2>2, ProceedInv DEF PoolTimeout, LoseConnection, Steps
  <2>3. CASE CommitUnacknowledged(r)
    BY <2>1, <2>3, PublishInv DEF CommitUnacknowledged
  <2>4. CASE LoseResponse(r)
    <3>1. AnswersAreTrue' /\ created' \subseteq Account /\ conflicts' \subseteq Emails
      BY <2>4, TablesKeep DEF LoseResponse, history, RegistrationInv, TypeOK
    <3>2. QED
      BY <2>1, <2>4, <3>1, ReleaseInv DEF LoseResponse
  <2>5. QED
    BY <2>2, <2>3, <2>4 DEF FailureStep
<1>4. CASE UNCHANGED vars
  BY <1>4 DEF vars, RegistrationInv, TypeOK, RequestsAreWhole, AttemptsAreNew,
              OutcomesAreCommitted, EmailsAreNormalized, OneAccountPerAddress,
              AccountsAreWhole, AnswersAreTrue, UserOf, Address
<1>5. QED
  BY <1>1, <1>2, <1>3, <1>4 DEF Next

-----------------------------------------------------------------------------
(* What follows *)

\* Registration keeps its invariant, which the theorems below take apart.
THEOREM InvariantHolds == Spec => []RegistrationInv
BY InitInv, NextInv, PTL DEF Spec

\* Type correctness.
THEOREM TypeCorrect == Spec => []TypeOK
<1>1. RegistrationInv => TypeOK
  BY DEF RegistrationInv
<1>2. QED
  BY <1>1, InvariantHolds, PTL

\* Racing, failing and repeated registrations of an address leave one account.
THEOREM AddressesStayUnique == Spec => []OneAccountPerAddress
<1>1. RegistrationInv => OneAccountPerAddress
  BY DEF RegistrationInv
<1>2. QED
  BY <1>1, InvariantHolds, PTL

\* All rows of a registration are there, or none.
THEOREM RegistrationIsAtomic == Spec => []AccountsAreWhole
<1>1. RegistrationInv => AccountsAreWhole
  BY DEF RegistrationInv
<1>2. QED
  BY <1>1, InvariantHolds, PTL

\* What clients were told about accounts and addresses is so.
THEOREM AnswersStayTrue == Spec => []AnswersAreTrue
<1>1. RegistrationInv => AnswersAreTrue
  BY DEF RegistrationInv
<1>2. QED
  BY <1>1, InvariantHolds, PTL

-----------------------------------------------------------------------------
(* Refinement of RegistrationSpec *)

\* As accounts are whole, each user is an account.
LEMMA UsersAreAccounts ==
    RegistrationInv => Accounts = {[address |-> row.email, id |-> row.id] : row \in users}
<1>. SUFFICES ASSUME RegistrationInv, NEW row \in users
              PROVE  row.id \in organizations /\ \E m \in memberships : m.user = row.id
  BY DEF Accounts
<1>1. row.id \in organizations
  BY DEF RegistrationInv, AccountsAreWhole
<1>2. [user |-> row.id, organization |-> row.id, role |-> "owner"] \in memberships
  BY <1>1 DEF RegistrationInv, AccountsAreWhole
<1>3. QED
  BY <1>1, <1>2

\* A step that leaves the tables and the answers alone is invisible.
LEMMA InvisibleStep ==
    ASSUME UNCHANGED <<tables, history>>
    PROVE  UNCHANGED Abstract!vars
BY DEF tables, history, Accounts, Abstract!vars

\* A commit opens one account.
LEMMA PublishOpens ==
    ASSUME RegistrationInv, RegistrationInv', NEW r \in Requests, pc[r] = "commit",
           Publish(r), UNCHANGED history
    PROVE  Abstract!Next
<1>1. users' = users \cup {UserOf(r)}
  BY CommittingIsNew DEF Publish
<1>2. Accounts' = {[address |-> row.email, id |-> row.id] : row \in users'}
  <2>1. ASSUME NEW row \in users'
        PROVE  row.id \in organizations' /\ \E m \in memberships' : m.user = row.id
    <3>1. row.id \in organizations'
      BY DEF RegistrationInv, AccountsAreWhole
    <3>2. [user |-> row.id, organization |-> row.id, role |-> "owner"] \in memberships'
      BY <3>1 DEF RegistrationInv, AccountsAreWhole
    <3>3. QED
      BY <3>1, <3>2
  <2>2. QED
    BY <2>1 DEF Accounts
<1>3. Accounts' = Accounts \cup {[address |-> Address(r), id |-> identity[r]]}
  BY <1>1, <1>2, UsersAreAccounts, CommittingIsNew
<1>4. \A a \in Accounts : a.address # Address(r) /\ a.id # identity[r]
  BY UsersAreAccounts, CommittingIsNew
<1>5. Abstract!Open(Address(r), identity[r])
  BY <1>3, <1>4 DEF Abstract!Open, history
<1>6. QED
  BY <1>5, CommittingIsNew DEF Abstract!Next

\* An answer confirms an account, refuses an address that has one, or says neither.
LEMMA RespondTells ==
    ASSUME RegistrationInv, NEW r \in Requests, Respond(r)
    PROVE  [Abstract!Next]_(Abstract!vars)
<1>1. Accounts' = Accounts
  BY DEF Respond, tables, Accounts
<1>2. CASE pc[r] = "committed"
  <2>. DEFINE a == [address |-> Address(r), id |-> identity[r]]
  <2>1. UserOf(r) \in users
    BY <1>2 DEF RegistrationInv, OutcomesAreCommitted
  <2>2. a \in Accounts
    BY <2>1, UsersAreAccounts DEF UserOf
  <2>3. created' = created \cup {a} /\ UNCHANGED conflicts
    BY <1>2 DEF Respond
  <2>4. Abstract!Confirm(a)
    BY <1>1, <2>3 DEF Abstract!Confirm
  <2>5. QED
    BY <2>2, <2>4 DEF Abstract!Next
<1>3. CASE pc[r] = "taken"
  <2>1. PICK row \in users : row.email = Address(r)
    BY <1>3 DEF RegistrationInv, OutcomesAreCommitted
  <2>. DEFINE a == [address |-> row.email, id |-> row.id]
  <2>2. a \in Accounts
    BY UsersAreAccounts
  <2>3. conflicts' = conflicts \cup {a.address} /\ UNCHANGED created
    BY <1>3, <2>1 DEF Respond
  <2>4. Abstract!Refuse(a)
    BY <1>1, <2>3 DEF Abstract!Refuse
  <2>5. QED
    BY <2>2, <2>4 DEF Abstract!Next
<1>4. CASE pc[r] = "unwinding"
  BY <1>1, <1>4 DEF Respond, Abstract!vars
<1>5. QED
  BY <1>2, <1>3, <1>4 DEF Respond

\* Every step of the system is a step of the promise or invisible to it.
LEMMA StepRefines ==
    RegistrationInv /\ RegistrationInv' /\ [Next]_vars => [Abstract!Next]_(Abstract!vars)
<1>. SUFFICES ASSUME RegistrationInv, RegistrationInv', [Next]_vars
              PROVE  [Abstract!Next]_(Abstract!vars)
  OBVIOUS
<1>1. CASE \E r \in Requests, typed \in Emails : Receive(r, typed)
  BY <1>1, InvisibleStep DEF Receive
<1>2. CASE \E r \in Requests : RequestStep(r)
  <2>. SUFFICES ASSUME NEW r \in Requests, RequestStep(r)
                PROVE  [Abstract!Next]_(Abstract!vars)
    BY <1>2
  <2>1. CASE StartHashing(r) \/ FinishHashing(r) \/ SetUserContext(r) \/ SetTenantContext(r)
    BY <2>1, InvisibleStep DEF StartHashing, FinishHashing, SetUserContext, SetTenantContext
  <2>2. CASE InsertUserAndOrganization(r) \/ InsertMembership(r)
    BY <2>2, InvisibleStep DEF InsertUserAndOrganization, InsertMembership, Raise
  <2>3. CASE Commit(r)
    BY <2>3, PublishOpens DEF Commit
  <2>4. CASE Respond(r)
    BY <2>4, RespondTells
  <2>5. CASE AbortOrphan(r)
    BY <2>5, InvisibleStep DEF AbortOrphan
  <2>6. QED
    BY <2>1, <2>2, <2>3, <2>4, <2>5 DEF RequestStep
<1>3. CASE \E r \in Requests : FailureStep(r)
  <2>. SUFFICES ASSUME NEW r \in Requests, FailureStep(r)
                PROVE  [Abstract!Next]_(Abstract!vars)
    BY <1>3
  <2>1. CASE CommitUnacknowledged(r)
    BY <2>1, PublishOpens DEF CommitUnacknowledged
  <2>2. CASE PoolTimeout(r) \/ LoseConnection(r) \/ LoseResponse(r)
    BY <2>2, InvisibleStep DEF PoolTimeout, LoseConnection, LoseResponse
  <2>3. QED
    BY <2>1, <2>2 DEF FailureStep
<1>4. CASE UNCHANGED vars
  BY <1>4, InvisibleStep DEF vars, tables, history
<1>5. QED
  BY <1>1, <1>2, <1>3, <1>4 DEF Next

\* Registration keeps its promise to clients: it implements RegistrationSpec.
THEOREM RegistrationRefines == Spec => ImplementsRegistrationSpec
<1>1. Init => Abstract!Init
  BY DEF Init, Accounts, Abstract!Init
<1>2. QED
  BY <1>1, StepRefines, InvariantHolds, PTL
     DEF Spec, ImplementsRegistrationSpec, Abstract!Spec

=============================================================================
