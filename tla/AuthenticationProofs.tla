------------------------ MODULE AuthenticationProofs ------------------------
(***************************************************************************)
(* Proofs about Authentication for any requests, users, organizations and  *)
(* connections, and any number of threads and of changes.                  *)
(***************************************************************************)
EXTENDS Authentication, TLAPS

USE BoundsAssumption, NullAssumption, SettingAssumption

-----------------------------------------------------------------------------
(* Connections *)

\* A request that is part of a transaction knows its connection.
LEMMA ConnectionType ==
    ASSUME AuthenticationInv, NEW r \in Requests,
           pc[r] \in StatementSteps \cup {"verify", "verifying"}
    PROVE  connection[r] \in Connections
BY DEF AuthenticationInv, TypeOK, ConnectionsAreOwn

\* The end of a transaction leaves its connection clean and the others alone.
LEMMA EndTransactionCleans ==
    ASSUME AuthenticationInv, NEW r \in Requests, EndTransaction(r)
    PROVE  /\ user' \in [Connections -> Users \cup {Null, Empty}]
           /\ organization' \in [Connections -> Organizations \cup {Null, Empty}]
           /\ connection' = [connection EXCEPT ![r] = Null]
           /\ \A c \in Connections : c # connection[r] =>
                 user'[c] = user[c] /\ organization'[c] = organization[c]
           /\ connection[r] # Null =>
                 Clean(user', connection[r]) /\ Clean(organization', connection[r])
<1>. USE DEF AuthenticationInv, TypeOK
<1>1. CASE connection[r] = Null
  BY <1>1 DEF EndTransaction, settings
<1>2. CASE connection[r] # Null
  <2>1. connection[r] \in Connections
    BY <1>2
  <2>2. /\ user' = [user EXCEPT ![connection[r]] = IF @ = Null THEN Null ELSE Empty]
        /\ organization' = [organization EXCEPT ![connection[r]] =
                               IF @ = Null THEN Null ELSE Empty]
        /\ connection' = [connection EXCEPT ![r] = Null]
    BY <1>2 DEF EndTransaction, Reverted
  <2>3. QED
    BY <1>2, <2>1, <2>2 DEF Clean, CurrentSetting
<1>3. QED
  BY <1>1, <1>2

-----------------------------------------------------------------------------
(* The inductive invariant, action by action *)

\* A request whose transaction ends, with its grant or without one, keeps the
\* invariant: its connection goes back clean.
LEMMA FinishInv ==
    ASSUME AuthenticationInv, NEW r \in Requests, pc[r] # "idle", EndTransaction(r),
           GoTo(r, "respond"), UNCHANGED <<accounts, tokens, request, loaded, seen>>,
           \/ grant' = [grant EXCEPT ![r] = Null]
           \/ UNCHANGED grant
    PROVE  AuthenticationInv'
<1>. USE DEF AuthenticationInv, accounts
<1>1. pc' = [pc EXCEPT ![r] = "respond"]
  BY DEF GoTo
<1>2. connection' = [connection EXCEPT ![r] = Null]
  BY EndTransactionCleans
<1>3. TypeOK'
  BY <1>1, <1>2, EndTransactionCleans DEF TypeOK, Steps
<1>4. RequestsAreWhole'
  BY <1>1 DEF TypeOK, RequestsAreWhole
<1>5. ConnectionsAreOwn'
  BY <1>1, <1>2 DEF TypeOK, ConnectionsAreOwn, StatementSteps
<1>6. ContextsAreOwn'
  <2>1. ASSUME NEW c \in Connections, \A q \in Requests : connection'[q] # c
        PROVE  Clean(user', c) /\ Clean(organization', c)
    <3>1. CASE c = connection[r]
      BY <3>1, EndTransactionCleans
    <3>2. CASE c # connection[r]
      <4>1. \A q \in Requests : connection[q] # c
        BY <1>2, <2>1, <3>2 DEF TypeOK
      <4>2. QED
        BY <3>2, <4>1, EndTransactionCleans DEF ContextsAreOwn, Clean
    <3>3. QED
      BY <3>1, <3>2
  <2>2. ASSUME NEW q \in Requests, q # r, pc[q] \in StatementSteps \cup {"verify", "verifying"}
        PROVE  /\ user'[connection[q]] = user[connection[q]]
               /\ organization'[connection[q]] = organization[connection[q]]
               /\ connection'[q] = connection[q]
    <3>1. connection[q] \in Connections /\ connection[q] # connection[r]
      BY <2>2, ConnectionType DEF ConnectionsAreOwn
    <3>2. QED
      BY <1>2, <2>2, <3>1, EndTransactionCleans DEF TypeOK
  <2>3. QED
    BY <1>1, <2>1, <2>2 DEF TypeOK, ContextsAreOwn, Clean, StatementSteps
<1>7. CapabilitiesAreSeen'
  BY DEF CapabilitiesAreSeen
<1>8. LoginsAreEarned'
  BY <1>1 DEF TypeOK, LoginsAreEarned
<1>9. AccessIsCurrent' /\ TokensAreEarned'
  BY DEF TypeOK, AccessIsCurrent, TokensAreEarned
<1>10. QED
  BY <1>3, <1>4, <1>5, <1>6, <1>7, <1>8, <1>9

\* A request that is refused.
LEMMA RefuseInv ==
    ASSUME AuthenticationInv, NEW r \in Requests, pc[r] # "idle", Refuse(r)
    PROVE  AuthenticationInv'
BY FinishInv DEF Refuse

\* A new request: what its user is at this moment is the first it has seen.
LEMMA ReceiveInv ==
    ASSUME AuthenticationInv, NEW r \in Requests, NEW op \in Operations, Receive(r, op)
    PROVE  AuthenticationInv'
<1>. USE DEF AuthenticationInv, accounts, settings
<1>1. /\ pc[r] = "idle"
      /\ pc' = [pc EXCEPT ![r] = IF op.kind = "login" THEN "connect" ELSE "decode"]
      /\ request' = [request EXCEPT ![r] = op]
      /\ seen' = [seen EXCEPT ![r] = Capabilities(op, active, role)]
      /\ UNCHANGED <<accounts, tokens, settings, connection, loaded, grant>>
  BY DEF Receive, GoTo
<1>2. Capabilities(op, active, role) \subseteq Roles \cup {"active"}
  BY DEF Capabilities
<1>3. TypeOK'
  BY <1>1, <1>2 DEF TypeOK, Steps
<1>4. RequestsAreWhole'
  BY <1>1 DEF TypeOK, RequestsAreWhole, Operations, Logins, Accesses
<1>5. ConnectionsAreOwn'
  BY <1>1 DEF TypeOK, ConnectionsAreOwn, StatementSteps
<1>6. ContextsAreOwn'
  BY <1>1 DEF TypeOK, ContextsAreOwn, Clean
<1>7. CapabilitiesAreSeen'
  BY <1>1 DEF TypeOK, CapabilitiesAreSeen
<1>8. grant[r] = Null /\ ~loaded[r]
  BY <1>1 DEF RequestsAreWhole
<1>9. LoginsAreEarned'
  BY <1>1, <1>8 DEF TypeOK, LoginsAreEarned
<1>10. AccessIsCurrent' /\ TokensAreEarned'
  BY <1>1, <1>8 DEF TypeOK, AccessIsCurrent, TokensAreEarned
<1>11. QED
  BY <1>1, <1>3, <1>4, <1>5, <1>6, <1>7, <1>9, <1>10

\* The pool hands out a connection that no request has: it is clean.
LEMMA ConnectInv ==
    ASSUME AuthenticationInv, NEW r \in Requests, Connect(r)
    PROVE  AuthenticationInv'
<1>. USE DEF AuthenticationInv, accounts, settings
<1>1. PICK c \in Connections : /\ \A q \in Requests : connection[q] # c
                               /\ connection' = [connection EXCEPT ![r] = c]
  BY DEF Connect
<1>2. /\ pc[r] = "connect"
      /\ pc' = [pc EXCEPT ![r] = IF request[r].kind = "login"
                                  THEN "find_user" ELSE "user_context"]
      /\ UNCHANGED <<accounts, tokens, settings, request, loaded, grant, seen>>
  BY DEF Connect, GoTo
<1>3. TypeOK'
  BY <1>1, <1>2 DEF TypeOK, Steps, StatementSteps
<1>4. RequestsAreWhole'
  BY <1>2 DEF TypeOK, RequestsAreWhole, Operations, Logins, Accesses
<1>5. ConnectionsAreOwn'
  BY <1>1, <1>2 DEF TypeOK, ConnectionsAreOwn, StatementSteps
<1>6. ContextsAreOwn'
  <2>1. Clean(user, c) /\ Clean(organization, c)
    BY <1>1 DEF ContextsAreOwn
  <2>2. \A d \in Connections : (\A q \in Requests : connection'[q] # d) =>
            \A q \in Requests : connection[q] # d
    BY <1>1, <1>2 DEF TypeOK, ConnectionsAreOwn, StatementSteps
  <2>3. QED
    BY <1>1, <1>2, <2>1, <2>2 DEF TypeOK, ContextsAreOwn, Clean
<1>7. CapabilitiesAreSeen'
  BY <1>2 DEF CapabilitiesAreSeen
<1>8. LoginsAreEarned'
  BY <1>2 DEF TypeOK, LoginsAreEarned
<1>9. AccessIsCurrent' /\ TokensAreEarned'
  BY <1>2 DEF AccessIsCurrent, TokensAreEarned
<1>10. QED
  BY <1>2, <1>3, <1>4, <1>5, <1>6, <1>7, <1>8, <1>9

\* A login loads its user: if it is active, that has been seen.
LEMMA FindUserInv ==
    ASSUME AuthenticationInv, NEW r \in Requests, FindUser(r)
    PROVE  AuthenticationInv'
<1>. USE DEF AuthenticationInv, accounts, settings
<1>0. pc[r] = "find_user" /\ request[r] \in Logins
  BY DEF FindUser, TypeOK, RequestsAreWhole, Operations, Logins, Accesses
<1>1. CASE Refuse(r)
  BY <1>0, <1>1, RefuseInv
<1>2. CASE ~Refuse(r)
  <2>1. /\ request[r].user # Null
        /\ pc' = [pc EXCEPT ![r] = "verify"]
        /\ loaded' = [loaded EXCEPT ![r] = active[request[r].user]]
        /\ UNCHANGED <<accounts, tokens, settings, connection, request, grant, seen>>
    BY <1>2 DEF FindUser, GoTo
  <2>2. active[request[r].user] \in BOOLEAN
    BY <1>0, <2>1 DEF TypeOK, Logins
  <2>3. TypeOK'
    BY <2>1, <2>2 DEF TypeOK, Steps
  <2>4. RequestsAreWhole'
    BY <1>0, <2>1 DEF TypeOK, RequestsAreWhole
  <2>5. ConnectionsAreOwn'
    BY <1>0, <2>1 DEF TypeOK, ConnectionsAreOwn, StatementSteps
  <2>6. ContextsAreOwn'
    BY <1>0, <2>1 DEF TypeOK, ContextsAreOwn, Clean
  <2>7. CapabilitiesAreSeen'
    BY <2>1 DEF CapabilitiesAreSeen
  <2>8. active[request[r].user] => "active" \in seen[r]
    <3>1. request[r] # Null /\ request[r].kind = "login"
      BY <1>0 DEF Operations, Logins
    <3>2. active[request[r].user] => Capabilities(request[r], active, role) = {"active"}
      BY <2>1, <3>1 DEF Capabilities
    <3>3. QED
      BY <3>2 DEF CapabilitiesAreSeen
  <2>9. LoginsAreEarned'
    BY <1>0, <2>1, <2>8 DEF TypeOK, LoginsAreEarned
  <2>10. AccessIsCurrent' /\ TokensAreEarned'
    BY <2>1 DEF AccessIsCurrent, TokensAreEarned
  <2>11. QED
    BY <2>1, <2>3, <2>4, <2>5, <2>6, <2>7, <2>9, <2>10
<1>3. QED
  BY <1>1, <1>2

\* A step that only moves on, inside the transaction or before it.
LEMMA ProceedInv ==
    ASSUME AuthenticationInv, NEW r \in Requests, NEW step \in Steps, GoTo(r, step),
           \/ pc[r] = "verify" /\ step = "verifying"
           \/ /\ pc[r] = "verifying" /\ step = "user_context"
              /\ request[r].correct /\ loaded[r]
           \/ pc[r] = "decode" /\ step = "connect",
           UNCHANGED <<accounts, tokens, settings, connection, request, loaded, grant, seen>>
    PROVE  AuthenticationInv'
<1>. USE DEF AuthenticationInv, accounts, settings
<1>1. pc' = [pc EXCEPT ![r] = step]
  BY DEF GoTo
<1>2. TypeOK'
  BY <1>1 DEF TypeOK
<1>3. RequestsAreWhole'
  BY <1>1 DEF TypeOK, RequestsAreWhole
<1>4. ConnectionsAreOwn'
  BY <1>1 DEF TypeOK, ConnectionsAreOwn, StatementSteps
<1>5. ContextsAreOwn'
  BY <1>1 DEF TypeOK, ContextsAreOwn, Clean
<1>6. CapabilitiesAreSeen'
  BY DEF CapabilitiesAreSeen
<1>7. LoginsAreEarned'
  BY <1>1 DEF TypeOK, LoginsAreEarned
<1>8. AccessIsCurrent' /\ TokensAreEarned'
  BY DEF AccessIsCurrent, TokensAreEarned
<1>9. QED
  BY <1>2, <1>3, <1>4, <1>5, <1>6, <1>7, <1>8

\* A thread takes up the password.
LEMMA StartVerifyingInv ==
    ASSUME AuthenticationInv, NEW r \in Requests, StartVerifying(r)
    PROVE  AuthenticationInv'
BY ProceedInv DEF StartVerifying, Steps

\* The password was right and the user active when it was loaded, or not.
LEMMA FinishVerifyingInv ==
    ASSUME AuthenticationInv, NEW r \in Requests, FinishVerifying(r)
    PROVE  AuthenticationInv'
BY ProceedInv, RefuseInv DEF FinishVerifying, Steps, StatementSteps

\* The token was valid or it was not.
LEMMA DecodeInv ==
    ASSUME AuthenticationInv, NEW r \in Requests, Decode(r)
    PROVE  AuthenticationInv'
BY ProceedInv, RefuseInv DEF Decode, Steps

\* The user context of a request is that of its own user.
LEMMA SetUserContextInv ==
    ASSUME AuthenticationInv, NEW r \in Requests, SetUserContext(r)
    PROVE  AuthenticationInv'
<1>. USE DEF AuthenticationInv, accounts
<1>1. /\ pc[r] = "user_context"
      /\ user' = [user EXCEPT ![connection[r]] = Subject(r)]
      /\ pc' = [pc EXCEPT ![r] = IF request[r].kind = "login"
                                  THEN "memberships" ELSE "tenant_context"]
      /\ UNCHANGED <<accounts, tokens, organization, connection, request, loaded,
                     grant, seen>>
  BY DEF SetUserContext, GoTo
<1>2. connection[r] \in Connections
  BY <1>1, ConnectionType DEF StatementSteps
<1>3. \/ request[r] \in Logins /\ request[r].user \in Users
      \/ request[r] \in Accesses /\ request[r].claims.user \in Users
  BY <1>1 DEF TypeOK, RequestsAreWhole, Operations, Logins, Accesses, Claims
<1>4. Subject(r) \in Users
  BY <1>3 DEF Subject, Logins, Accesses
<1>5. TypeOK'
  BY <1>1, <1>2, <1>4 DEF TypeOK, Steps, StatementSteps
<1>6. RequestsAreWhole'
  BY <1>1, <1>3 DEF TypeOK, RequestsAreWhole, Logins, Accesses
<1>7. ConnectionsAreOwn'
  BY <1>1 DEF TypeOK, ConnectionsAreOwn, StatementSteps
<1>8. ContextsAreOwn'
  <2>1. ASSUME NEW q \in Requests, q # r, pc[q] = "memberships"
        PROVE  user'[connection[q]] = user[connection[q]]
    BY <1>1, <1>2, <2>1, ConnectionType DEF TypeOK, ConnectionsAreOwn, StatementSteps
  <2>2. request[r].kind = "login" => user'[connection[r]] = request[r].user
    BY <1>1, <1>2 DEF TypeOK, Subject
  <2>3. \A c \in Connections : c # connection[r] => user'[c] = user[c]
    BY <1>1 DEF TypeOK
  <2>4. QED
    BY <1>1, <2>1, <2>2, <2>3 DEF TypeOK, ContextsAreOwn, Clean
<1>9. CapabilitiesAreSeen'
  BY <1>1 DEF CapabilitiesAreSeen
<1>10. LoginsAreEarned'
  BY <1>1 DEF TypeOK, LoginsAreEarned
<1>11. AccessIsCurrent' /\ TokensAreEarned'
  BY <1>1 DEF AccessIsCurrent, TokensAreEarned
<1>12. QED
  BY <1>1, <1>5, <1>6, <1>7, <1>8, <1>9, <1>10, <1>11

\* The tenant context of a login is its membership's, that of an access its claims'.
LEMMA SetTenantContextInv ==
    ASSUME AuthenticationInv, NEW r \in Requests, SetTenantContext(r)
    PROVE  AuthenticationInv'
<1>. USE DEF AuthenticationInv, accounts
<1>1. /\ pc[r] = "tenant_context"
      /\ organization' = [organization EXCEPT ![connection[r]] = Tenant(r)]
      /\ pc' = [pc EXCEPT ![r] = IF request[r].kind = "login"
                                  THEN "commit" ELSE "principal"]
      /\ UNCHANGED <<accounts, tokens, user, connection, request, loaded, grant, seen>>
  BY DEF SetTenantContext, GoTo
<1>2. connection[r] \in Connections
  BY <1>1, ConnectionType DEF StatementSteps
<1>3. \/ request[r] \in Logins /\ grant[r] \in Claims
      \/ request[r] \in Accesses
  BY <1>1 DEF TypeOK, RequestsAreWhole, Operations, Logins, Accesses
<1>4. Tenant(r) \in Organizations
  BY <1>3 DEF Tenant, Logins, Accesses, Claims
<1>5. TypeOK'
  BY <1>1, <1>2, <1>4 DEF TypeOK, Steps, StatementSteps
<1>6. request[r].kind = "access" => grant[r] = Null
  BY <1>1 DEF RequestsAreWhole
<1>7. RequestsAreWhole'
  BY <1>1, <1>3, <1>6 DEF TypeOK, RequestsAreWhole, Logins, Accesses
<1>8. ConnectionsAreOwn'
  BY <1>1 DEF TypeOK, ConnectionsAreOwn, StatementSteps
<1>9. ContextsAreOwn'
  <2>1. ASSUME NEW q \in Requests, q # r,
               pc[q] \in StatementSteps \cup {"verify", "verifying"}
        PROVE  organization'[connection[q]] = organization[connection[q]]
    BY <1>1, <1>2, <2>1, ConnectionType DEF TypeOK, ConnectionsAreOwn
  <2>2. \A c \in Connections : c # connection[r] => organization'[c] = organization[c]
    BY <1>1 DEF TypeOK
  <2>3. QED
    BY <1>1, <2>1, <2>2 DEF TypeOK, ContextsAreOwn, Clean, StatementSteps
<1>10. CapabilitiesAreSeen'
  BY <1>1 DEF CapabilitiesAreSeen
<1>11. LoginsAreEarned'
  BY <1>1 DEF TypeOK, LoginsAreEarned
<1>12. AccessIsCurrent' /\ TokensAreEarned'
  BY <1>1 DEF AccessIsCurrent, TokensAreEarned
<1>13. QED
  BY <1>1, <1>5, <1>7, <1>8, <1>9, <1>10, <1>11, <1>12

\* With no tenant context of anyone's, a login sees all the memberships of its user.
LEMMA MembershipsAreVisible ==
    ASSUME AuthenticationInv, NEW r \in Requests, pc[r] = "memberships"
    PROVE  /\ request[r] \in Logins /\ request[r].user \in Users
           /\ Subject(r) = request[r].user
           /\ MembershipsOf(r) = {o \in Organizations : role[request[r].user][o] # Null}
<1>. USE DEF AuthenticationInv
<1>1. request[r] \in Logins /\ request[r].user \in Users
  BY DEF TypeOK, RequestsAreWhole, Operations, Logins, Accesses
<1>2. Subject(r) = request[r].user
  BY <1>1 DEF Subject, Logins
<1>3. /\ user[connection[r]] = request[r].user
      /\ CurrentSetting(organization[connection[r]]) = Null
  BY DEF ContextsAreOwn, Clean
<1>4. Matches(request[r].user, user[connection[r]])
  BY <1>1, <1>3 DEF Matches, CurrentSetting
<1>5. \A o \in Organizations : Visible(request[r].user, o, connection[r])
  BY <1>3, <1>4 DEF Visible
<1>6. QED
  BY <1>1, <1>2, <1>5 DEF MembershipsOf

\* The one membership of a login's user is granted.
LEMMA SelectMembershipsInv ==
    ASSUME AuthenticationInv, NEW r \in Requests, SelectMemberships(r)
    PROVE  AuthenticationInv'
<1>. USE DEF AuthenticationInv, accounts, settings
<1>0. pc[r] = "memberships"
  BY DEF SelectMemberships
<1>1. CASE Refuse(r)
  BY <1>0, <1>1, RefuseInv
<1>2. CASE ~Refuse(r)
  <2>1. PICK o \in Organizations :
           /\ MembershipsOf(r) = {o}
           /\ grant' = [grant EXCEPT ![r] =
                 [user |-> Subject(r), organization |-> o, role |-> role[Subject(r)][o]]]
    BY <1>2 DEF SelectMemberships
  <2>2. /\ pc' = [pc EXCEPT ![r] = "tenant_context"]
        /\ UNCHANGED <<accounts, tokens, settings, connection, request, loaded, seen>>
    BY <1>2 DEF SelectMemberships, GoTo
  <2>3. /\ request[r] \in Logins /\ request[r].user \in Users
        /\ Subject(r) = request[r].user /\ role[request[r].user][o] # Null
    BY <1>0, <2>1, MembershipsAreVisible
  <2>4. role[request[r].user][o] \in Roles
    BY <2>3 DEF TypeOK
  <2>. DEFINE granted == [user |-> request[r].user, organization |-> o,
                          role |-> role[request[r].user][o]]
  <2>5. granted \in Claims /\ grant' = [grant EXCEPT ![r] = granted]
    BY <2>1, <2>3, <2>4 DEF Claims
  <2>6. granted.user = request[r].user /\ granted # Null
    BY <2>5
  <2>. HIDE DEF granted
  <2>7. request[r].kind = "login"
    BY <2>3 DEF Logins
  <2>8. TypeOK'
    BY <2>2, <2>5 DEF TypeOK, Steps, StatementSteps
  <2>9. RequestsAreWhole'
    BY <1>0, <2>2, <2>5, <2>6, <2>7 DEF TypeOK, RequestsAreWhole
  <2>10. ConnectionsAreOwn'
    BY <1>0, <2>2 DEF TypeOK, ConnectionsAreOwn, StatementSteps
  <2>11. ContextsAreOwn'
    BY <1>0, <2>2 DEF TypeOK, ContextsAreOwn, Clean
  <2>12. CapabilitiesAreSeen'
    BY <2>2 DEF CapabilitiesAreSeen
  <2>13. LoginsAreEarned'
    BY <1>0, <2>2 DEF TypeOK, LoginsAreEarned
  <2>14. AccessIsCurrent'
    BY <2>2, <2>5, <2>7 DEF TypeOK, AccessIsCurrent
  <2>15. request[r].correct /\ "active" \in seen[r]
    BY <1>0, <2>7 DEF LoginsAreEarned, RequestsAreWhole
  <2>16. TokensAreEarned'
    BY <2>2, <2>5, <2>6, <2>15 DEF TypeOK, TokensAreEarned
  <2>17. QED
    BY <2>2, <2>8, <2>9, <2>10, <2>11, <2>12, <2>13, <2>14, <2>16
<1>3. QED
  BY <1>1, <1>2

\* The role that a principal is given is one that its user has at this moment.
LEMMA SelectPrincipalInv ==
    ASSUME AuthenticationInv, NEW r \in Requests, SelectPrincipal(r)
    PROVE  AuthenticationInv'
<1>. USE DEF AuthenticationInv, accounts, settings
<1>0. pc[r] = "principal"
  BY DEF SelectPrincipal
<1>1. CASE Refuse(r)
  BY <1>0, <1>1, RefuseInv
<1>2. CASE ~Refuse(r)
  <2>. DEFINE claims == request[r].claims
              current == role[claims.user][claims.organization]
              principal == [claims EXCEPT !.role = current]
  <2>1. /\ IsCurrentMember(r)
        /\ request[r].ownersOnly => current = "owner"
        /\ grant' = [grant EXCEPT ![r] = principal]
        /\ pc' = [pc EXCEPT ![r] = "commit"]
        /\ UNCHANGED <<accounts, tokens, settings, connection, request, loaded, seen>>
    BY <1>2 DEF SelectPrincipal, GoTo
  <2>2. request[r] \in Accesses
    BY <1>0 DEF TypeOK, RequestsAreWhole, Operations, Logins, Accesses
  <2>3. request[r].kind = "access" /\ claims \in Claims /\ request[r] # Null
    BY <2>2 DEF Accesses, Operations
  <2>4. active[claims.user] /\ current # Null
    BY <2>1 DEF IsCurrentMember
  <2>5. current \in Roles
    BY <2>3, <2>4 DEF TypeOK, Claims
  <2>6. principal \in Claims /\ principal.role = current
    BY <2>3, <2>5 DEF Claims
  <2>7. current \in seen[r]
    <3>1. Capabilities(request[r], active, role) = {current} \cap Roles
      BY <2>3, <2>4 DEF Capabilities
    <3>2. QED
      BY <2>5, <3>1 DEF CapabilitiesAreSeen
  <2>. HIDE DEF principal, current
  <2>8. TypeOK'
    BY <2>1, <2>6 DEF TypeOK, Steps, StatementSteps
  <2>9. RequestsAreWhole'
    BY <1>0, <2>1 DEF TypeOK, RequestsAreWhole
  <2>10. ConnectionsAreOwn'
    BY <1>0, <2>1 DEF TypeOK, ConnectionsAreOwn, StatementSteps
  <2>11. ContextsAreOwn'
    BY <1>0, <2>1 DEF TypeOK, ContextsAreOwn, Clean
  <2>12. CapabilitiesAreSeen'
    BY <2>1 DEF CapabilitiesAreSeen
  <2>13. LoginsAreEarned'
    BY <1>0, <2>1 DEF TypeOK, LoginsAreEarned
  <2>14. AccessIsCurrent'
    BY <2>1, <2>6, <2>7 DEF TypeOK, AccessIsCurrent
  <2>15. TokensAreEarned'
    BY <2>1, <2>3 DEF TypeOK, TokensAreEarned
  <2>16. QED
    BY <2>1, <2>8, <2>9, <2>10, <2>11, <2>12, <2>13, <2>14, <2>15
<1>3. QED
  BY <1>1, <1>2

\* A commit.
LEMMA CommitInv ==
    ASSUME AuthenticationInv, NEW r \in Requests, Commit(r)
    PROVE  AuthenticationInv'
BY FinishInv DEF Commit

\* A slot becomes free: the request has no connection any more.
LEMMA RespondInv ==
    ASSUME AuthenticationInv, NEW r \in Requests, Respond(r)
    PROVE  AuthenticationInv'
<1>. USE DEF AuthenticationInv, accounts, settings
<1>1. /\ pc[r] = "respond"
      /\ pc' = [pc EXCEPT ![r] = "idle"]
      /\ request' = [request EXCEPT ![r] = Null]
      /\ loaded' = [loaded EXCEPT ![r] = FALSE]
      /\ grant' = [grant EXCEPT ![r] = Null]
      /\ seen' = [seen EXCEPT ![r] = {}]
      /\ UNCHANGED <<accounts, settings, connection>>
  BY DEF Respond, GoTo
<1>2. tokens' \subseteq Claims
  BY DEF Respond, TypeOK
<1>3. TypeOK'
  BY <1>1, <1>2 DEF TypeOK, Steps
<1>4. RequestsAreWhole'
  BY <1>1 DEF TypeOK, RequestsAreWhole
<1>5. ConnectionsAreOwn'
  BY <1>1 DEF TypeOK, ConnectionsAreOwn, StatementSteps
<1>6. ContextsAreOwn'
  BY <1>1 DEF TypeOK, ContextsAreOwn, Clean
<1>7. CapabilitiesAreSeen'
  <2>1. Capabilities(Null, active, role) = {}
    BY DEF Capabilities
  <2>2. QED
    BY <1>1, <2>1 DEF TypeOK, CapabilitiesAreSeen
<1>8. LoginsAreEarned'
  BY <1>1 DEF TypeOK, LoginsAreEarned
<1>9. AccessIsCurrent' /\ TokensAreEarned'
  BY <1>1 DEF TypeOK, AccessIsCurrent, TokensAreEarned
<1>10. QED
  BY <1>1, <1>3, <1>4, <1>5, <1>6, <1>7, <1>8, <1>9

\* A broken connection leaves the pool with its contexts.
LEMMA BreakConnectionInv ==
    ASSUME AuthenticationInv, NEW r \in Requests, BreakConnection(r)
    PROVE  AuthenticationInv'
<1>. USE DEF AuthenticationInv, accounts
<1>1. /\ pc[r] \in StatementSteps
      /\ user' = [user EXCEPT ![connection[r]] = Null]
      /\ organization' = [organization EXCEPT ![connection[r]] = Null]
      /\ connection' = [connection EXCEPT ![r] = Null]
      /\ pc' = [pc EXCEPT ![r] = "respond"]
      /\ grant' = [grant EXCEPT ![r] = Null]
      /\ UNCHANGED <<accounts, tokens, request, loaded, seen>>
  BY DEF BreakConnection, GoTo
<1>2. connection[r] \in Connections
  BY <1>1, ConnectionType
<1>3. TypeOK'
  BY <1>1, <1>2 DEF TypeOK, Steps
<1>4. RequestsAreWhole'
  BY <1>1 DEF TypeOK, RequestsAreWhole, StatementSteps
<1>5. ConnectionsAreOwn'
  BY <1>1 DEF TypeOK, ConnectionsAreOwn, StatementSteps
<1>6. ContextsAreOwn'
  <2>1. Clean(user', connection[r]) /\ Clean(organization', connection[r])
    BY <1>1, <1>2 DEF TypeOK, Clean, CurrentSetting
  <2>2. \A c \in Connections : c # connection[r] =>
           user'[c] = user[c] /\ organization'[c] = organization[c]
    BY <1>1 DEF TypeOK
  <2>3. \A c \in Connections :
           (\A q \in Requests : connection'[q] # c) /\ c # connection[r] =>
              \A q \in Requests : connection[q] # c
    BY <1>1 DEF TypeOK
  <2>4. ASSUME NEW q \in Requests, q # r, pc[q] \in StatementSteps \cup {"verify", "verifying"}
        PROVE  /\ connection[q] \in Connections /\ connection[q] # connection[r]
               /\ connection'[q] = connection[q]
    BY <1>1, <2>4, ConnectionType DEF TypeOK, ConnectionsAreOwn
  <2>5. QED
    BY <1>1, <2>1, <2>2, <2>3, <2>4 DEF TypeOK, ContextsAreOwn, Clean, StatementSteps
<1>7. CapabilitiesAreSeen'
  BY <1>1 DEF CapabilitiesAreSeen
<1>8. LoginsAreEarned'
  BY <1>1 DEF TypeOK, LoginsAreEarned
<1>9. AccessIsCurrent' /\ TokensAreEarned'
  BY <1>1 DEF TypeOK, AccessIsCurrent, TokensAreEarned
<1>10. QED
  BY <1>3, <1>4, <1>5, <1>6, <1>7, <1>8, <1>9

\* A change of accounts is seen by every request in flight, and nobody forgets.
LEMMA ChangeInv ==
    ASSUME AuthenticationInv, Change, Witnessed(active', role'),
           active' \in [Users -> BOOLEAN],
           role' \in [Users -> [Organizations -> Roles \cup {Null}]],
           UNCHANGED <<tokens, settings, connection, pc, request, loaded, grant>>
    PROVE  AuthenticationInv'
<1>. USE DEF AuthenticationInv, settings
<1>1. \A op : Capabilities(op, active', role') \subseteq Roles \cup {"active"}
  BY DEF Capabilities
<1>2. seen' = [r \in Requests |->
                 seen[r] \cup Capabilities(request[r], active', role')]
  BY DEF Witnessed
<1>3. \A r \in Requests : seen[r] \subseteq seen'[r]
  BY <1>2
<1>4. changes' \in 0..MaxChanges
  BY DEF Change, TypeOK
<1>5. TypeOK'
  BY <1>1, <1>2, <1>4 DEF TypeOK
<1>6. RequestsAreWhole' /\ ConnectionsAreOwn' /\ ContextsAreOwn'
  BY DEF RequestsAreWhole, ConnectionsAreOwn, ContextsAreOwn, Clean
<1>7. CapabilitiesAreSeen'
  BY <1>2 DEF CapabilitiesAreSeen
<1>8. LoginsAreEarned' /\ AccessIsCurrent' /\ TokensAreEarned'
  BY <1>3 DEF LoginsAreEarned, AccessIsCurrent, TokensAreEarned
<1>9. QED
  BY <1>5, <1>6, <1>7, <1>8

\* A user is activated or deactivated.
LEMMA SetActiveInv ==
    ASSUME AuthenticationInv, NEW u \in Users, SetActive(u)
    PROVE  AuthenticationInv'
<1>1. active' \in [Users -> BOOLEAN] /\ role' = role
  BY DEF AuthenticationInv, TypeOK, SetActive
<1>2. role' \in [Users -> [Organizations -> Roles \cup {Null}]]
  BY <1>1 DEF AuthenticationInv, TypeOK
<1>3. Witnessed(active', role')
  BY <1>1 DEF SetActive, Witnessed
<1>4. QED
  BY <1>1, <1>2, <1>3, ChangeInv DEF SetActive

\* A membership is added, changed or removed.
LEMMA SetRoleInv ==
    ASSUME AuthenticationInv, NEW u \in Users, NEW o \in Organizations,
           NEW new \in Roles \cup {Null}, SetRole(u, o, new)
    PROVE  AuthenticationInv'
<1>1. role' \in [Users -> [Organizations -> Roles \cup {Null}]] /\ active' = active
  BY DEF AuthenticationInv, TypeOK, SetRole
<1>2. active' \in [Users -> BOOLEAN]
  BY <1>1 DEF AuthenticationInv, TypeOK
<1>3. Witnessed(active', role')
  BY <1>1 DEF SetRole, Witnessed
<1>4. QED
  BY <1>1, <1>2, <1>3, ChangeInv DEF SetRole

-----------------------------------------------------------------------------
(* The theorems *)

\* No request, no context and no token is there at first.
LEMMA InitInv == Init => AuthenticationInv
<1>. SUFFICES ASSUME Init PROVE AuthenticationInv
  OBVIOUS
<1>. USE DEF Init
<1>1. TypeOK
  BY DEF TypeOK, Steps, Roles
<1>2. RequestsAreWhole /\ ConnectionsAreOwn
  BY DEF RequestsAreWhole, ConnectionsAreOwn, StatementSteps
<1>3. ContextsAreOwn
  BY DEF ContextsAreOwn, Clean, CurrentSetting
<1>4. CapabilitiesAreSeen
  BY DEF CapabilitiesAreSeen, Capabilities
<1>5. LoginsAreEarned /\ AccessIsCurrent /\ TokensAreEarned
  BY DEF LoginsAreEarned, AccessIsCurrent, TokensAreEarned
<1>6. QED
  BY <1>1, <1>2, <1>3, <1>4, <1>5 DEF AuthenticationInv

\* Nothing changes in a stuttering step.
LEMMA StutterInv == AuthenticationInv /\ UNCHANGED vars => AuthenticationInv'
<1>. SUFFICES ASSUME AuthenticationInv, UNCHANGED vars PROVE AuthenticationInv'
  OBVIOUS
<1>. USE DEF AuthenticationInv, vars
<1>1. TypeOK'
  BY DEF TypeOK
<1>2. RequestsAreWhole' /\ ConnectionsAreOwn' /\ ContextsAreOwn'
  BY DEF RequestsAreWhole, ConnectionsAreOwn, ContextsAreOwn, Clean
<1>3. CapabilitiesAreSeen' /\ LoginsAreEarned'
  BY DEF CapabilitiesAreSeen, LoginsAreEarned
<1>4. AccessIsCurrent' /\ TokensAreEarned'
  BY DEF AccessIsCurrent, TokensAreEarned
<1>5. QED
  BY <1>1, <1>2, <1>3, <1>4

\* The invariant is inductive.
LEMMA NextInv == AuthenticationInv /\ [Next]_vars => AuthenticationInv'
<1>. SUFFICES ASSUME AuthenticationInv, [Next]_vars PROVE AuthenticationInv'
  OBVIOUS
<1>1. ASSUME NEW r \in Requests, NEW op \in Operations, Receive(r, op)
      PROVE  AuthenticationInv'
  BY <1>1, ReceiveInv
<1>2. ASSUME NEW r \in Requests, RequestStep(r)
      PROVE  AuthenticationInv'
  BY <1>2, ConnectInv, SetUserContextInv, SetTenantContextInv, CommitInv, RespondInv,
     FindUserInv, StartVerifyingInv, FinishVerifyingInv, SelectMembershipsInv,
     DecodeInv, SelectPrincipalInv
  DEF RequestStep, LoginStep, AccessStep
<1>3. ASSUME NEW r \in Requests, BreakConnection(r) \/ PoolTimeout(r)
      PROVE  AuthenticationInv'
  BY <1>3, BreakConnectionInv, RefuseInv DEF PoolTimeout
<1>4. ASSUME NEW u \in Users, SetActive(u)
      PROVE  AuthenticationInv'
  BY <1>4, SetActiveInv
<1>5. ASSUME NEW u \in Users, NEW o \in Organizations, NEW new \in Roles \cup {Null},
             SetRole(u, o, new)
      PROVE  AuthenticationInv'
  BY <1>5, SetRoleInv
<1>6. QED
  BY <1>1, <1>2, <1>3, <1>4, <1>5, StutterInv DEF Next

\* In every reachable state of any instance, requests, connections, contexts and
\* grants fit together.
THEOREM InvariantHolds == Spec => []AuthenticationInv
BY InitInv, NextInv, PTL DEF Spec

\* Every variable keeps its type.
THEOREM TypeCorrect == Spec => []TypeOK
<1>1. AuthenticationInv => TypeOK
  BY DEF AuthenticationInv
<1>2. QED
  BY <1>1, InvariantHolds, PTL

\* get_current_principal and require_owner go by what the user was since the
\* request came in, never by what the token says or what was true before.
THEOREM AccessStaysCurrent == Spec => []AccessIsCurrent
<1>1. AuthenticationInv => AccessIsCurrent
  BY DEF AuthenticationInv
<1>2. QED
  BY <1>1, InvariantHolds, PTL

\* authenticate_user makes tokens only for the right password of a user that was
\* active at some moment since the login came in.
THEOREM TokensStayEarned == Spec => []TokensAreEarned
<1>1. AuthenticationInv => TokensAreEarned
  BY DEF AuthenticationInv
<1>2. QED
  BY <1>1, InvariantHolds, PTL

\* Whatever the connection served before, authenticate_user infers an organization
\* only when it is the user's one and only membership.
THEOREM OneMembershipIsInferred == Spec => OnlyMembershipIsInferred
<1>. DEFINE Inferred == \A r \in Requests :
        pc[r] = "memberships" /\ pc'[r] = "tenant_context" =>
            {o \in Organizations : role[request[r].user][o] # Null}
                = {grant'[r].organization}
<1>1. ASSUME AuthenticationInv, [Next]_vars
      PROVE  [Inferred]_vars
  <2>. SUFFICES ASSUME NEW r \in Requests,
                       pc[r] = "memberships", pc'[r] = "tenant_context"
                PROVE  {o \in Organizations : role[request[r].user][o] # Null}
                          = {grant'[r].organization}
    OBVIOUS
  <2>1. SelectMemberships(r)
    <3>. USE <1>1 DEF AuthenticationInv, TypeOK, GoTo
    <3>1. ASSUME NEW q \in Requests, q # r
          PROVE  ~RequestStep(q) /\ ~BreakConnection(q) /\ ~PoolTimeout(q)
      <4>1. ~RequestStep(q)
        BY <3>1 DEF RequestStep, LoginStep, AccessStep, Connect, SetUserContext,
           SetTenantContext, Commit, Respond, FindUser, StartVerifying, FinishVerifying,
           SelectMemberships, Decode, SelectPrincipal, Refuse
      <4>2. ~BreakConnection(q) /\ ~PoolTimeout(q)
        BY <3>1 DEF BreakConnection, PoolTimeout, Refuse
      <4>3. QED
        BY <4>1, <4>2
    <3>2. \A q \in Requests, op \in Operations : ~Receive(q, op)
      BY DEF Receive
    <3>3. /\ \A u \in Users : ~SetActive(u)
          /\ \A u \in Users, o \in Organizations, new \in Roles \cup {Null} :
                ~SetRole(u, o, new)
      BY DEF SetActive, SetRole
    <3>4. ~BreakConnection(r) /\ ~PoolTimeout(r)
      BY DEF BreakConnection, PoolTimeout
    <3>5. RequestStep(r)
      BY <3>1, <3>2, <3>3, <3>4 DEF Next, vars
    <3>6. QED
      BY <3>5 DEF RequestStep, LoginStep, AccessStep, Connect, SetUserContext,
         SetTenantContext, Commit, Respond, FindUser, StartVerifying, FinishVerifying,
         Decode, SelectPrincipal
  <2>2. ~Refuse(r)
    BY <1>1 DEF AuthenticationInv, TypeOK, Refuse, GoTo
  <2>3. PICK o \in Organizations :
           /\ MembershipsOf(r) = {o}
           /\ grant' = [grant EXCEPT ![r] =
                 [user |-> Subject(r), organization |-> o, role |-> role[Subject(r)][o]]]
    BY <2>1, <2>2 DEF SelectMemberships
  <2>4. grant'[r].organization = o
    BY <1>1, <2>3 DEF AuthenticationInv, TypeOK
  <2>5. QED
    BY <1>1, <2>3, <2>4, MembershipsAreVisible
<1>2. QED
  BY <1>1, InvariantHolds, PTL DEF Spec, OnlyMembershipIsInferred

=============================================================================
