--------------------------- MODULE Authentication ---------------------------
(***************************************************************************)
(* Login (authenticate_user) and authorization (get_current_principal and  *)
(* require_owner), any number of requests at a time, over a pool of        *)
(* connections that outlive their transactions, while somebody activates,  *)
(* deactivates, promotes, demotes and removes the users they are about.    *)
(*                                                                         *)
(* A request is cut at its awaits.  A request that finds no free           *)
(* connection, or no free thread for its password check, waits; a login    *)
(* holds its connection while its password is checked.                     *)
(***************************************************************************)
EXTENDS Rls, Naturals, FiniteSets

CONSTANTS
    Requests,       \* request slots
    Users,
    Organizations,
    Connections,    \* of the engine's pool
    Threads,        \* how many password checks run at a time
    MaxChanges      \* bound on changes to the accounts

Roles == {"owner", "viewer"}

\* AccessTokenClaims: what a token says, and with the current role what an
\* AuthenticatedPrincipal says.
Claims == [user : Users, organization : Organizations, role : Roles]

\* POST /auth/login; no user has the email address when user is Null.
Logins == [kind : {"login"}, user : Users \cup {Null}, correct : BOOLEAN]
\* A request with a bearer token, to a route for any member or for owners only.
Accesses == [kind : {"access"}, claims : Claims, ownersOnly : BOOLEAN]
Operations == Logins \cup Accesses

ASSUME BoundsAssumption == Threads \in Nat \ {0} /\ MaxChanges \in Nat
ASSUME NullAssumption ==
    /\ Null \notin Users /\ Null \notin Claims /\ Null \notin Connections
    /\ Null \notin Organizations /\ Null \notin Operations
ASSUME SettingAssumption == Empty \notin Users /\ Empty \notin Organizations

VARIABLES
    active,       \* users.is_active
    role,         \* the role of each membership; Null where there is none
    tokens,       \* the claims of the tokens that clients hold
    user,         \* relaymaid.user_id on each connection
    organization, \* relaymaid.organization_id on each connection
    connection,   \* the connection of each request; Null when it has none
    pc,           \* the step each request executes next
    request,
    loaded,       \* is_active in the User object that a login has loaded
    grant,        \* what a request was found entitled to: the claims of its
                  \* token to be, or its principal
    seen,         \* history: see Capabilities
    changes       \* changes made to the accounts so far

accounts == <<active, role, changes>>
settings == <<user, organization>>
vars == <<active, role, tokens, user, organization, connection, pc, request,
          loaded, grant, seen, changes>>

StatementSteps == {"find_user", "user_context", "memberships", "tenant_context",
                   "principal", "commit"}
Steps == StatementSteps \cup {"idle", "decode", "connect", "verify", "verifying",
                              "respond"}

TypeOK ==
    /\ active \in [Users -> BOOLEAN]
    /\ role \in [Users -> [Organizations -> Roles \cup {Null}]]
    /\ tokens \subseteq Claims
    /\ user \in [Connections -> Users \cup {Null, Empty}]
    /\ organization \in [Connections -> Organizations \cup {Null, Empty}]
    /\ connection \in [Requests -> Connections \cup {Null}]
    /\ pc \in [Requests -> Steps]
    /\ request \in [Requests -> Operations \cup {Null}]
    /\ loaded \in [Requests -> BOOLEAN]
    /\ grant \in [Requests -> Claims \cup {Null}]
    /\ seen \in [Requests -> SUBSET (Roles \cup {"active"})]
    /\ changes \in 0..MaxChanges

\* Some users have an organization; no connection has ever been used.
Init ==
    /\ active = [u \in Users |-> TRUE]
    /\ role \in [Users -> [Organizations -> {"owner", Null}]]
    /\ tokens = {}
    /\ user = [c \in Connections |-> Null]
    /\ organization = [c \in Connections |-> Null]
    /\ connection = [r \in Requests |-> Null]
    /\ pc = [r \in Requests |-> "idle"]
    /\ request = [r \in Requests |-> Null]
    /\ loaded = [r \in Requests |-> FALSE]
    /\ grant = [r \in Requests |-> Null]
    /\ seen = [r \in Requests |-> {}]
    /\ changes = 0

-----------------------------------------------------------------------------
(* Helpers *)

\* What the user of an operation could have been found to be: "active" for a
\* login, the role of an active member for an access.
Capabilities(op, isActive, roleOf) ==
    IF op = Null THEN {}
    ELSE IF op.kind = "login"
         THEN IF op.user # Null /\ isActive[op.user] THEN {"active"} ELSE {}
         ELSE IF isActive[op.claims.user]
              THEN {roleOf[op.claims.user][op.claims.organization]} \cap Roles
              ELSE {}

\* The user whose email address or token a request carries.
Subject(r) ==
    IF request[r].kind = "login" THEN request[r].user ELSE request[r].claims.user

\* The organization a request works in, once it is known.
Tenant(r) ==
    IF request[r].kind = "login" THEN grant[r].organization
                                 ELSE request[r].claims.organization

GoTo(r, step) == pc' = [pc EXCEPT ![r] = step]

\* A setting made with is_local reverts to what the session has: '' from then on.
Reverted(setting, c) == [setting EXCEPT ![c] = IF @ = Null THEN Null ELSE Empty]

\* Variant of EndTransaction: set_config(..., false), for the whole session.
SettingsSurvive(r) ==
    /\ UNCHANGED settings
    /\ connection' = [connection EXCEPT ![r] = Null]

\* Variant of EndTransaction: the session is never closed.
ConnectionKept(r) ==
    IF connection[r] = Null
    THEN UNCHANGED <<settings, connection>>
    ELSE /\ user' = Reverted(user, connection[r])
         /\ organization' = Reverted(organization, connection[r])
         /\ UNCHANGED connection

\* Commit or rollback, and the session gives its connection back.
EndTransaction(r) ==
    IF connection[r] = Null
    THEN UNCHANGED <<settings, connection>>
    ELSE /\ user' = Reverted(user, connection[r])
         /\ organization' = Reverted(organization, connection[r])
         /\ connection' = [connection EXCEPT ![r] = Null]

\* InvalidCredentialsError, 401 or 403: session.begin() rolls back.
Refuse(r) ==
    /\ EndTransaction(r)
    /\ GoTo(r, "respond")
    /\ grant' = [grant EXCEPT ![r] = Null]
    /\ UNCHANGED <<accounts, tokens, request, loaded, seen>>

\* The rows of memberships that membership_select_own shows on a connection.
Visible(u, o, c) ==
    /\ Matches(u, user[c])
    /\ \/ CurrentSetting(organization[c]) = Null
       \/ Matches(o, organization[c])

\* The rows that a login's SELECT of its memberships returns.
MembershipsOf(r) ==
    {o \in Organizations : /\ role[Subject(r)][o] # Null
                           /\ Visible(Subject(r), o, connection[r])}

-----------------------------------------------------------------------------
(* Every request *)

\* A login, or an access with a token that some login has handed out.
Receive(r, op) ==
    /\ pc[r] = "idle"
    /\ op.kind = "access" => op.claims \in tokens
    /\ GoTo(r, IF op.kind = "login" THEN "connect" ELSE "decode")
    /\ request' = [request EXCEPT ![r] = op]
    /\ seen' = [seen EXCEPT ![r] = Capabilities(op, active, role)]
    /\ UNCHANGED <<accounts, tokens, settings, connection, loaded, grant>>

\* Variant of Connect: one connection for everyone.
SharedConnection(r) ==
    /\ pc[r] = "connect"
    /\ \E c \in Connections : connection' = [connection EXCEPT ![r] = c]
    /\ GoTo(r, IF request[r].kind = "login" THEN "find_user" ELSE "user_context")
    /\ UNCHANGED <<accounts, tokens, settings, request, loaded, grant, seen>>

\* The first statement of a session takes a connection out of the pool.
Connect(r) ==
    /\ pc[r] = "connect"
    /\ \E c \in Connections :
          /\ \A q \in Requests : connection[q] # c
          /\ connection' = [connection EXCEPT ![r] = c]
    /\ GoTo(r, IF request[r].kind = "login" THEN "find_user" ELSE "user_context")
    /\ UNCHANGED <<accounts, tokens, settings, request, loaded, grant, seen>>

\* set_user_context(session, user_id)
SetUserContext(r) ==
    /\ pc[r] = "user_context"
    /\ user' = [user EXCEPT ![connection[r]] = Subject(r)]
    /\ GoTo(r, IF request[r].kind = "login" THEN "memberships" ELSE "tenant_context")
    /\ UNCHANGED <<accounts, tokens, organization, connection, request, loaded,
                   grant, seen>>

\* set_tenant_context(session, organization_id)
SetTenantContext(r) ==
    /\ pc[r] = "tenant_context"
    /\ organization' = [organization EXCEPT ![connection[r]] = Tenant(r)]
    /\ GoTo(r, IF request[r].kind = "login" THEN "commit" ELSE "principal")
    /\ UNCHANGED <<accounts, tokens, user, connection, request, loaded, grant, seen>>

\* The route is done and its transaction commits.
Commit(r) ==
    /\ pc[r] = "commit"
    /\ EndTransaction(r)
    /\ GoTo(r, "respond")
    /\ UNCHANGED <<accounts, tokens, request, loaded, grant, seen>>

\* The answer leaves; that of a successful login carries the token.
Respond(r) ==
    /\ pc[r] = "respond"
    /\ tokens' = IF request[r].kind = "login" /\ grant[r] # Null
                 THEN tokens \cup {grant[r]} ELSE tokens
    /\ GoTo(r, "idle")
    /\ request' = [request EXCEPT ![r] = Null]
    /\ loaded' = [loaded EXCEPT ![r] = FALSE]
    /\ grant' = [grant EXCEPT ![r] = Null]
    /\ seen' = [seen EXCEPT ![r] = {}]
    /\ UNCHANGED <<accounts, settings, connection>>

-----------------------------------------------------------------------------
(* Login *)

\* SELECT the user by email address: the object keeps the is_active it read.
FindUser(r) ==
    /\ pc[r] = "find_user"
    /\ \/ /\ request[r].user = Null
          /\ Refuse(r)
       \/ /\ request[r].user # Null
          /\ loaded' = [loaded EXCEPT ![r] = active[request[r].user]]
          /\ GoTo(r, "verify")
          /\ UNCHANGED <<accounts, tokens, settings, connection, request, grant, seen>>

\* to_thread.run_sync(verify_password, ...) gets a thread.
StartVerifying(r) ==
    /\ pc[r] = "verify"
    /\ Cardinality({q \in Requests : pc[q] = "verifying"}) < Threads
    /\ GoTo(r, "verifying")
    /\ UNCHANGED <<accounts, tokens, settings, connection, request, loaded, grant, seen>>

\* Variant of FinishVerifying: is_active is not looked at.
ActiveUnchecked(r) ==
    /\ pc[r] = "verifying"
    /\ \/ /\ ~request[r].correct
          /\ Refuse(r)
       \/ /\ request[r].correct
          /\ GoTo(r, "user_context")
          /\ UNCHANGED <<accounts, tokens, settings, connection, request, loaded,
                         grant, seen>>

\* if not password_matches or not user.is_active
FinishVerifying(r) ==
    /\ pc[r] = "verifying"
    /\ \/ /\ ~request[r].correct \/ ~loaded[r]
          /\ Refuse(r)
       \/ /\ request[r].correct /\ loaded[r]
          /\ GoTo(r, "user_context")
          /\ UNCHANGED <<accounts, tokens, settings, connection, request, loaded,
                         grant, seen>>

\* Variant of SelectMemberships: scalar(), whose None is not looked at.
FirstMembership(r) ==
    /\ pc[r] = "memberships"
    /\ \E o \in Organizations \cup {Null} :
          /\ IF MembershipsOf(r) = {} THEN o = Null ELSE o \in MembershipsOf(r)
          /\ grant' = [grant EXCEPT ![r] =
                [user |-> Subject(r), organization |-> o,
                 role |-> IF o = Null THEN "viewer" ELSE role[Subject(r)][o]]]
    /\ GoTo(r, "tenant_context")
    /\ UNCHANGED <<accounts, tokens, settings, connection, request, loaded, seen>>

\* SELECT the user's memberships; anything but exactly one is refused.
SelectMemberships(r) ==
    /\ pc[r] = "memberships"
    /\ \/ /\ \A o \in Organizations : MembershipsOf(r) # {o}
          /\ Refuse(r)
       \/ \E o \in Organizations :
             /\ MembershipsOf(r) = {o}
             /\ grant' = [grant EXCEPT ![r] =
                    [user |-> Subject(r), organization |-> o,
                     role |-> role[Subject(r)][o]]]
             /\ GoTo(r, "tenant_context")
             /\ UNCHANGED <<accounts, tokens, settings, connection, request, loaded, seen>>

-----------------------------------------------------------------------------
(* Access with a token *)

\* decode_access_token: the token may have expired.
Decode(r) ==
    /\ pc[r] = "decode"
    /\ \/ Refuse(r)
       \/ /\ GoTo(r, "connect")
          /\ UNCHANGED <<accounts, tokens, settings, connection, request, loaded,
                         grant, seen>>

\* The rows of the join of users and memberships for the token's claims.
IsCurrentMember(r) ==
    LET claims == request[r].claims IN
    /\ active[claims.user]
    /\ role[claims.user][claims.organization] # Null
    /\ Visible(claims.user, claims.organization, connection[r])

\* Variant of SelectPrincipal: the role claim of the token is trusted.
RoleFromToken(r) ==
    LET claims == request[r].claims IN
    /\ pc[r] = "principal"
    /\ \/ /\ ~IsCurrentMember(r) \/ (request[r].ownersOnly /\ claims.role # "owner")
          /\ Refuse(r)
       \/ /\ IsCurrentMember(r)
          /\ request[r].ownersOnly => claims.role = "owner"
          /\ grant' = [grant EXCEPT ![r] = claims]
          /\ GoTo(r, "commit")
          /\ UNCHANGED <<accounts, tokens, settings, connection, request, loaded, seen>>

\* SELECT the active user and the membership; then, with no await in between,
\* require_owner where the route asks for it.  The route runs up to its commit.
SelectPrincipal(r) ==
    LET claims == request[r].claims
        current == role[claims.user][claims.organization] IN
    /\ pc[r] = "principal"
    /\ \/ /\ ~IsCurrentMember(r) \/ (request[r].ownersOnly /\ current # "owner")
          /\ Refuse(r)
       \/ /\ IsCurrentMember(r)
          /\ request[r].ownersOnly => current = "owner"
          /\ grant' = [grant EXCEPT ![r] = [claims EXCEPT !.role = current]]
          /\ GoTo(r, "commit")
          /\ UNCHANGED <<accounts, tokens, settings, connection, request, loaded, seen>>

-----------------------------------------------------------------------------
(* Around the requests *)

\* A statement finds its connection broken: the request fails, and the pool will
\* open a new connection in place of this one.
BreakConnection(r) ==
    /\ pc[r] \in StatementSteps
    /\ user' = [user EXCEPT ![connection[r]] = Null]
    /\ organization' = [organization EXCEPT ![connection[r]] = Null]
    /\ connection' = [connection EXCEPT ![r] = Null]
    /\ GoTo(r, "respond")
    /\ grant' = [grant EXCEPT ![r] = Null]
    /\ UNCHANGED <<accounts, tokens, request, loaded, seen>>

\* No connection became free within the timeout of the pool.
PoolTimeout(r) ==
    /\ pc[r] = "connect"
    /\ Refuse(r)

\* Every request in flight has now seen these accounts, too.
Witnessed(isActive, roleOf) ==
    seen' = [r \in Requests |->
                seen[r] \cup Capabilities(request[r], isActive, roleOf)]

Change ==
    /\ changes < MaxChanges
    /\ changes' = changes + 1

\* Somebody activates or deactivates a user.
SetActive(u) ==
    /\ Change
    /\ active' = [active EXCEPT ![u] = ~@]
    /\ Witnessed(active', role)
    /\ UNCHANGED <<role, tokens, settings, connection, pc, request, loaded, grant>>

\* Somebody adds, changes or removes a membership.
SetRole(u, o, new) ==
    /\ Change
    /\ role[u][o] # new
    /\ role' = [role EXCEPT ![u][o] = new]
    /\ Witnessed(active, role')
    /\ UNCHANGED <<active, tokens, settings, connection, pc, request, loaded, grant>>

-----------------------------------------------------------------------------

LoginStep(r) ==
    \/ FindUser(r)
    \/ StartVerifying(r)
    \/ FinishVerifying(r)
    \/ SelectMemberships(r)

AccessStep(r) ==
    \/ Decode(r)
    \/ SelectPrincipal(r)

RequestStep(r) ==
    \/ Connect(r)
    \/ SetUserContext(r)
    \/ SetTenantContext(r)
    \/ Commit(r)
    \/ Respond(r)
    \/ LoginStep(r)
    \/ AccessStep(r)

Next ==
    \/ \E r \in Requests, op \in Operations : Receive(r, op)
    \/ \E r \in Requests : RequestStep(r) \/ BreakConnection(r) \/ PoolTimeout(r)
    \/ \E u \in Users : SetActive(u)
    \/ \E u \in Users, o \in Organizations, new \in Roles \cup {Null} :
          SetRole(u, o, new)

\* The pool and the thread limiter serve who waits in the order of arrival.
Fairness ==
    \A r \in Requests : WF_vars(RequestStep(r)) /\ SF_vars(Connect(r))
                          /\ SF_vars(StartVerifying(r))

Spec == Init /\ [][Next]_vars

FairSpec == Spec /\ Fairness

-----------------------------------------------------------------------------
(* Properties *)

\* A principal is what its user was, active, at some moment since the request
\* came in, and a route for owners only runs for owners: what a token says about
\* the role, and what was true before the request, do not count (ADR-002: role
\* changes take effect without waiting for token expiration).
AccessIsCurrent ==
    \A r \in Requests :
        request[r] # Null /\ request[r].kind = "access" /\ grant[r] # Null =>
            /\ grant[r].role \in seen[r]
            /\ request[r].ownersOnly => grant[r].role = "owner"

\* A token is made only for a user that was active at some moment since the login
\* came in and that gave the right password, however long the check of the
\* password waited for a thread.
TokensAreEarned ==
    \A r \in Requests :
        request[r] # Null /\ request[r].kind = "login" /\ grant[r] # Null =>
            /\ request[r].correct
            /\ grant[r].user = request[r].user
            /\ "active" \in seen[r]

\* A login infers an organization only when it is the user's one and only
\* membership; a context that an earlier request left on the pooled connection
\* would hide the others from the SELECT.
OnlyMembershipIsInferred ==
    [][\A r \in Requests :
         pc[r] = "memberships" /\ pc'[r] = "tenant_context" =>
            {o \in Organizations : role[request[r].user][o] # Null}
                = {grant'[r].organization}]_vars

\* Waiting for a connection, or for a thread while holding one, always ends.
EveryRequestEnds ==
    \A r \in Requests : pc[r] # "idle" ~> pc[r] = "idle"

\* What docs/API_CALL_LIFECYCLE.md and ADR-002 say: the tenant context of an
\* access is established after, and by, its validated principal.
PrincipalSetsTheTenant ==
    \A r \in Requests :
        connection[r] # Null /\ CurrentSetting(organization[connection[r]]) # Null
          => grant[r] # Null

-----------------------------------------------------------------------------
(* The inductive invariant behind the safety properties *)

\* Which requests are at which step, and who has a grant there.
RequestsAreWhole ==
    \A r \in Requests :
        /\ pc[r] = "idle" <=> request[r] = Null
        /\ pc[r] = "idle" => ~loaded[r]
        /\ pc[r] \in {"find_user", "verify", "verifying", "memberships"} =>
              request[r].kind = "login"
        /\ pc[r] \in {"decode", "principal"} => request[r].kind = "access"
        /\ pc[r] \in {"verify", "verifying", "user_context", "memberships"}
              /\ request[r].kind = "login" => request[r].user # Null
        /\ grant[r] # Null => pc[r] \in {"tenant_context", "commit", "respond"}
        /\ pc[r] = "tenant_context" => (grant[r] # Null <=> request[r].kind = "login")

\* A request has a connection from its first statement to the end of its
\* transaction, and has it for itself.
ConnectionsAreOwn ==
    \A r \in Requests :
        /\ connection[r] # Null <=> pc[r] \in StatementSteps \cup {"verify", "verifying"}
        /\ \A q \in Requests \ {r} : connection[r] # Null => connection[q] # connection[r]

Clean(setting, c) == CurrentSetting(setting[c]) = Null

\* No context outlives its transaction: a connection in the pool has none, and a
\* request finds on its connection only what it has set itself.
ContextsAreOwn ==
    /\ \A c \in Connections : (\A r \in Requests : connection[r] # c) =>
          Clean(user, c) /\ Clean(organization, c)
    /\ \A r \in Requests :
          /\ pc[r] \in {"find_user", "verify", "verifying", "user_context",
                        "memberships", "tenant_context"} =>
                Clean(organization, connection[r])
          /\ pc[r] = "memberships" => user[connection[r]] = request[r].user

\* What a request's user is now has been seen.
CapabilitiesAreSeen ==
    \A r \in Requests : Capabilities(request[r], active, role) \subseteq seen[r]

\* A login gets past its password check only with the password of a user that was
\* active when it was loaded.
LoginsAreEarned ==
    \A r \in Requests : request[r] # Null /\ request[r].kind = "login" =>
        /\ loaded[r] => "active" \in seen[r]
        /\ pc[r] \in {"user_context", "memberships"} => request[r].correct /\ loaded[r]

AuthenticationInv ==
    /\ TypeOK
    /\ RequestsAreWhole
    /\ ConnectionsAreOwn
    /\ ContextsAreOwn
    /\ CapabilitiesAreSeen
    /\ LoginsAreEarned
    /\ AccessIsCurrent
    /\ TokensAreEarned

=============================================================================
