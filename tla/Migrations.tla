----------------------------- MODULE Migrations -----------------------------
(***************************************************************************)
(* Alembic runs over the ten revisions of the database.  A run reads the   *)
(* revision in alembic_version, executes the upgrade or downgrade scripts  *)
(* between it and its target, rewrites the revision after each of them,    *)
(* and does it all in one transaction (context.begin_transaction).         *)
(*                                                                         *)
(* Nothing keeps two deployments from running it at once.  DDL statements  *)
(* lock what they touch until the transaction ends, so a run may find,     *)
(* after a wait, another schema than the one it started from.              *)
(***************************************************************************)
EXTENDS Naturals, Sequences

CONSTANTS
    Runs,       \* alembic processes
    Targets     \* the revisions they are asked for: 0 is base, 10 is head

ASSUME TargetsAssumption == Targets \subseteq 0..10

-----------------------------------------------------------------------------
(* The catalog: an object goes when what it is on goes, and nothing it uses  *)
(* can be dropped before it.  Constraints declared with a table are part of  *)
(* it, its foreign keys among them: they use other tables.                   *)

Object(name, on, uses) == [name |-> name, on |-> on, uses |-> uses]

Tables == {"organizations", "users", "memberships", "webhook_endpoints", "events",
           "outbox_messages"}

Table(name, references) == Object(name, {}, references)
Function(name) == Object(name, {}, {})
Index(name, table) == Object(name, {table}, {})
Policy(name, table, functions) == Object(name, {table}, functions)

\* Row-level security of a table, and its extension to the table's owner.
RowSecurity(name, table) == Object(name, {table}, {})
ForceRowSecurity(name, table) == Object(name, {table}, {})

OrganizationId == "relaymaid_current_organization_id"
UserId == "relaymaid_current_user_id"
Resolver == "relaymaid_resolve_webhook_endpoint"

Create(object) == [do |-> "create", object |-> object]
Drop(object) == [do |-> "drop", object |-> object]
DropIfExists(object) == [do |-> "drop_if_exists", object |-> object]
\* ENABLE, FORCE and REVOKE may be repeated, DISABLE and NO FORCE too.
Set(object) == [do |-> "set", object |-> object]
Unset(object) == [do |-> "unset", object |-> object]

OwnPolicy(name, table) == Policy(name, table, {OrganizationId})

-----------------------------------------------------------------------------
(* The revisions *)

Organizations == Table("organizations", {})
upgrade_45702c6aa3be == <<Create(Organizations)>>
downgrade_45702c6aa3be == <<Drop(Organizations)>>

Users == Table("users", {})
Memberships == Table("memberships", {"organizations", "users"})
MembershipsIndex == Index("ix_memberships_organization_id", "memberships")
upgrade_190c6e2489b7 == <<Create(Users), Create(Memberships), Create(MembershipsIndex)>>
downgrade_190c6e2489b7 == <<Drop(MembershipsIndex), Drop(Memberships), Drop(Users)>>

OrganizationsSecured == RowSecurity("organizations.row_security", "organizations")
OrganizationsForced == ForceRowSecurity("organizations.force_row_security", "organizations")
OrganizationsSelectOwn == OwnPolicy("organizations_select_own", "organizations")
OrganizationsInsertOwn == OwnPolicy("organizations_insert_own", "organizations")
upgrade_0b9b0fd0fadf ==
    <<Create(Function(OrganizationId)),
      Set(OrganizationsSecured), Set(OrganizationsForced),
      Create(OrganizationsSelectOwn), Create(OrganizationsInsertOwn)>>

downgrade_0b9b0fd0fadf ==
    <<Drop(OrganizationsSelectOwn), Drop(OrganizationsInsertOwn),
      Unset(OrganizationsForced), Unset(OrganizationsSecured),
      Drop(Function(OrganizationId))>>

MembershipsSecured == RowSecurity("memberships.row_security", "memberships")
MembershipsForced == ForceRowSecurity("memberships.force_row_security", "memberships")
MembershipSelectOwn ==
    Policy("membership_select_own", "memberships", {UserId, OrganizationId})
MembershipInsertSelf ==
    Policy("membership_insert_self", "memberships", {UserId, OrganizationId})
upgrade_8fb97b5600aa ==
    <<Create(Function(UserId)),
      Set(MembershipsSecured), Set(MembershipsForced),
      Create(MembershipSelectOwn), Create(MembershipInsertSelf)>>
downgrade_8fb97b5600aa ==
    <<Drop(MembershipInsertSelf), Drop(MembershipSelectOwn),
      Unset(MembershipsForced), Unset(MembershipsSecured),
      Drop(Function(UserId))>>

WebhookEndpoints == Table("webhook_endpoints", {"organizations"})
WebhookEndpointsIndex ==
    Index("ix_webhook_endpoints_organization_id", "webhook_endpoints")
upgrade_6ab4c49ed5e4 == <<Create(WebhookEndpoints), Create(WebhookEndpointsIndex)>>
downgrade_6ab4c49ed5e4 == <<Drop(WebhookEndpointsIndex), Drop(WebhookEndpoints)>>

EndpointsSecured == RowSecurity("webhook_endpoints.row_security", "webhook_endpoints")
EndpointsForced == ForceRowSecurity("webhook_endpoints.force_row_security", "webhook_endpoints")
EndpointsSelectOwn == OwnPolicy("webhook_endpoints_select_own", "webhook_endpoints")
EndpointsInsertOwn == OwnPolicy("webhook_endpoints_insert_own", "webhook_endpoints")
EndpointsUpdateOwn == OwnPolicy("webhook_endpoints_update_own", "webhook_endpoints")
EndpointsDeleteOwn == OwnPolicy("webhook_endpoints_delete_own", "webhook_endpoints")
upgrade_22ea746a840d ==
    <<Set(EndpointsSecured), Set(EndpointsForced),
      Create(EndpointsSelectOwn), Create(EndpointsInsertOwn), Create(EndpointsUpdateOwn)>>
downgrade_22ea746a840d ==
    <<Drop(EndpointsInsertOwn), Drop(EndpointsSelectOwn), Drop(EndpointsUpdateOwn),
      Unset(EndpointsForced), Unset(EndpointsSecured)>>

upgrade_059e21cdb12c == <<Create(EndpointsDeleteOwn)>>
downgrade_059e21cdb12c == <<Drop(EndpointsDeleteOwn)>>

ResolverOwnerSelect ==
    Policy("webhook_endpoints_resolver_owner_select", "webhook_endpoints", {})
ResolverRevoked == Object("revoked_from_public", {Resolver}, {})
upgrade_ea636aa4e44c ==
    <<Create(ResolverOwnerSelect), Create(Function(Resolver)), Set(ResolverRevoked)>>
downgrade_ea636aa4e44c ==
    <<DropIfExists(Function(Resolver)), DropIfExists(ResolverOwnerSelect)>>

Events == Table("events", {"webhook_endpoints"})
EventsIndex == Index("ix_events_organization_received_at_id", "events")
EventsSecured == RowSecurity("events.row_security", "events")
EventsForced == ForceRowSecurity("events.force_row_security", "events")
EventsSelectOwn == OwnPolicy("events_select_own", "events")
EventsInsertOwn == OwnPolicy("events_insert_own", "events")
upgrade_c23a9dc5bca0 ==
    <<Create(Events), Create(EventsIndex),
      Set(EventsSecured), Set(EventsForced),
      Create(EventsSelectOwn), Create(EventsInsertOwn)>>
downgrade_c23a9dc5bca0 ==
    <<Unset(EventsSecured), Unset(EventsForced),
      DropIfExists(EventsSelectOwn), DropIfExists(EventsInsertOwn),
      Drop(EventsIndex), Drop(Events)>>

EventsUnique == Object("uq_events_organization_id_id", {"events"}, {})
OutboxMessages == Table("outbox_messages", {"events", "uq_events_organization_id_id"})
OutboxIndex == Index("ix_outbox_messages_unpublished_created_at_id", "outbox_messages")
OutboxSecured == RowSecurity("outbox_messages.row_security", "outbox_messages")
OutboxForced == ForceRowSecurity("outbox_messages.force_row_security", "outbox_messages")
OutboxSelectOwn == OwnPolicy("outbox_messages_select_own", "outbox_messages")
OutboxInsertOwn == OwnPolicy("outbox_messages_insert_own", "outbox_messages")
upgrade_960f7c1a26b0 ==
    <<Create(EventsUnique), Create(OutboxMessages), Create(OutboxIndex),
      Set(OutboxSecured), Set(OutboxForced),
      Create(OutboxSelectOwn), Create(OutboxInsertOwn)>>

\* Variant of downgrade_960f7c1a26b0: the unique constraint goes before its foreign key.
DowngradeConstraintFirst ==
    <<DropIfExists(OutboxInsertOwn), DropIfExists(OutboxSelectOwn),
      Unset(OutboxForced), Unset(OutboxSecured),
      Drop(OutboxIndex), Drop(EventsUnique), Drop(OutboxMessages)>>

downgrade_960f7c1a26b0 ==
    <<DropIfExists(OutboxInsertOwn), DropIfExists(OutboxSelectOwn),
      Unset(OutboxForced), Unset(OutboxSecured),
      Drop(OutboxIndex), Drop(OutboxMessages), Drop(EventsUnique)>>

\* In the order of their down_revision.
Upgrades ==
    <<upgrade_45702c6aa3be, upgrade_190c6e2489b7, upgrade_0b9b0fd0fadf,
      upgrade_8fb97b5600aa, upgrade_6ab4c49ed5e4, upgrade_22ea746a840d,
      upgrade_059e21cdb12c, upgrade_ea636aa4e44c, upgrade_c23a9dc5bca0,
      upgrade_960f7c1a26b0>>

Downgrades ==
    <<downgrade_45702c6aa3be, downgrade_190c6e2489b7, downgrade_0b9b0fd0fadf,
      downgrade_8fb97b5600aa, downgrade_6ab4c49ed5e4, downgrade_22ea746a840d,
      downgrade_059e21cdb12c, downgrade_ea636aa4e44c, downgrade_c23a9dc5bca0,
      downgrade_960f7c1a26b0>>

-----------------------------------------------------------------------------

VARIABLES
    committed,  \* the catalog, and the rows of alembic_version in it
    pc,         \* of each run: idle, running, failed
    origin,     \* history: the revision a run has started from
    at,         \* the revision it has reached
    target,     \* and the one it was asked for
    position,   \* its next statement in the script between two revisions
    made,       \* what its transaction has added to the catalog
    gone,       \* and what it has removed
    held,       \* the names of the objects it has locked
    overtaken   \* history: another run has committed since it started

vars == <<committed, pc, origin, at, target, position, made, gone, held, overtaken>>

Revisions == <<"45702c6aa3be", "190c6e2489b7", "0b9b0fd0fadf", "8fb97b5600aa",
               "6ab4c49ed5e4", "22ea746a840d", "059e21cdb12c", "ea636aa4e44c",
               "c23a9dc5bca0", "960f7c1a26b0">>

\* The rows of alembic_version go into the catalog with it.
VersionTable == Table("alembic_version", {})
VersionRow(revision) == Object(Revisions[revision], {"alembic_version"}, {})

\* The revision that a transaction reads in a catalog, and one that begins now.
RevisionIn(catalog) ==
    IF \E i \in 1..10 : VersionRow(i) \in catalog
    THEN CHOOSE i \in 1..10 : VersionRow(i) \in catalog
    ELSE 0
Current == RevisionIn(committed)

\* What an upgrade script creates, and all scripts up to a revision.
Created(i) == {Upgrades[i][k].object : k \in DOMAIN Upgrades[i]}
Schema == [revision \in 0..10 |-> UNION {Created(i) : i \in 1..revision}]

\* The row of alembic_version that stands for a revision.
Rows == [revision \in 0..10 |-> IF revision = 0 THEN {} ELSE {VersionRow(revision)}]

Objects == Schema[10] \cup {VersionTable} \cup UNION {Rows[i] : i \in 1..10}

Names(objects) == {object.name : object \in objects}
ObjectNames == Names(Objects)

TypeOK ==
    /\ committed \subseteq Objects
    /\ pc \in [Runs -> {"idle", "running", "failed"}]
    /\ origin \in [Runs -> 0..10]
    /\ at \in [Runs -> 0..10]
    /\ target \in [Runs -> 0..10]
    /\ position \in [Runs -> 0..8]
    /\ made \in [Runs -> SUBSET Objects]
    /\ gone \in [Runs -> SUBSET Objects]
    /\ held \in [Runs -> SUBSET ObjectNames]
    /\ \A r \in Runs : \A q \in Runs \ {r} : held[r] \cap held[q] = {}
    /\ overtaken \in [Runs -> BOOLEAN]

Init ==
    /\ committed = {}
    /\ pc = [r \in Runs |-> "idle"]
    /\ origin = [r \in Runs |-> 0]
    /\ at = [r \in Runs |-> 0]
    /\ target = [r \in Runs |-> 0]
    /\ position = [r \in Runs |-> 0]
    /\ made = [r \in Runs |-> {}]
    /\ gone = [r \in Runs |-> {}]
    /\ held = [r \in Runs |-> {}]
    /\ overtaken = [r \in Runs |-> FALSE]

-----------------------------------------------------------------------------
(* Statements *)

Upgrading(r) == at[r] < target[r]

Script(r) == IF Upgrading(r) THEN Upgrades[at[r] + 1] ELSE Downgrades[at[r]]

\* The revision that the script leads to.
Onward(r) == IF Upgrading(r) THEN at[r] + 1 ELSE at[r] - 1

\* The statement to execute; at 0, the version table has to be made first.
Statement(r) == IF position[r] = 0 THEN Create(VersionTable) ELSE Script(r)[position[r]]

\* A statement sees what is committed now, and what its own transaction did.
Visible(r) == (committed \ gone[r]) \cup made[r]

\* A new object takes its name and locks the tables it is on or refers to; a drop
\* and a change of a table lock the same.
Locks(object) == {object.name} \cup object.on \cup (object.uses \cap Tables)

Free(r, names) == \A q \in Runs \ {r} : held[q] \cap names = {}

\* DROP TABLE takes the indexes, policies and constraints of the table along.
Touches(object, o) == o = object \/ object.name \in o.on
Taken(r, object) == {o \in Visible(r) : Touches(object, o)}

\* What the catalog lets a statement do.
Possible(r, statement) ==
    LET object == statement.object IN
    CASE statement.do = "create" -> /\ object.name \notin Names(Visible(r))
                                    /\ object.on \cup object.uses \subseteq Names(Visible(r))
      [] statement.do \in {"set", "unset"} -> object.on \subseteq Names(Visible(r))
      [] statement.do = "drop" -> object \in Visible(r)
      [] statement.do = "drop_if_exists" -> TRUE

\* Nothing that stays uses what is dropped.
Unused(r, objects) ==
    \A o \in Visible(r) \ objects : o.uses \cap Names(objects) = {}

Adds(statement) ==
    IF statement.do \in {"create", "set"} THEN {statement.object} ELSE {}

Removes(r, statement) ==
    IF statement.do \in {"drop", "drop_if_exists", "unset"}
    THEN Taken(r, statement.object) ELSE {}

\* The transaction replaces one set of objects by another.
Change(r, removed, added) ==
    /\ made' = [made EXCEPT ![r] = (@ \ removed) \cup added]
    /\ gone' = [gone EXCEPT ![r] = (@ \ added) \cup removed]

\* Variant of EndTransaction: the connection is neither committed nor closed in the end.
TransactionLeftOpen(r, step) ==
    /\ pc' = [pc EXCEPT ![r] = step]
    /\ origin' = [origin EXCEPT ![r] = 0]
    /\ at' = [at EXCEPT ![r] = 0]
    /\ target' = [target EXCEPT ![r] = 0]
    /\ position' = [position EXCEPT ![r] = 0]
    /\ UNCHANGED <<made, gone, held>>

\* COMMIT and ROLLBACK alike: the transaction is over and its locks are released.
EndTransaction(r, step) ==
    /\ pc' = [pc EXCEPT ![r] = step]
    /\ origin' = [origin EXCEPT ![r] = 0]
    /\ at' = [at EXCEPT ![r] = 0]
    /\ target' = [target EXCEPT ![r] = 0]
    /\ position' = [position EXCEPT ![r] = 0]
    /\ made' = [made EXCEPT ![r] = {}]
    /\ gone' = [gone EXCEPT ![r] = {}]
    /\ held' = [held EXCEPT ![r] = {}]

\* A statement fails, or alembic raises: everything is rolled back.
Fail(r) ==
    /\ EndTransaction(r, "failed")
    /\ UNCHANGED <<committed, overtaken>>

-----------------------------------------------------------------------------
(* A run *)

\* do_run_migrations: alembic reads where the database is, and makes its own table
\* when there is none.
Start(r, revision) ==
    /\ pc[r] = "idle"
    /\ revision # Current
    /\ pc' = [pc EXCEPT ![r] = "running"]
    /\ origin' = [origin EXCEPT ![r] = Current]
    /\ at' = [at EXCEPT ![r] = Current]
    /\ target' = [target EXCEPT ![r] = revision]
    /\ position' = [position EXCEPT ![r] = IF VersionTable \in committed THEN 1 ELSE 0]
    /\ overtaken' = [overtaken EXCEPT ![r] = FALSE]
    /\ UNCHANGED <<committed, made, gone, held>>

\* Variant of Execute: isolation_level="AUTOCOMMIT", every statement is committed at once.
ExecuteInAutocommit(r) ==
    LET statement == Statement(r) IN
    /\ pc[r] = "running"
    /\ at[r] # target[r] /\ position[r] <= Len(Script(r))
    /\ Free(r, Locks(statement.object))
    /\ Possible(r, statement)
    /\ Unused(r, Removes(r, statement))
    /\ committed' = (committed \ Removes(r, statement)) \cup Adds(statement)
    /\ position' = [position EXCEPT ![r] = @ + 1]
    /\ UNCHANGED <<pc, origin, at, target, made, gone, held, overtaken>>

\* The next statement of a script, once nobody else holds what it touches.
Execute(r) ==
    LET statement == Statement(r) IN
    /\ pc[r] = "running"
    /\ at[r] # target[r] /\ position[r] <= Len(Script(r))
    /\ Free(r, Locks(statement.object))
    /\ \/ /\ Possible(r, statement)
          /\ Unused(r, Removes(r, statement))
          /\ Change(r, Removes(r, statement), Adds(statement))
          /\ held' = [held EXCEPT ![r] = @ \cup Locks(statement.object)]
          /\ position' = [position EXCEPT ![r] = @ + 1]
          /\ UNCHANGED <<committed, pc, origin, at, target, overtaken>>
       \/ /\ ~(Possible(r, statement) /\ Unused(r, Removes(r, statement)))
          /\ Fail(r)

\* The row that the UPDATE or DELETE names is there, or the one to INSERT is not.
VersionMatches(r) ==
    IF at[r] = 0 THEN VersionRow(1) \notin Visible(r) ELSE VersionRow(at[r]) \in Visible(r)

\* Variant of UpdateVersion: context.configure with transaction_per_migration=True, which
\* commits after each script.
CommitEachScript(r) ==
    LET old == Rows[at[r]]
        new == Rows[Onward(r)] IN
    /\ pc[r] = "running"
    /\ at[r] # target[r] /\ position[r] > Len(Script(r))
    /\ Free(r, Names(IF at[r] = 0 THEN new ELSE old))
    /\ \/ /\ VersionMatches(r)
          /\ committed' = (Visible(r) \ old) \cup new
          /\ overtaken' = [q \in Runs |-> q # r \/ overtaken[q]]
          /\ made' = [made EXCEPT ![r] = {}]
          /\ gone' = [gone EXCEPT ![r] = {}]
          /\ held' = [held EXCEPT ![r] = {}]
          /\ at' = [at EXCEPT ![r] = Onward(r)]
          /\ position' = [position EXCEPT ![r] = 1]
          /\ UNCHANGED <<pc, origin, target>>
       \/ /\ ~VersionMatches(r)
          /\ Fail(r)

\* After each script: INSERT, UPDATE or DELETE of the row in alembic_version, which
\* must concern exactly one row.
UpdateVersion(r) ==
    LET old == Rows[at[r]]
        new == Rows[Onward(r)]
        row == Names(IF at[r] = 0 THEN new ELSE old) IN
    /\ pc[r] = "running"
    /\ at[r] # target[r] /\ position[r] > Len(Script(r))
    /\ Free(r, row)
    /\ \/ /\ VersionMatches(r)
          /\ Change(r, old, new)
          /\ held' = [held EXCEPT ![r] = @ \cup row]
          /\ at' = [at EXCEPT ![r] = Onward(r)]
          /\ position' = [position EXCEPT ![r] = 1]
          /\ UNCHANGED <<committed, pc, origin, target, overtaken>>
       \/ /\ ~VersionMatches(r)
          /\ Fail(r)

\* The transaction that context.begin_transaction opened is committed.
Commit(r) ==
    /\ pc[r] = "running"
    /\ at[r] = target[r]
    /\ committed' = Visible(r)
    /\ overtaken' = [q \in Runs |-> q # r \/ overtaken[q]]
    /\ EndTransaction(r, "idle")

\* The process exits with an error.
Exit(r) ==
    /\ pc[r] = "failed"
    /\ pc' = [pc EXCEPT ![r] = "idle"]
    /\ UNCHANGED <<committed, origin, at, target, position, made, gone, held, overtaken>>

-----------------------------------------------------------------------------
(* What may go wrong *)

\* The process or its connection dies: PostgreSQL rolls back.
Crash(r) ==
    /\ pc[r] = "running"
    /\ EndTransaction(r, "idle")
    /\ UNCHANGED <<committed, overtaken>>

\* What a run needs to go on.
Needs(r) ==
    IF at[r] # target[r] /\ position[r] <= Len(Script(r)) THEN Locks(Statement(r).object)
    ELSE IF at[r] = target[r] THEN {}
    ELSE {Revisions[IF at[r] = 0 THEN 1 ELSE at[r]]}

\* Runs that wait for each other.
Deadlocked(runs) ==
    \A r \in runs : /\ pc[r] = "running"
                    /\ \E q \in runs \ {r} : held[q] \cap Needs(r) # {}

\* PostgreSQL rolls one of them back.
BreakDeadlock(r) ==
    /\ \E runs \in SUBSET Runs : r \in runs /\ Deadlocked(runs)
    /\ EndTransaction(r, "idle")
    /\ UNCHANGED <<committed, overtaken>>

-----------------------------------------------------------------------------

Step(r) == Execute(r) \/ UpdateVersion(r) \/ Commit(r) \/ Exit(r)

Next ==
    \/ \E r \in Runs, revision \in Targets : Start(r, revision)
    \/ \E r \in Runs : Step(r) \/ Crash(r) \/ BreakDeadlock(r)

Spec == Init /\ [][Next]_vars

\* A statement that waits for locks queues for them; PostgreSQL looks for deadlocks.
Fairness ==
    /\ \A r \in Runs : SF_vars(Step(r))
    /\ WF_vars(\E r \in Runs : BreakDeadlock(r))

FairSpec == Spec /\ Fairness

-----------------------------------------------------------------------------
(* Properties *)

\* The database is always in the schema of the one revision that alembic_version names,
\* whatever runs raced, failed or crashed: every downgrade undoes its upgrade exactly,
\* no tenant table ever shows without its policies, and no two runs mix.
SchemaMatchesVersion ==
    committed \ {VersionTable} = Schema[Current] \cup Rows[Current]

\* A run fails only when another one has committed since it started: on its own, every
\* script can be executed from every revision, in its order of dependencies.
FailsOnlyWhenOvertaken ==
    \A r \in Runs : pc[r] = "failed" => overtaken[r]

\* Runs that wait for each other's locks all end, one way or the other.
EveryRunEnds ==
    \A r \in Runs : pc[r] # "idle" ~> pc[r] = "idle"

-----------------------------------------------------------------------------
(* The inductive invariant *)

AllRows == {VersionRow(i) : i \in 1..10}

\* What the invariant says of a run, it says of this.
Run(r) ==
    [origin |-> origin[r], at |-> at[r], target |-> target[r], position |-> position[r],
     made |-> made[r], gone |-> gone[r], held |-> held[r], overtaken |-> overtaken[r]]

\* The rows that a run has replaced on its way, and the one that it has written.
RowsBehind(run) ==
    IF run.origin < run.at THEN UNION {Rows[i] : i \in run.origin..run.at - 1}
                           ELSE UNION {Rows[i] : i \in run.at + 1..run.origin}
RowReached(run) == IF run.at = run.origin THEN {} ELSE Rows[run.at]

\* The script that a run is in, and the objects of its statements executed so far.
ScriptOf(run) == IF run.at < run.target THEN Upgrades[run.at + 1] ELSE Downgrades[run.at]
Executed(run) ==
    IF run.at = run.target THEN {}
    ELSE {ScriptOf(run)[k].object : k \in 1..run.position - 1}

\* The row whose lock a run takes with its first change of the version.
FirstRow(run) == Revisions[IF run.origin = 0 THEN 1 ELSE run.origin]

\* A run that does not run has changed nothing and holds nothing.
IdleHoldsNothing ==
    \A r \in Runs : pc[r] # "running" => made[r] = {} /\ gone[r] = {} /\ held[r] = {}

\* A run goes from where it started straight to its target.
IsOnItsWay(run) ==
    /\ run.origin # run.target
    /\ \/ run.origin <= run.at /\ run.at <= run.target
       \/ run.target <= run.at /\ run.at <= run.origin
    /\ run.position = 0 => run.at = run.origin /\ run.origin = 0
    /\ IF run.at = run.target THEN run.position = 1
                              ELSE run.position <= Len(ScriptOf(run)) + 1

\* alembic_version is there before its first row, and nobody drops it.
KeepsVersionTable(catalog, run) ==
    /\ VersionTable \notin run.gone
    /\ run.position # 0 => VersionTable \in catalog \cup run.made
    /\ run.position = 0 => VersionTable \notin run.made
    /\ run.position = 0 /\ ~run.overtaken => VersionTable \notin catalog

\* What a run has made is what the scripts say, and only it can commit that.
UpgradesAdd(catalog, run) ==
    /\ run.made \ {VersionTable} =
         RowReached(run)
         \cup (IF run.origin < run.target
               THEN (UNION {Created(i) : i \in run.origin + 1..run.at}) \cup Executed(run)
               ELSE {})
    /\ run.gone \cap AllRows = RowsBehind(run)
    /\ \A o \in run.made \ AllRows : {o.name} \cup o.on \subseteq run.held
    /\ run.origin < run.target => run.gone \subseteq AllRows
    /\ run.origin = 0 /\ Organizations \in run.made => Organizations \notin catalog

\* What a downgrade has dropped is what its scripts name and what was on that, and
\* nothing of it can come back before the run ends.
DowngradesRemove(catalog, run) ==
    run.target < run.origin =>
        /\ \A o \in run.gone \cap Schema[run.at] :
             \E dropped \in Executed(run) : Touches(dropped, o)
        /\ \A dropped \in Executed(run) :
             /\ dropped.name \in run.held
             /\ \A o \in catalog : Touches(dropped, o) => o \in run.gone
        /\ run.at # run.origin =>
             \A o \in catalog \cap Schema[10] : o \notin Schema[run.at] => o \in run.gone

\* Once a run has changed the version, nobody else can, until it ends; and one that has
\* not been overtaken is where it was.
LocksVersion(catalog, run) ==
    /\ run.at # run.origin =>
         run.origin = RevisionIn(catalog) /\ FirstRow(run) \in run.held
    /\ ~run.overtaken => run.origin = RevisionIn(catalog)

RunInv(catalog, run) ==
    /\ IsOnItsWay(run)
    /\ KeepsVersionTable(catalog, run)
    /\ UpgradesAdd(catalog, run)
    /\ DowngradesRemove(catalog, run)
    /\ LocksVersion(catalog, run)

\* What the properties follow from, and every step keeps.
MigrationsInv ==
    /\ TypeOK
    /\ SchemaMatchesVersion
    /\ FailsOnlyWhenOvertaken
    /\ IdleHoldsNothing
    /\ Current # 0 => VersionTable \in committed
    /\ \A r \in Runs : pc[r] = "running" => RunInv(committed, Run(r))

=============================================================================
