-------------------------- MODULE MigrationsProofs --------------------------
(***************************************************************************)
(* Proofs about Migrations for any runs and any targets.                   *)
(***************************************************************************)
EXTENDS Migrations, TLAPS

USE TargetsAssumption

-----------------------------------------------------------------------------
(* The scripts *)

\* The revision whose upgrade creates the object of a name.
Born(name) ==
    CASE name = "organizations" -> 1
      [] name \in {"users", "memberships", "ix_memberships_organization_id"} -> 2
      [] name \in {"relaymaid_current_organization_id", "organizations.row_security",
                   "organizations.force_row_security", "organizations_select_own",
                   "organizations_insert_own"} -> 3
      [] name \in {"relaymaid_current_user_id", "memberships.row_security",
                   "memberships.force_row_security", "membership_select_own",
                   "membership_insert_self"} -> 4
      [] name \in {"webhook_endpoints", "ix_webhook_endpoints_organization_id"} -> 5
      [] name \in {"webhook_endpoints.row_security", "webhook_endpoints.force_row_security",
                   "webhook_endpoints_select_own", "webhook_endpoints_insert_own",
                   "webhook_endpoints_update_own"} -> 6
      [] name = "webhook_endpoints_delete_own" -> 7
      [] name \in {"webhook_endpoints_resolver_owner_select", "revoked_from_public",
                   "relaymaid_resolve_webhook_endpoint"} -> 8
      [] name \in {"events", "ix_events_organization_received_at_id", "events.row_security",
                   "events.force_row_security", "events_select_own",
                   "events_insert_own"} -> 9
      [] name \in {"uq_events_organization_id_id", "outbox_messages",
                   "ix_outbox_messages_unpublished_created_at_id",
                   "outbox_messages.row_security", "outbox_messages.force_row_security",
                   "outbox_messages_select_own", "outbox_messages_insert_own"} -> 10
      [] OTHER -> 11

\* An upgrade script creates each object of its revision once, after what it needs.
UpgradeIsSound(i) ==
    LET script == Upgrades[i] IN
    /\ Len(script) \in 1..7 /\ DOMAIN script = 1..Len(script)
    /\ \A k \in 1..Len(script) :
        /\ script[k].do \in {"create", "set"}
        /\ Born(script[k].object.name) = i
        /\ \A j \in 1..k - 1 : script[j].object.name # script[k].object.name
    /\ \A k \in 1..Len(script) : \A name \in script[k].object.on \cup script[k].object.uses :
        \/ Born(name) \in 1..i - 1
        \/ \E j \in 1..k - 1 : script[j].object.name = name
    /\ \A name : Born(name) = i => \E o \in Created(i) : o.name = name

\* A downgrade script drops them all, and each before what it needs.
DowngradeIsSound(i) ==
    LET script == Downgrades[i] IN
    /\ Len(script) \in 1..7 /\ DOMAIN script = 1..Len(script)
    /\ \A k \in 1..Len(script) :
        /\ script[k].do \in {"drop", "drop_if_exists", "unset"}
        /\ Born(script[k].object.name) = i /\ script[k].object \in Created(i)
    /\ \A k \in 1..Len(script) : script[k].do = "drop" =>
        \A j \in 1..k - 1 : ~Touches(script[j].object, script[k].object)
    /\ \A k \in 1..Len(script) : script[k].do = "unset" =>
        \A name \in script[k].object.on :
           \/ Born(name) \in 1..i - 1
           \/ \E o \in Created(i) :
                /\ o.name = name
                /\ \A j \in 1..k - 1 : ~Touches(script[j].object, o)
    /\ \A o \in Created(i) : \E k \in 1..Len(script) : Touches(script[k].object, o)
    /\ \A o, used \in Created(i) : used.name \in o.uses =>
        \A k \in 1..Len(script) : Touches(script[k].object, used) =>
            \E j \in 1..k : Touches(script[j].object, o)

\* What revision 45702c6aa3be creates, and what it is on and uses.
LEMMA Objects_45702c6aa3be ==
    /\ Created(1) = {Organizations}
    /\ Organizations.name = "organizations" /\ Organizations.on = {} /\ Organizations.uses = {}
<1>1. Created(1) = {Organizations}
  BY DEF Created, Upgrades, upgrade_45702c6aa3be, Create
<1>2. QED
  BY <1>1 DEF Object, Organizations, Table

\* Every statement of upgrade_45702c6aa3be finds what it needs.
LEMMA Upgrade_45702c6aa3be == UpgradeIsSound(1)
<1>. DEFINE script == Upgrades[1]
<1>1. /\ Len(script) = 1 /\ DOMAIN script = 1..1
      /\ script[1].do = "create" /\ script[1].object = Organizations
  BY DEF Upgrades, upgrade_45702c6aa3be, Create
<1>. HIDE DEF script
<1>2. \A k \in 1..Len(script) :
        /\ script[k].do \in {"create", "set"}
        /\ Born(script[k].object.name) = 1
        /\ \A j \in 1..k - 1 : script[j].object.name # script[k].object.name
  BY <1>1, Objects_45702c6aa3be DEF Born
<1>3. \A k \in 1..Len(script) : \A name \in script[k].object.on \cup script[k].object.uses :
             \/ Born(name) \in 1..1 - 1
             \/ \E j \in 1..k - 1 : script[j].object.name = name
  BY <1>1, Objects_45702c6aa3be DEF Born
<1>4. \A name : Born(name) = 1 => \E o \in Created(1) : o.name = name
  <2>. DEFINE IsMade(name) == \E o \in Created(1) : o.name = name
  <2>1. \A name : Born(name) = 1 => name \in {"organizations"}
    BY DEF Born
  <2>2. IsMade("organizations")
    BY Objects_45702c6aa3be
  <2>. HIDE DEF IsMade
  <2>3. \A name : Born(name) = 1 => IsMade(name)
    BY <2>1, <2>2
  <2>4. QED
    BY <2>3 DEF IsMade
<1>5. Len(script) = 1 /\ DOMAIN script = 1..1
  BY <1>1
<1>6. Len(script) \in 1..7 /\ DOMAIN script = 1..Len(script)
  BY <1>5
<1>7. QED
  BY <1>2, <1>3, <1>4, <1>6, Zenon DEF UpgradeIsSound, script

\* downgrade_45702c6aa3be undoes all of it, in an order that the catalog allows.
LEMMA Downgrade_45702c6aa3be == DowngradeIsSound(1)
<1>. DEFINE script == Downgrades[1]
<1>1. /\ Len(script) = 1 /\ DOMAIN script = 1..1
      /\ script[1].do = "drop" /\ script[1].object = Organizations
  BY DEF Downgrades, downgrade_45702c6aa3be, Drop
<1>. HIDE DEF script
<1>2. \A k \in 1..Len(script) :
        /\ script[k].do \in {"drop", "drop_if_exists", "unset"}
        /\ Born(script[k].object.name) = 1 /\ script[k].object \in Created(1)
  BY <1>1, Objects_45702c6aa3be DEF Born
<1>3. \A k \in 1..Len(script) : script[k].do = "drop" =>
            \A j \in 1..k - 1 : ~Touches(script[j].object, script[k].object)
  BY <1>1, Objects_45702c6aa3be DEF Touches
<1>4. \A k \in 1..Len(script) : script[k].do = "unset" =>
            \A name \in script[k].object.on :
               \/ Born(name) \in 1..1 - 1
               \/ \E o \in Created(1) :
                    /\ o.name = name
                    /\ \A j \in 1..k - 1 : ~Touches(script[j].object, o)
  BY <1>1, Objects_45702c6aa3be DEF Born, Touches
<1>5. \A o \in Created(1) : \E k \in 1..Len(script) : Touches(script[k].object, o)
  BY <1>1, Objects_45702c6aa3be DEF Touches
<1>6. \A o, used \in Created(1) : used.name \in o.uses =>
        \A k \in 1..Len(script) : Touches(script[k].object, used) =>
            \E j \in 1..k : Touches(script[j].object, o)
  <2>1. \A o, used \in Created(1) : used.name \in o.uses => FALSE
    BY Objects_45702c6aa3be
  <2>2. QED
    BY <2>1
<1>7. Len(script) = 1 /\ DOMAIN script = 1..1
  BY <1>1
<1>8. Len(script) \in 1..7 /\ DOMAIN script = 1..Len(script)
  BY <1>7
<1>9. QED
  BY <1>8, <1>2, <1>3, <1>4, <1>5, <1>6, Zenon DEF DowngradeIsSound, script

\* What revision 190c6e2489b7 creates, and what it is on and uses.
LEMMA Objects_190c6e2489b7 ==
    /\ Created(2) = {Users, Memberships, MembershipsIndex}
    /\ Users.name = "users" /\ Users.on = {} /\ Users.uses = {}
    /\ Memberships.name = "memberships" /\ Memberships.on = {}
    /\ Memberships.uses = {"organizations", "users"}
    /\ MembershipsIndex.name = "ix_memberships_organization_id"
    /\ MembershipsIndex.on = {"memberships"}
    /\ MembershipsIndex.uses = {}
<1>1. Created(2) = {Users, Memberships, MembershipsIndex}
  BY DEF Created, Upgrades, upgrade_190c6e2489b7, Create
<1>2. QED
  BY <1>1 DEF Index, Memberships, MembershipsIndex, Object, Table, Users

\* Every statement of upgrade_190c6e2489b7 finds what it needs.
LEMMA Upgrade_190c6e2489b7 == UpgradeIsSound(2)
<1>. DEFINE script == Upgrades[2]
<1>1. /\ Len(script) = 3 /\ DOMAIN script = 1..3
      /\ script[1].do = "create" /\ script[1].object = Users
      /\ script[2].do = "create" /\ script[2].object = Memberships
      /\ script[3].do = "create" /\ script[3].object = MembershipsIndex
  BY DEF Upgrades, upgrade_190c6e2489b7, Create
<1>. HIDE DEF script
<1>2. \A k \in 1..Len(script) :
        /\ script[k].do \in {"create", "set"}
        /\ Born(script[k].object.name) = 2
        /\ \A j \in 1..k - 1 : script[j].object.name # script[k].object.name
  BY <1>1, Objects_190c6e2489b7 DEF Born
<1>3. \A k \in 1..Len(script) : \A name \in script[k].object.on \cup script[k].object.uses :
             \/ Born(name) \in 1..2 - 1
             \/ \E j \in 1..k - 1 : script[j].object.name = name
  BY <1>1, Objects_190c6e2489b7 DEF Born
<1>4. \A name : Born(name) = 2 => \E o \in Created(2) : o.name = name
  <2>. DEFINE IsMade(name) == \E o \in Created(2) : o.name = name
  <2>1. \A name : Born(name) = 2 => name \in {"users", "memberships",
        "ix_memberships_organization_id"}
    BY DEF Born
  <2>2. IsMade("users")
    BY Objects_190c6e2489b7
  <2>3. IsMade("memberships")
    BY Objects_190c6e2489b7
  <2>4. IsMade("ix_memberships_organization_id")
    BY Objects_190c6e2489b7
  <2>. HIDE DEF IsMade
  <2>5. \A name : Born(name) = 2 => IsMade(name)
    BY <2>1, <2>2, <2>3, <2>4
  <2>6. QED
    BY <2>5 DEF IsMade
<1>5. Len(script) = 3 /\ DOMAIN script = 1..3
  BY <1>1
<1>6. Len(script) \in 1..7 /\ DOMAIN script = 1..Len(script)
  BY <1>5
<1>7. QED
  BY <1>2, <1>3, <1>4, <1>6, Zenon DEF UpgradeIsSound, script

\* downgrade_190c6e2489b7 undoes all of it, in an order that the catalog allows.
LEMMA Downgrade_190c6e2489b7 == DowngradeIsSound(2)
<1>. DEFINE script == Downgrades[2]
<1>1. /\ Len(script) = 3 /\ DOMAIN script = 1..3
      /\ script[1].do = "drop" /\ script[1].object = MembershipsIndex
      /\ script[2].do = "drop" /\ script[2].object = Memberships
      /\ script[3].do = "drop" /\ script[3].object = Users
  BY DEF Downgrades, downgrade_190c6e2489b7, Drop
<1>. HIDE DEF script
<1>2. \A k \in 1..Len(script) :
        /\ script[k].do \in {"drop", "drop_if_exists", "unset"}
        /\ Born(script[k].object.name) = 2 /\ script[k].object \in Created(2)
  BY <1>1, Objects_190c6e2489b7 DEF Born
<1>3. \A k \in 1..Len(script) : script[k].do = "drop" =>
            \A j \in 1..k - 1 : ~Touches(script[j].object, script[k].object)
  BY <1>1, Objects_190c6e2489b7 DEF Touches
<1>4. \A k \in 1..Len(script) : script[k].do = "unset" =>
            \A name \in script[k].object.on :
               \/ Born(name) \in 1..2 - 1
               \/ \E o \in Created(2) :
                    /\ o.name = name
                    /\ \A j \in 1..k - 1 : ~Touches(script[j].object, o)
  BY <1>1, Objects_190c6e2489b7 DEF Born, Touches
<1>5. \A o \in Created(2) : \E k \in 1..Len(script) : Touches(script[k].object, o)
  BY <1>1, Objects_190c6e2489b7 DEF Touches
<1>6. \A o, used \in Created(2) : used.name \in o.uses =>
        \A k \in 1..Len(script) : Touches(script[k].object, used) =>
            \E j \in 1..k : Touches(script[j].object, o)
  <2>1. \A o, used \in Created(2) : used.name \in o.uses => (o = Memberships /\ used = Users)
    BY Objects_190c6e2489b7
  <2>2. \A k \in 1..Len(script) : Touches(script[k].object, Users) => k >= 3
    BY <1>1, Objects_190c6e2489b7 DEF Touches
  <2>3. \A k \in 1..Len(script) : k >= 3 => \E j \in 1..k : Touches(script[j].object,
        Memberships)
    BY <1>1 DEF Touches
  <2>4. QED
    BY <2>1, <2>2, <2>3
<1>7. Len(script) = 3 /\ DOMAIN script = 1..3
  BY <1>1
<1>8. Len(script) \in 1..7 /\ DOMAIN script = 1..Len(script)
  BY <1>7
<1>9. QED
  BY <1>8, <1>2, <1>3, <1>4, <1>5, <1>6, Zenon DEF DowngradeIsSound, script

\* What revision 0b9b0fd0fadf creates, and what it is on and uses.
LEMMA Objects_0b9b0fd0fadf ==
    /\ Created(3) = {Function(OrganizationId), OrganizationsSecured,
          OrganizationsForced, OrganizationsSelectOwn, OrganizationsInsertOwn}
    /\ Function(OrganizationId).name = "relaymaid_current_organization_id"
    /\ Function(OrganizationId).on = {}
    /\ Function(OrganizationId).uses = {}
    /\ OrganizationsSecured.name = "organizations.row_security"
    /\ OrganizationsSecured.on = {"organizations"}
    /\ OrganizationsSecured.uses = {}
    /\ OrganizationsForced.name = "organizations.force_row_security"
    /\ OrganizationsForced.on = {"organizations"}
    /\ OrganizationsForced.uses = {}
    /\ OrganizationsSelectOwn.name = "organizations_select_own"
    /\ OrganizationsSelectOwn.on = {"organizations"}
    /\ OrganizationsSelectOwn.uses = {"relaymaid_current_organization_id"}
    /\ OrganizationsInsertOwn.name = "organizations_insert_own"
    /\ OrganizationsInsertOwn.on = {"organizations"}
    /\ OrganizationsInsertOwn.uses = {"relaymaid_current_organization_id"}
<1>1. Created(3) = {Function(OrganizationId), OrganizationsSecured,
      OrganizationsForced, OrganizationsSelectOwn, OrganizationsInsertOwn}
  BY DEF Created, Upgrades, upgrade_0b9b0fd0fadf, Create, Set
<1>2. QED
  BY <1>1 DEF ForceRowSecurity, Function, Object, OrganizationId, OrganizationsForced,
     OrganizationsInsertOwn, OrganizationsSecured, OrganizationsSelectOwn, OwnPolicy, Policy,
     RowSecurity

\* Every statement of upgrade_0b9b0fd0fadf finds what it needs.
LEMMA Upgrade_0b9b0fd0fadf == UpgradeIsSound(3)
<1>. DEFINE script == Upgrades[3]
<1>1. /\ Len(script) = 5 /\ DOMAIN script = 1..5
      /\ script[1].do = "create" /\ script[1].object = Function(OrganizationId)
      /\ script[2].do = "set" /\ script[2].object = OrganizationsSecured
      /\ script[3].do = "set" /\ script[3].object = OrganizationsForced
      /\ script[4].do = "create" /\ script[4].object = OrganizationsSelectOwn
      /\ script[5].do = "create" /\ script[5].object = OrganizationsInsertOwn
  BY DEF Upgrades, upgrade_0b9b0fd0fadf, Create, Set
<1>. HIDE DEF script
<1>2. \A k \in 1..Len(script) :
        /\ script[k].do \in {"create", "set"}
        /\ Born(script[k].object.name) = 3
        /\ \A j \in 1..k - 1 : script[j].object.name # script[k].object.name
  <2>. DEFINE names == {"relaymaid_current_organization_id", "organizations.row_security",
                        "organizations.force_row_security", "organizations_select_own",
                        "organizations_insert_own"}
  <2>1. \A k \in 1..Len(script) : script[k].object.name \in names
    BY <1>1, Objects_0b9b0fd0fadf
  <2>2. \A name \in names : Born(name) = 3
    BY DEF Born
  <2>3. \A k \in 1..Len(script) : Born(script[k].object.name) = 3
    BY <2>1, <2>2
  <2>4. \A k \in 1..Len(script) : script[k].do \in {"create", "set"}
    BY <1>1
  <2>5. \A k \in 1..Len(script) : \A j \in 1..k - 1 :
          script[j].object.name # script[k].object.name
    BY <1>1, Objects_0b9b0fd0fadf
  <2>6. QED
    BY <2>3, <2>4, <2>5
<1>3. \A k \in 1..Len(script) : \A name \in script[k].object.on \cup script[k].object.uses :
             \/ Born(name) \in 1..3 - 1
             \/ \E j \in 1..k - 1 : script[j].object.name = name
  BY <1>1, Objects_0b9b0fd0fadf DEF Born
<1>4. \A name : Born(name) = 3 => \E o \in Created(3) : o.name = name
  <2>. DEFINE IsMade(name) == \E o \in Created(3) : o.name = name
  <2>1. \A name : Born(name) = 3 => name \in {"relaymaid_current_organization_id",
        "organizations.row_security", "organizations.force_row_security",
        "organizations_select_own", "organizations_insert_own"}
    BY DEF Born
  <2>2. IsMade("relaymaid_current_organization_id")
    BY Objects_0b9b0fd0fadf
  <2>3. IsMade("organizations.row_security")
    BY Objects_0b9b0fd0fadf
  <2>4. IsMade("organizations.force_row_security")
    BY Objects_0b9b0fd0fadf
  <2>5. IsMade("organizations_select_own")
    BY Objects_0b9b0fd0fadf
  <2>6. IsMade("organizations_insert_own")
    BY Objects_0b9b0fd0fadf
  <2>. HIDE DEF IsMade
  <2>7. \A name : Born(name) = 3 => IsMade(name)
    BY <2>1, <2>2, <2>3, <2>4, <2>5, <2>6
  <2>8. QED
    BY <2>7 DEF IsMade
<1>5. Len(script) = 5 /\ DOMAIN script = 1..5
  BY <1>1
<1>6. Len(script) \in 1..7 /\ DOMAIN script = 1..Len(script)
  BY <1>5
<1>7. QED
  BY <1>2, <1>3, <1>4, <1>6, Zenon DEF UpgradeIsSound, script

\* downgrade_0b9b0fd0fadf undoes all of it, in an order that the catalog allows.
LEMMA Downgrade_0b9b0fd0fadf == DowngradeIsSound(3)
<1>. DEFINE script == Downgrades[3]
<1>1. /\ Len(script) = 5 /\ DOMAIN script = 1..5
      /\ script[1].do = "drop" /\ script[1].object = OrganizationsSelectOwn
      /\ script[2].do = "drop" /\ script[2].object = OrganizationsInsertOwn
      /\ script[3].do = "unset" /\ script[3].object = OrganizationsForced
      /\ script[4].do = "unset" /\ script[4].object = OrganizationsSecured
      /\ script[5].do = "drop" /\ script[5].object = Function(OrganizationId)
  BY DEF Downgrades, downgrade_0b9b0fd0fadf, Drop, Unset
<1>. HIDE DEF script
<1>2. \A k \in 1..Len(script) :
        /\ script[k].do \in {"drop", "drop_if_exists", "unset"}
        /\ Born(script[k].object.name) = 3 /\ script[k].object \in Created(3)
  <2>. DEFINE names == {"relaymaid_current_organization_id", "organizations.row_security",
                        "organizations.force_row_security", "organizations_select_own",
                        "organizations_insert_own"}
  <2>1. \A k \in 1..Len(script) : script[k].object.name \in names
    BY <1>1, Objects_0b9b0fd0fadf
  <2>2. \A name \in names : Born(name) = 3
    BY DEF Born
  <2>3. \A k \in 1..Len(script) : Born(script[k].object.name) = 3
    BY <2>1, <2>2
  <2>4. \A k \in 1..Len(script) : script[k].do \in {"drop", "drop_if_exists", "unset"}
    BY <1>1
  <2>5. \A k \in 1..Len(script) : script[k].object \in Created(3)
    BY <1>1, Objects_0b9b0fd0fadf
  <2>6. QED
    BY <2>3, <2>4, <2>5
<1>3. \A k \in 1..Len(script) : script[k].do = "drop" =>
            \A j \in 1..k - 1 : ~Touches(script[j].object, script[k].object)
  BY <1>1, Objects_0b9b0fd0fadf DEF Touches
<1>4. \A k \in 1..Len(script) : script[k].do = "unset" =>
            \A name \in script[k].object.on :
               \/ Born(name) \in 1..3 - 1
               \/ \E o \in Created(3) :
                    /\ o.name = name
                    /\ \A j \in 1..k - 1 : ~Touches(script[j].object, o)
  BY <1>1, Objects_0b9b0fd0fadf DEF Born, Touches
<1>5. \A o \in Created(3) : \E k \in 1..Len(script) : Touches(script[k].object, o)
  BY <1>1, Objects_0b9b0fd0fadf DEF Touches
<1>6. \A o, used \in Created(3) : used.name \in o.uses =>
        \A k \in 1..Len(script) : Touches(script[k].object, used) =>
            \E j \in 1..k : Touches(script[j].object, o)
  <2>1. \A o, used \in Created(3) : used.name \in o.uses =>
        \/ (o = OrganizationsSelectOwn /\ used = Function(OrganizationId))
        \/ (o = OrganizationsInsertOwn /\ used = Function(OrganizationId))
    BY Objects_0b9b0fd0fadf
  <2>2. \A k \in 1..Len(script) : Touches(script[k].object, Function(OrganizationId)) => k >= 5
    BY <1>1, Objects_0b9b0fd0fadf DEF Touches
  <2>3. \A k \in 1..Len(script) : k >= 5 => \E j \in 1..k : Touches(script[j].object,
        OrganizationsSelectOwn)
    BY <1>1 DEF Touches
  <2>4. \A k \in 1..Len(script) : k >= 5 => \E j \in 1..k : Touches(script[j].object,
        OrganizationsInsertOwn)
    BY <1>1 DEF Touches
  <2>5. QED
    BY <2>1, <2>2, <2>3, <2>4
<1>7. Len(script) = 5 /\ DOMAIN script = 1..5
  BY <1>1
<1>8. Len(script) \in 1..7 /\ DOMAIN script = 1..Len(script)
  BY <1>7
<1>9. QED
  BY <1>8, <1>2, <1>3, <1>4, <1>5, <1>6, Zenon DEF DowngradeIsSound, script

\* What revision 8fb97b5600aa creates, and what it is on and uses.
LEMMA Objects_8fb97b5600aa ==
    /\ Created(4) = {Function(UserId), MembershipsSecured, MembershipsForced,
          MembershipSelectOwn, MembershipInsertSelf}
    /\ Function(UserId).name = "relaymaid_current_user_id" /\ Function(UserId).on = {}
    /\ Function(UserId).uses = {}
    /\ MembershipsSecured.name = "memberships.row_security"
    /\ MembershipsSecured.on = {"memberships"}
    /\ MembershipsSecured.uses = {}
    /\ MembershipsForced.name = "memberships.force_row_security"
    /\ MembershipsForced.on = {"memberships"}
    /\ MembershipsForced.uses = {}
    /\ MembershipSelectOwn.name = "membership_select_own"
    /\ MembershipSelectOwn.on = {"memberships"}
    /\ MembershipSelectOwn.uses =
          {"relaymaid_current_user_id", "relaymaid_current_organization_id"}
    /\ MembershipInsertSelf.name = "membership_insert_self"
    /\ MembershipInsertSelf.on = {"memberships"}
    /\ MembershipInsertSelf.uses =
          {"relaymaid_current_user_id", "relaymaid_current_organization_id"}
<1>1. Created(4) = {Function(UserId), MembershipsSecured, MembershipsForced,
      MembershipSelectOwn, MembershipInsertSelf}
  BY DEF Created, Upgrades, upgrade_8fb97b5600aa, Create, Set
<1>2. QED
  BY <1>1 DEF ForceRowSecurity, Function, MembershipInsertSelf, MembershipSelectOwn,
     MembershipsForced, MembershipsSecured, Object, OrganizationId, Policy, RowSecurity, UserId

\* Every statement of upgrade_8fb97b5600aa finds what it needs.
LEMMA Upgrade_8fb97b5600aa == UpgradeIsSound(4)
<1>. DEFINE script == Upgrades[4]
<1>1. /\ Len(script) = 5 /\ DOMAIN script = 1..5
      /\ script[1].do = "create" /\ script[1].object = Function(UserId)
      /\ script[2].do = "set" /\ script[2].object = MembershipsSecured
      /\ script[3].do = "set" /\ script[3].object = MembershipsForced
      /\ script[4].do = "create" /\ script[4].object = MembershipSelectOwn
      /\ script[5].do = "create" /\ script[5].object = MembershipInsertSelf
  BY DEF Upgrades, upgrade_8fb97b5600aa, Create, Set
<1>. HIDE DEF script
<1>2. \A k \in 1..Len(script) :
        /\ script[k].do \in {"create", "set"}
        /\ Born(script[k].object.name) = 4
        /\ \A j \in 1..k - 1 : script[j].object.name # script[k].object.name
  <2>. DEFINE names == {"relaymaid_current_user_id", "memberships.row_security",
                        "memberships.force_row_security", "membership_select_own",
                        "membership_insert_self"}
  <2>1. \A k \in 1..Len(script) : script[k].object.name \in names
    BY <1>1, Objects_8fb97b5600aa
  <2>2. \A name \in names : Born(name) = 4
    BY DEF Born
  <2>3. \A k \in 1..Len(script) : Born(script[k].object.name) = 4
    BY <2>1, <2>2
  <2>4. \A k \in 1..Len(script) : script[k].do \in {"create", "set"}
    BY <1>1
  <2>5. \A k \in 1..Len(script) : \A j \in 1..k - 1 :
          script[j].object.name # script[k].object.name
    BY <1>1, Objects_8fb97b5600aa
  <2>6. QED
    BY <2>3, <2>4, <2>5
<1>3. \A k \in 1..Len(script) : \A name \in script[k].object.on \cup script[k].object.uses :
             \/ Born(name) \in 1..4 - 1
             \/ \E j \in 1..k - 1 : script[j].object.name = name
  BY <1>1, Objects_8fb97b5600aa DEF Born
<1>4. \A name : Born(name) = 4 => \E o \in Created(4) : o.name = name
  <2>. DEFINE IsMade(name) == \E o \in Created(4) : o.name = name
  <2>1. \A name : Born(name) = 4 => name \in {"relaymaid_current_user_id",
        "memberships.row_security", "memberships.force_row_security",
        "membership_select_own", "membership_insert_self"}
    BY DEF Born
  <2>2. IsMade("relaymaid_current_user_id")
    BY Objects_8fb97b5600aa
  <2>3. IsMade("memberships.row_security")
    BY Objects_8fb97b5600aa
  <2>4. IsMade("memberships.force_row_security")
    BY Objects_8fb97b5600aa
  <2>5. IsMade("membership_select_own")
    BY Objects_8fb97b5600aa
  <2>6. IsMade("membership_insert_self")
    BY Objects_8fb97b5600aa
  <2>. HIDE DEF IsMade
  <2>7. \A name : Born(name) = 4 => IsMade(name)
    BY <2>1, <2>2, <2>3, <2>4, <2>5, <2>6
  <2>8. QED
    BY <2>7 DEF IsMade
<1>5. Len(script) = 5 /\ DOMAIN script = 1..5
  BY <1>1
<1>6. Len(script) \in 1..7 /\ DOMAIN script = 1..Len(script)
  BY <1>5
<1>7. QED
  BY <1>2, <1>3, <1>4, <1>6, Zenon DEF UpgradeIsSound, script

\* downgrade_8fb97b5600aa undoes all of it, in an order that the catalog allows.
LEMMA Downgrade_8fb97b5600aa == DowngradeIsSound(4)
<1>. DEFINE script == Downgrades[4]
<1>1. /\ Len(script) = 5 /\ DOMAIN script = 1..5
      /\ script[1].do = "drop" /\ script[1].object = MembershipInsertSelf
      /\ script[2].do = "drop" /\ script[2].object = MembershipSelectOwn
      /\ script[3].do = "unset" /\ script[3].object = MembershipsForced
      /\ script[4].do = "unset" /\ script[4].object = MembershipsSecured
      /\ script[5].do = "drop" /\ script[5].object = Function(UserId)
  BY DEF Downgrades, downgrade_8fb97b5600aa, Drop, Unset
<1>. HIDE DEF script
<1>2. \A k \in 1..Len(script) :
        /\ script[k].do \in {"drop", "drop_if_exists", "unset"}
        /\ Born(script[k].object.name) = 4 /\ script[k].object \in Created(4)
  <2>. DEFINE names == {"relaymaid_current_user_id", "memberships.row_security",
                        "memberships.force_row_security", "membership_select_own",
                        "membership_insert_self"}
  <2>1. \A k \in 1..Len(script) : script[k].object.name \in names
    BY <1>1, Objects_8fb97b5600aa
  <2>2. \A name \in names : Born(name) = 4
    BY DEF Born
  <2>3. \A k \in 1..Len(script) : Born(script[k].object.name) = 4
    BY <2>1, <2>2
  <2>4. \A k \in 1..Len(script) : script[k].do \in {"drop", "drop_if_exists", "unset"}
    BY <1>1
  <2>5. \A k \in 1..Len(script) : script[k].object \in Created(4)
    BY <1>1, Objects_8fb97b5600aa
  <2>6. QED
    BY <2>3, <2>4, <2>5
<1>3. \A k \in 1..Len(script) : script[k].do = "drop" =>
            \A j \in 1..k - 1 : ~Touches(script[j].object, script[k].object)
  BY <1>1, Objects_8fb97b5600aa DEF Touches
<1>4. \A k \in 1..Len(script) : script[k].do = "unset" =>
            \A name \in script[k].object.on :
               \/ Born(name) \in 1..4 - 1
               \/ \E o \in Created(4) :
                    /\ o.name = name
                    /\ \A j \in 1..k - 1 : ~Touches(script[j].object, o)
  BY <1>1, Objects_8fb97b5600aa DEF Born, Touches
<1>5. \A o \in Created(4) : \E k \in 1..Len(script) : Touches(script[k].object, o)
  BY <1>1, Objects_8fb97b5600aa DEF Touches
<1>6. \A o, used \in Created(4) : used.name \in o.uses =>
        \A k \in 1..Len(script) : Touches(script[k].object, used) =>
            \E j \in 1..k : Touches(script[j].object, o)
  <2>1. \A o, used \in Created(4) : used.name \in o.uses =>
        \/ (o = MembershipSelectOwn /\ used = Function(UserId))
        \/ (o = MembershipInsertSelf /\ used = Function(UserId))
    BY Objects_8fb97b5600aa
  <2>2. \A k \in 1..Len(script) : Touches(script[k].object, Function(UserId)) => k >= 5
    BY <1>1, Objects_8fb97b5600aa DEF Touches
  <2>3. \A k \in 1..Len(script) : k >= 5 => \E j \in 1..k : Touches(script[j].object,
        MembershipSelectOwn)
    BY <1>1 DEF Touches
  <2>4. \A k \in 1..Len(script) : k >= 5 => \E j \in 1..k : Touches(script[j].object,
        MembershipInsertSelf)
    BY <1>1 DEF Touches
  <2>5. QED
    BY <2>1, <2>2, <2>3, <2>4
<1>7. Len(script) = 5 /\ DOMAIN script = 1..5
  BY <1>1
<1>8. Len(script) \in 1..7 /\ DOMAIN script = 1..Len(script)
  BY <1>7
<1>9. QED
  BY <1>8, <1>2, <1>3, <1>4, <1>5, <1>6, Zenon DEF DowngradeIsSound, script

\* What revision 6ab4c49ed5e4 creates, and what it is on and uses.
LEMMA Objects_6ab4c49ed5e4 ==
    /\ Created(5) = {WebhookEndpoints, WebhookEndpointsIndex}
    /\ WebhookEndpoints.name = "webhook_endpoints" /\ WebhookEndpoints.on = {}
    /\ WebhookEndpoints.uses = {"organizations"}
    /\ WebhookEndpointsIndex.name = "ix_webhook_endpoints_organization_id"
    /\ WebhookEndpointsIndex.on = {"webhook_endpoints"}
    /\ WebhookEndpointsIndex.uses = {}
<1>1. Created(5) = {WebhookEndpoints, WebhookEndpointsIndex}
  BY DEF Created, Upgrades, upgrade_6ab4c49ed5e4, Create
<1>2. QED
  BY <1>1 DEF Index, Object, Table, WebhookEndpoints, WebhookEndpointsIndex

\* Every statement of upgrade_6ab4c49ed5e4 finds what it needs.
LEMMA Upgrade_6ab4c49ed5e4 == UpgradeIsSound(5)
<1>. DEFINE script == Upgrades[5]
<1>1. /\ Len(script) = 2 /\ DOMAIN script = 1..2
      /\ script[1].do = "create" /\ script[1].object = WebhookEndpoints
      /\ script[2].do = "create" /\ script[2].object = WebhookEndpointsIndex
  BY DEF Upgrades, upgrade_6ab4c49ed5e4, Create
<1>. HIDE DEF script
<1>2. \A k \in 1..Len(script) :
        /\ script[k].do \in {"create", "set"}
        /\ Born(script[k].object.name) = 5
        /\ \A j \in 1..k - 1 : script[j].object.name # script[k].object.name
  <2>. DEFINE names == {"webhook_endpoints", "ix_webhook_endpoints_organization_id"}
  <2>1. \A k \in 1..Len(script) : script[k].object.name \in names
    BY <1>1, Objects_6ab4c49ed5e4
  <2>2. \A name \in names : Born(name) = 5
    BY DEF Born
  <2>3. \A k \in 1..Len(script) : Born(script[k].object.name) = 5
    BY <2>1, <2>2
  <2>4. \A k \in 1..Len(script) : script[k].do \in {"create", "set"}
    BY <1>1
  <2>5. \A k \in 1..Len(script) : \A j \in 1..k - 1 :
          script[j].object.name # script[k].object.name
    BY <1>1, Objects_6ab4c49ed5e4
  <2>6. QED
    BY <2>3, <2>4, <2>5
<1>3. \A k \in 1..Len(script) : \A name \in script[k].object.on \cup script[k].object.uses :
             \/ Born(name) \in 1..5 - 1
             \/ \E j \in 1..k - 1 : script[j].object.name = name
  BY <1>1, Objects_6ab4c49ed5e4 DEF Born
<1>4. \A name : Born(name) = 5 => \E o \in Created(5) : o.name = name
  <2>. DEFINE IsMade(name) == \E o \in Created(5) : o.name = name
  <2>1. \A name : Born(name) = 5 => name \in {"webhook_endpoints",
        "ix_webhook_endpoints_organization_id"}
    BY DEF Born
  <2>2. IsMade("webhook_endpoints")
    BY Objects_6ab4c49ed5e4
  <2>3. IsMade("ix_webhook_endpoints_organization_id")
    BY Objects_6ab4c49ed5e4
  <2>. HIDE DEF IsMade
  <2>4. \A name : Born(name) = 5 => IsMade(name)
    BY <2>1, <2>2, <2>3
  <2>5. QED
    BY <2>4 DEF IsMade
<1>5. Len(script) = 2 /\ DOMAIN script = 1..2
  BY <1>1
<1>6. Len(script) \in 1..7 /\ DOMAIN script = 1..Len(script)
  BY <1>5
<1>7. QED
  BY <1>2, <1>3, <1>4, <1>6, Zenon DEF UpgradeIsSound, script

\* downgrade_6ab4c49ed5e4 undoes all of it, in an order that the catalog allows.
LEMMA Downgrade_6ab4c49ed5e4 == DowngradeIsSound(5)
<1>. DEFINE script == Downgrades[5]
<1>1. /\ Len(script) = 2 /\ DOMAIN script = 1..2
      /\ script[1].do = "drop" /\ script[1].object = WebhookEndpointsIndex
      /\ script[2].do = "drop" /\ script[2].object = WebhookEndpoints
  BY DEF Downgrades, downgrade_6ab4c49ed5e4, Drop
<1>. HIDE DEF script
<1>2. \A k \in 1..Len(script) :
        /\ script[k].do \in {"drop", "drop_if_exists", "unset"}
        /\ Born(script[k].object.name) = 5 /\ script[k].object \in Created(5)
  <2>. DEFINE names == {"webhook_endpoints", "ix_webhook_endpoints_organization_id"}
  <2>1. \A k \in 1..Len(script) : script[k].object.name \in names
    BY <1>1, Objects_6ab4c49ed5e4
  <2>2. \A name \in names : Born(name) = 5
    BY DEF Born
  <2>3. \A k \in 1..Len(script) : Born(script[k].object.name) = 5
    BY <2>1, <2>2
  <2>4. \A k \in 1..Len(script) : script[k].do \in {"drop", "drop_if_exists", "unset"}
    BY <1>1
  <2>5. \A k \in 1..Len(script) : script[k].object \in Created(5)
    BY <1>1, Objects_6ab4c49ed5e4
  <2>6. QED
    BY <2>3, <2>4, <2>5
<1>3. \A k \in 1..Len(script) : script[k].do = "drop" =>
            \A j \in 1..k - 1 : ~Touches(script[j].object, script[k].object)
  BY <1>1, Objects_6ab4c49ed5e4 DEF Touches
<1>4. \A k \in 1..Len(script) : script[k].do = "unset" =>
            \A name \in script[k].object.on :
               \/ Born(name) \in 1..5 - 1
               \/ \E o \in Created(5) :
                    /\ o.name = name
                    /\ \A j \in 1..k - 1 : ~Touches(script[j].object, o)
  BY <1>1, Objects_6ab4c49ed5e4 DEF Born, Touches
<1>5. \A o \in Created(5) : \E k \in 1..Len(script) : Touches(script[k].object, o)
  BY <1>1, Objects_6ab4c49ed5e4 DEF Touches
<1>6. \A o, used \in Created(5) : used.name \in o.uses =>
        \A k \in 1..Len(script) : Touches(script[k].object, used) =>
            \E j \in 1..k : Touches(script[j].object, o)
  <2>1. \A o, used \in Created(5) : used.name \in o.uses => FALSE
    BY Objects_6ab4c49ed5e4
  <2>2. QED
    BY <2>1
<1>7. Len(script) = 2 /\ DOMAIN script = 1..2
  BY <1>1
<1>8. Len(script) \in 1..7 /\ DOMAIN script = 1..Len(script)
  BY <1>7
<1>9. QED
  BY <1>8, <1>2, <1>3, <1>4, <1>5, <1>6, Zenon DEF DowngradeIsSound, script

\* What revision 22ea746a840d creates, and what it is on and uses.
LEMMA Objects_22ea746a840d ==
    /\ Created(6) = {EndpointsSecured, EndpointsForced, EndpointsSelectOwn,
          EndpointsInsertOwn, EndpointsUpdateOwn}
    /\ EndpointsSecured.name = "webhook_endpoints.row_security"
    /\ EndpointsSecured.on = {"webhook_endpoints"}
    /\ EndpointsSecured.uses = {}
    /\ EndpointsForced.name = "webhook_endpoints.force_row_security"
    /\ EndpointsForced.on = {"webhook_endpoints"}
    /\ EndpointsForced.uses = {}
    /\ EndpointsSelectOwn.name = "webhook_endpoints_select_own"
    /\ EndpointsSelectOwn.on = {"webhook_endpoints"}
    /\ EndpointsSelectOwn.uses = {"relaymaid_current_organization_id"}
    /\ EndpointsInsertOwn.name = "webhook_endpoints_insert_own"
    /\ EndpointsInsertOwn.on = {"webhook_endpoints"}
    /\ EndpointsInsertOwn.uses = {"relaymaid_current_organization_id"}
    /\ EndpointsUpdateOwn.name = "webhook_endpoints_update_own"
    /\ EndpointsUpdateOwn.on = {"webhook_endpoints"}
    /\ EndpointsUpdateOwn.uses = {"relaymaid_current_organization_id"}
<1>1. Created(6) = {EndpointsSecured, EndpointsForced, EndpointsSelectOwn,
      EndpointsInsertOwn, EndpointsUpdateOwn}
  BY DEF Created, Upgrades, upgrade_22ea746a840d, Create, Set
<1>2. QED
  BY <1>1 DEF EndpointsForced, EndpointsInsertOwn, EndpointsSecured, EndpointsSelectOwn,
     EndpointsUpdateOwn, ForceRowSecurity, Object, OrganizationId, OwnPolicy, Policy, RowSecurity

\* Every statement of upgrade_22ea746a840d finds what it needs.
LEMMA Upgrade_22ea746a840d == UpgradeIsSound(6)
<1>. DEFINE script == Upgrades[6]
<1>1. /\ Len(script) = 5 /\ DOMAIN script = 1..5
      /\ script[1].do = "set" /\ script[1].object = EndpointsSecured
      /\ script[2].do = "set" /\ script[2].object = EndpointsForced
      /\ script[3].do = "create" /\ script[3].object = EndpointsSelectOwn
      /\ script[4].do = "create" /\ script[4].object = EndpointsInsertOwn
      /\ script[5].do = "create" /\ script[5].object = EndpointsUpdateOwn
  BY DEF Upgrades, upgrade_22ea746a840d, Create, Set
<1>. HIDE DEF script
<1>2. \A k \in 1..Len(script) :
        /\ script[k].do \in {"create", "set"}
        /\ Born(script[k].object.name) = 6
        /\ \A j \in 1..k - 1 : script[j].object.name # script[k].object.name
  <2>. DEFINE names == {"webhook_endpoints.row_security",
                        "webhook_endpoints.force_row_security",
                        "webhook_endpoints_select_own", "webhook_endpoints_insert_own",
                        "webhook_endpoints_update_own"}
  <2>1. \A k \in 1..Len(script) : script[k].object.name \in names
    BY <1>1, Objects_22ea746a840d
  <2>2. \A name \in names : Born(name) = 6
    BY DEF Born
  <2>3. \A k \in 1..Len(script) : Born(script[k].object.name) = 6
    BY <2>1, <2>2
  <2>4. \A k \in 1..Len(script) : script[k].do \in {"create", "set"}
    BY <1>1
  <2>5. \A k \in 1..Len(script) : \A j \in 1..k - 1 :
          script[j].object.name # script[k].object.name
    BY <1>1, Objects_22ea746a840d
  <2>6. QED
    BY <2>3, <2>4, <2>5
<1>3. \A k \in 1..Len(script) : \A name \in script[k].object.on \cup script[k].object.uses :
             \/ Born(name) \in 1..6 - 1
             \/ \E j \in 1..k - 1 : script[j].object.name = name
  BY <1>1, Objects_22ea746a840d DEF Born
<1>4. \A name : Born(name) = 6 => \E o \in Created(6) : o.name = name
  <2>. DEFINE IsMade(name) == \E o \in Created(6) : o.name = name
  <2>1. \A name : Born(name) = 6 => name \in {"webhook_endpoints.row_security",
        "webhook_endpoints.force_row_security", "webhook_endpoints_select_own",
        "webhook_endpoints_insert_own", "webhook_endpoints_update_own"}
    BY DEF Born
  <2>2. IsMade("webhook_endpoints.row_security")
    BY Objects_22ea746a840d
  <2>3. IsMade("webhook_endpoints.force_row_security")
    BY Objects_22ea746a840d
  <2>4. IsMade("webhook_endpoints_select_own")
    BY Objects_22ea746a840d
  <2>5. IsMade("webhook_endpoints_insert_own")
    BY Objects_22ea746a840d
  <2>6. IsMade("webhook_endpoints_update_own")
    BY Objects_22ea746a840d
  <2>. HIDE DEF IsMade
  <2>7. \A name : Born(name) = 6 => IsMade(name)
    BY <2>1, <2>2, <2>3, <2>4, <2>5, <2>6
  <2>8. QED
    BY <2>7 DEF IsMade
<1>5. Len(script) = 5 /\ DOMAIN script = 1..5
  BY <1>1
<1>6. Len(script) \in 1..7 /\ DOMAIN script = 1..Len(script)
  BY <1>5
<1>7. QED
  BY <1>2, <1>3, <1>4, <1>6, Zenon DEF UpgradeIsSound, script

\* downgrade_22ea746a840d undoes all of it, in an order that the catalog allows.
LEMMA Downgrade_22ea746a840d == DowngradeIsSound(6)
<1>. DEFINE script == Downgrades[6]
<1>1. /\ Len(script) = 5 /\ DOMAIN script = 1..5
      /\ script[1].do = "drop" /\ script[1].object = EndpointsInsertOwn
      /\ script[2].do = "drop" /\ script[2].object = EndpointsSelectOwn
      /\ script[3].do = "drop" /\ script[3].object = EndpointsUpdateOwn
      /\ script[4].do = "unset" /\ script[4].object = EndpointsForced
      /\ script[5].do = "unset" /\ script[5].object = EndpointsSecured
  BY DEF Downgrades, downgrade_22ea746a840d, Drop, Unset
<1>. HIDE DEF script
<1>2. \A k \in 1..Len(script) :
        /\ script[k].do \in {"drop", "drop_if_exists", "unset"}
        /\ Born(script[k].object.name) = 6 /\ script[k].object \in Created(6)
  <2>. DEFINE names == {"webhook_endpoints.row_security",
                        "webhook_endpoints.force_row_security",
                        "webhook_endpoints_select_own", "webhook_endpoints_insert_own",
                        "webhook_endpoints_update_own"}
  <2>1. \A k \in 1..Len(script) : script[k].object.name \in names
    BY <1>1, Objects_22ea746a840d
  <2>2. \A name \in names : Born(name) = 6
    BY DEF Born
  <2>3. \A k \in 1..Len(script) : Born(script[k].object.name) = 6
    BY <2>1, <2>2
  <2>4. \A k \in 1..Len(script) : script[k].do \in {"drop", "drop_if_exists", "unset"}
    BY <1>1
  <2>5. \A k \in 1..Len(script) : script[k].object \in Created(6)
    BY <1>1, Objects_22ea746a840d
  <2>6. QED
    BY <2>3, <2>4, <2>5
<1>3. \A k \in 1..Len(script) : script[k].do = "drop" =>
            \A j \in 1..k - 1 : ~Touches(script[j].object, script[k].object)
  BY <1>1, Objects_22ea746a840d DEF Touches
<1>4. \A k \in 1..Len(script) : script[k].do = "unset" =>
            \A name \in script[k].object.on :
               \/ Born(name) \in 1..6 - 1
               \/ \E o \in Created(6) :
                    /\ o.name = name
                    /\ \A j \in 1..k - 1 : ~Touches(script[j].object, o)
  BY <1>1, Objects_22ea746a840d DEF Born, Touches
<1>5. \A o \in Created(6) : \E k \in 1..Len(script) : Touches(script[k].object, o)
  BY <1>1, Objects_22ea746a840d DEF Touches
<1>6. \A o, used \in Created(6) : used.name \in o.uses =>
        \A k \in 1..Len(script) : Touches(script[k].object, used) =>
            \E j \in 1..k : Touches(script[j].object, o)
  <2>1. \A o, used \in Created(6) : used.name \in o.uses => FALSE
    BY Objects_22ea746a840d
  <2>2. QED
    BY <2>1
<1>7. Len(script) = 5 /\ DOMAIN script = 1..5
  BY <1>1
<1>8. Len(script) \in 1..7 /\ DOMAIN script = 1..Len(script)
  BY <1>7
<1>9. QED
  BY <1>8, <1>2, <1>3, <1>4, <1>5, <1>6, Zenon DEF DowngradeIsSound, script

\* What revision 059e21cdb12c creates, and what it is on and uses.
LEMMA Objects_059e21cdb12c ==
    /\ Created(7) = {EndpointsDeleteOwn}
    /\ EndpointsDeleteOwn.name = "webhook_endpoints_delete_own"
    /\ EndpointsDeleteOwn.on = {"webhook_endpoints"}
    /\ EndpointsDeleteOwn.uses = {"relaymaid_current_organization_id"}
<1>1. Created(7) = {EndpointsDeleteOwn}
  BY DEF Created, Upgrades, upgrade_059e21cdb12c, Create
<1>2. QED
  BY <1>1 DEF EndpointsDeleteOwn, Object, OrganizationId, OwnPolicy, Policy

\* Every statement of upgrade_059e21cdb12c finds what it needs.
LEMMA Upgrade_059e21cdb12c == UpgradeIsSound(7)
<1>. DEFINE script == Upgrades[7]
<1>1. /\ Len(script) = 1 /\ DOMAIN script = 1..1
      /\ script[1].do = "create" /\ script[1].object = EndpointsDeleteOwn
  BY DEF Upgrades, upgrade_059e21cdb12c, Create
<1>. HIDE DEF script
<1>2. \A k \in 1..Len(script) :
        /\ script[k].do \in {"create", "set"}
        /\ Born(script[k].object.name) = 7
        /\ \A j \in 1..k - 1 : script[j].object.name # script[k].object.name
  BY <1>1, Objects_059e21cdb12c DEF Born
<1>3. \A k \in 1..Len(script) : \A name \in script[k].object.on \cup script[k].object.uses :
             \/ Born(name) \in 1..7 - 1
             \/ \E j \in 1..k - 1 : script[j].object.name = name
  BY <1>1, Objects_059e21cdb12c DEF Born
<1>4. \A name : Born(name) = 7 => \E o \in Created(7) : o.name = name
  <2>. DEFINE IsMade(name) == \E o \in Created(7) : o.name = name
  <2>1. \A name : Born(name) = 7 => name \in {"webhook_endpoints_delete_own"}
    BY DEF Born
  <2>2. IsMade("webhook_endpoints_delete_own")
    BY Objects_059e21cdb12c
  <2>. HIDE DEF IsMade
  <2>3. \A name : Born(name) = 7 => IsMade(name)
    BY <2>1, <2>2
  <2>4. QED
    BY <2>3 DEF IsMade
<1>5. Len(script) = 1 /\ DOMAIN script = 1..1
  BY <1>1
<1>6. Len(script) \in 1..7 /\ DOMAIN script = 1..Len(script)
  BY <1>5
<1>7. QED
  BY <1>2, <1>3, <1>4, <1>6, Zenon DEF UpgradeIsSound, script

\* downgrade_059e21cdb12c undoes all of it, in an order that the catalog allows.
LEMMA Downgrade_059e21cdb12c == DowngradeIsSound(7)
<1>. DEFINE script == Downgrades[7]
<1>1. /\ Len(script) = 1 /\ DOMAIN script = 1..1
      /\ script[1].do = "drop" /\ script[1].object = EndpointsDeleteOwn
  BY DEF Downgrades, downgrade_059e21cdb12c, Drop
<1>. HIDE DEF script
<1>2. \A k \in 1..Len(script) :
        /\ script[k].do \in {"drop", "drop_if_exists", "unset"}
        /\ Born(script[k].object.name) = 7 /\ script[k].object \in Created(7)
  BY <1>1, Objects_059e21cdb12c DEF Born
<1>3. \A k \in 1..Len(script) : script[k].do = "drop" =>
            \A j \in 1..k - 1 : ~Touches(script[j].object, script[k].object)
  BY <1>1, Objects_059e21cdb12c DEF Touches
<1>4. \A k \in 1..Len(script) : script[k].do = "unset" =>
            \A name \in script[k].object.on :
               \/ Born(name) \in 1..7 - 1
               \/ \E o \in Created(7) :
                    /\ o.name = name
                    /\ \A j \in 1..k - 1 : ~Touches(script[j].object, o)
  BY <1>1, Objects_059e21cdb12c DEF Born, Touches
<1>5. \A o \in Created(7) : \E k \in 1..Len(script) : Touches(script[k].object, o)
  BY <1>1, Objects_059e21cdb12c DEF Touches
<1>6. \A o, used \in Created(7) : used.name \in o.uses =>
        \A k \in 1..Len(script) : Touches(script[k].object, used) =>
            \E j \in 1..k : Touches(script[j].object, o)
  <2>1. \A o, used \in Created(7) : used.name \in o.uses => FALSE
    BY Objects_059e21cdb12c
  <2>2. QED
    BY <2>1
<1>7. Len(script) = 1 /\ DOMAIN script = 1..1
  BY <1>1
<1>8. Len(script) \in 1..7 /\ DOMAIN script = 1..Len(script)
  BY <1>7
<1>9. QED
  BY <1>8, <1>2, <1>3, <1>4, <1>5, <1>6, Zenon DEF DowngradeIsSound, script

\* What revision ea636aa4e44c creates, and what it is on and uses.
LEMMA Objects_ea636aa4e44c ==
    /\ Created(8) = {ResolverOwnerSelect, Function(Resolver), ResolverRevoked}
    /\ ResolverOwnerSelect.name = "webhook_endpoints_resolver_owner_select"
    /\ ResolverOwnerSelect.on = {"webhook_endpoints"}
    /\ ResolverOwnerSelect.uses = {}
    /\ Function(Resolver).name = "relaymaid_resolve_webhook_endpoint"
    /\ Function(Resolver).on = {}
    /\ Function(Resolver).uses = {}
    /\ ResolverRevoked.name = "revoked_from_public"
    /\ ResolverRevoked.on = {"relaymaid_resolve_webhook_endpoint"}
    /\ ResolverRevoked.uses = {}
<1>1. Created(8) = {ResolverOwnerSelect, Function(Resolver), ResolverRevoked}
  BY DEF Created, Upgrades, upgrade_ea636aa4e44c, Create, Set
<1>2. QED
  BY <1>1 DEF Function, Object, Policy, Resolver, ResolverOwnerSelect, ResolverRevoked

\* Every statement of upgrade_ea636aa4e44c finds what it needs.
LEMMA Upgrade_ea636aa4e44c == UpgradeIsSound(8)
<1>. DEFINE script == Upgrades[8]
<1>1. /\ Len(script) = 3 /\ DOMAIN script = 1..3
      /\ script[1].do = "create" /\ script[1].object = ResolverOwnerSelect
      /\ script[2].do = "create" /\ script[2].object = Function(Resolver)
      /\ script[3].do = "set" /\ script[3].object = ResolverRevoked
  BY DEF Upgrades, upgrade_ea636aa4e44c, Create, Set
<1>. HIDE DEF script
<1>2. \A k \in 1..Len(script) :
        /\ script[k].do \in {"create", "set"}
        /\ Born(script[k].object.name) = 8
        /\ \A j \in 1..k - 1 : script[j].object.name # script[k].object.name
  <2>. DEFINE names == {"webhook_endpoints_resolver_owner_select", "revoked_from_public",
                        "relaymaid_resolve_webhook_endpoint"}
  <2>1. \A k \in 1..Len(script) : script[k].object.name \in names
    BY <1>1, Objects_ea636aa4e44c
  <2>2. \A name \in names : Born(name) = 8
    BY DEF Born
  <2>3. \A k \in 1..Len(script) : Born(script[k].object.name) = 8
    BY <2>1, <2>2
  <2>4. \A k \in 1..Len(script) : script[k].do \in {"create", "set"}
    BY <1>1
  <2>5. \A k \in 1..Len(script) : \A j \in 1..k - 1 :
          script[j].object.name # script[k].object.name
    BY <1>1, Objects_ea636aa4e44c
  <2>6. QED
    BY <2>3, <2>4, <2>5
<1>3. \A k \in 1..Len(script) : \A name \in script[k].object.on \cup script[k].object.uses :
             \/ Born(name) \in 1..8 - 1
             \/ \E j \in 1..k - 1 : script[j].object.name = name
  BY <1>1, Objects_ea636aa4e44c DEF Born
<1>4. \A name : Born(name) = 8 => \E o \in Created(8) : o.name = name
  <2>. DEFINE IsMade(name) == \E o \in Created(8) : o.name = name
  <2>1. \A name : Born(name) = 8 => name \in
        {"webhook_endpoints_resolver_owner_select", "relaymaid_resolve_webhook_endpoint",
        "revoked_from_public"}
    BY DEF Born
  <2>2. IsMade("webhook_endpoints_resolver_owner_select")
    BY Objects_ea636aa4e44c
  <2>3. IsMade("relaymaid_resolve_webhook_endpoint")
    BY Objects_ea636aa4e44c
  <2>4. IsMade("revoked_from_public")
    BY Objects_ea636aa4e44c
  <2>. HIDE DEF IsMade
  <2>5. \A name : Born(name) = 8 => IsMade(name)
    BY <2>1, <2>2, <2>3, <2>4
  <2>6. QED
    BY <2>5 DEF IsMade
<1>5. Len(script) = 3 /\ DOMAIN script = 1..3
  BY <1>1
<1>6. Len(script) \in 1..7 /\ DOMAIN script = 1..Len(script)
  BY <1>5
<1>7. QED
  BY <1>2, <1>3, <1>4, <1>6, Zenon DEF UpgradeIsSound, script

\* downgrade_ea636aa4e44c undoes all of it, in an order that the catalog allows.
LEMMA Downgrade_ea636aa4e44c == DowngradeIsSound(8)
<1>. DEFINE script == Downgrades[8]
<1>1. /\ Len(script) = 2 /\ DOMAIN script = 1..2
      /\ script[1].do = "drop_if_exists" /\ script[1].object = Function(Resolver)
      /\ script[2].do = "drop_if_exists" /\ script[2].object = ResolverOwnerSelect
  BY DEF Downgrades, downgrade_ea636aa4e44c, DropIfExists
<1>. HIDE DEF script
<1>2. \A k \in 1..Len(script) :
        /\ script[k].do \in {"drop", "drop_if_exists", "unset"}
        /\ Born(script[k].object.name) = 8 /\ script[k].object \in Created(8)
  <2>. DEFINE names == {"webhook_endpoints_resolver_owner_select", "revoked_from_public",
                        "relaymaid_resolve_webhook_endpoint"}
  <2>1. \A k \in 1..Len(script) : script[k].object.name \in names
    BY <1>1, Objects_ea636aa4e44c
  <2>2. \A name \in names : Born(name) = 8
    BY DEF Born
  <2>3. \A k \in 1..Len(script) : Born(script[k].object.name) = 8
    BY <2>1, <2>2
  <2>4. \A k \in 1..Len(script) : script[k].do \in {"drop", "drop_if_exists", "unset"}
    BY <1>1
  <2>5. \A k \in 1..Len(script) : script[k].object \in Created(8)
    BY <1>1, Objects_ea636aa4e44c
  <2>6. QED
    BY <2>3, <2>4, <2>5
<1>3. \A k \in 1..Len(script) : script[k].do = "drop" =>
            \A j \in 1..k - 1 : ~Touches(script[j].object, script[k].object)
  BY <1>1, Objects_ea636aa4e44c DEF Touches
<1>4. \A k \in 1..Len(script) : script[k].do = "unset" =>
            \A name \in script[k].object.on :
               \/ Born(name) \in 1..8 - 1
               \/ \E o \in Created(8) :
                    /\ o.name = name
                    /\ \A j \in 1..k - 1 : ~Touches(script[j].object, o)
  BY <1>1, Objects_ea636aa4e44c DEF Born, Touches
<1>5. \A o \in Created(8) : \E k \in 1..Len(script) : Touches(script[k].object, o)
  BY <1>1, Objects_ea636aa4e44c DEF Touches
<1>6. \A o, used \in Created(8) : used.name \in o.uses =>
        \A k \in 1..Len(script) : Touches(script[k].object, used) =>
            \E j \in 1..k : Touches(script[j].object, o)
  <2>1. \A o, used \in Created(8) : used.name \in o.uses => FALSE
    BY Objects_ea636aa4e44c
  <2>2. QED
    BY <2>1
<1>7. Len(script) = 2 /\ DOMAIN script = 1..2
  BY <1>1
<1>8. Len(script) \in 1..7 /\ DOMAIN script = 1..Len(script)
  BY <1>7
<1>9. QED
  BY <1>8, <1>2, <1>3, <1>4, <1>5, <1>6, Zenon DEF DowngradeIsSound, script

\* What revision c23a9dc5bca0 creates, and what it is on and uses.
LEMMA Objects_c23a9dc5bca0 ==
    /\ Created(9) = {Events, EventsIndex, EventsSecured, EventsForced,
          EventsSelectOwn, EventsInsertOwn}
    /\ Events.name = "events" /\ Events.on = {} /\ Events.uses = {"webhook_endpoints"}
    /\ EventsIndex.name = "ix_events_organization_received_at_id" /\ EventsIndex.on = {"events"}
    /\ EventsIndex.uses = {}
    /\ EventsSecured.name = "events.row_security" /\ EventsSecured.on = {"events"}
    /\ EventsSecured.uses = {}
    /\ EventsForced.name = "events.force_row_security" /\ EventsForced.on = {"events"}
    /\ EventsForced.uses = {}
    /\ EventsSelectOwn.name = "events_select_own" /\ EventsSelectOwn.on = {"events"}
    /\ EventsSelectOwn.uses = {"relaymaid_current_organization_id"}
    /\ EventsInsertOwn.name = "events_insert_own" /\ EventsInsertOwn.on = {"events"}
    /\ EventsInsertOwn.uses = {"relaymaid_current_organization_id"}
<1>1. Created(9) = {Events, EventsIndex, EventsSecured, EventsForced, EventsSelectOwn,
      EventsInsertOwn}
  BY DEF Created, Upgrades, upgrade_c23a9dc5bca0, Create, Set
<1>2. QED
  BY <1>1 DEF Events, EventsForced, EventsIndex, EventsInsertOwn, EventsSecured,
     EventsSelectOwn, ForceRowSecurity, Index, Object, OrganizationId, OwnPolicy, Policy,
     RowSecurity, Table

\* Every statement of upgrade_c23a9dc5bca0 finds what it needs.
LEMMA Upgrade_c23a9dc5bca0 == UpgradeIsSound(9)
<1>. DEFINE script == Upgrades[9]
<1>1. /\ Len(script) = 6 /\ DOMAIN script = 1..6
      /\ script[1].do = "create" /\ script[1].object = Events
      /\ script[2].do = "create" /\ script[2].object = EventsIndex
      /\ script[3].do = "set" /\ script[3].object = EventsSecured
      /\ script[4].do = "set" /\ script[4].object = EventsForced
      /\ script[5].do = "create" /\ script[5].object = EventsSelectOwn
      /\ script[6].do = "create" /\ script[6].object = EventsInsertOwn
  BY DEF Upgrades, upgrade_c23a9dc5bca0, Create, Set
<1>. HIDE DEF script
<1>2. \A k \in 1..Len(script) :
        /\ script[k].do \in {"create", "set"}
        /\ Born(script[k].object.name) = 9
        /\ \A j \in 1..k - 1 : script[j].object.name # script[k].object.name
  <2>. DEFINE names == {"events", "ix_events_organization_received_at_id",
                        "events.row_security", "events.force_row_security",
                        "events_select_own", "events_insert_own"}
  <2>1. \A k \in 1..Len(script) : script[k].object.name \in names
    BY <1>1, Objects_c23a9dc5bca0
  <2>2. \A name \in names : Born(name) = 9
    BY DEF Born
  <2>3. \A k \in 1..Len(script) : Born(script[k].object.name) = 9
    BY <2>1, <2>2
  <2>4. \A k \in 1..Len(script) : script[k].do \in {"create", "set"}
    BY <1>1
  <2>5. \A k \in 1..Len(script) : \A j \in 1..k - 1 :
          script[j].object.name # script[k].object.name
    BY <1>1, Objects_c23a9dc5bca0
  <2>6. QED
    BY <2>3, <2>4, <2>5
<1>3. \A k \in 1..Len(script) : \A name \in script[k].object.on \cup script[k].object.uses :
             \/ Born(name) \in 1..9 - 1
             \/ \E j \in 1..k - 1 : script[j].object.name = name
  BY <1>1, Objects_c23a9dc5bca0 DEF Born
<1>4. \A name : Born(name) = 9 => \E o \in Created(9) : o.name = name
  <2>. DEFINE IsMade(name) == \E o \in Created(9) : o.name = name
  <2>1. \A name : Born(name) = 9 => name \in {"events",
        "ix_events_organization_received_at_id", "events.row_security",
        "events.force_row_security", "events_select_own", "events_insert_own"}
    BY DEF Born
  <2>2. IsMade("events")
    BY Objects_c23a9dc5bca0
  <2>3. IsMade("ix_events_organization_received_at_id")
    BY Objects_c23a9dc5bca0
  <2>4. IsMade("events.row_security")
    BY Objects_c23a9dc5bca0
  <2>5. IsMade("events.force_row_security")
    BY Objects_c23a9dc5bca0
  <2>6. IsMade("events_select_own")
    BY Objects_c23a9dc5bca0
  <2>7. IsMade("events_insert_own")
    BY Objects_c23a9dc5bca0
  <2>. HIDE DEF IsMade
  <2>8. \A name : Born(name) = 9 => IsMade(name)
    BY <2>1, <2>2, <2>3, <2>4, <2>5, <2>6, <2>7
  <2>9. QED
    BY <2>8 DEF IsMade
<1>5. Len(script) = 6 /\ DOMAIN script = 1..6
  BY <1>1
<1>6. Len(script) \in 1..7 /\ DOMAIN script = 1..Len(script)
  BY <1>5
<1>7. QED
  BY <1>2, <1>3, <1>4, <1>6, Zenon DEF UpgradeIsSound, script

\* downgrade_c23a9dc5bca0 undoes all of it, in an order that the catalog allows.
LEMMA Downgrade_c23a9dc5bca0 == DowngradeIsSound(9)
<1>. DEFINE script == Downgrades[9]
<1>1. /\ Len(script) = 6 /\ DOMAIN script = 1..6
      /\ script[1].do = "unset" /\ script[1].object = EventsSecured
      /\ script[2].do = "unset" /\ script[2].object = EventsForced
      /\ script[3].do = "drop_if_exists" /\ script[3].object = EventsSelectOwn
      /\ script[4].do = "drop_if_exists" /\ script[4].object = EventsInsertOwn
      /\ script[5].do = "drop" /\ script[5].object = EventsIndex
      /\ script[6].do = "drop" /\ script[6].object = Events
  BY DEF Downgrades, downgrade_c23a9dc5bca0, Drop, DropIfExists, Unset
<1>. HIDE DEF script
<1>2. \A k \in 1..Len(script) :
        /\ script[k].do \in {"drop", "drop_if_exists", "unset"}
        /\ Born(script[k].object.name) = 9 /\ script[k].object \in Created(9)
  <2>. DEFINE names == {"events", "ix_events_organization_received_at_id",
                        "events.row_security", "events.force_row_security",
                        "events_select_own", "events_insert_own"}
  <2>1. \A k \in 1..Len(script) : script[k].object.name \in names
    BY <1>1, Objects_c23a9dc5bca0
  <2>2. \A name \in names : Born(name) = 9
    BY DEF Born
  <2>3. \A k \in 1..Len(script) : Born(script[k].object.name) = 9
    BY <2>1, <2>2
  <2>4. \A k \in 1..Len(script) : script[k].do \in {"drop", "drop_if_exists", "unset"}
    BY <1>1
  <2>5. \A k \in 1..Len(script) : script[k].object \in Created(9)
    BY <1>1, Objects_c23a9dc5bca0
  <2>6. QED
    BY <2>3, <2>4, <2>5
<1>3. \A k \in 1..Len(script) : script[k].do = "drop" =>
            \A j \in 1..k - 1 : ~Touches(script[j].object, script[k].object)
  BY <1>1, Objects_c23a9dc5bca0 DEF Touches
<1>4. \A k \in 1..Len(script) : script[k].do = "unset" =>
            \A name \in script[k].object.on :
               \/ Born(name) \in 1..9 - 1
               \/ \E o \in Created(9) :
                    /\ o.name = name
                    /\ \A j \in 1..k - 1 : ~Touches(script[j].object, o)
  BY <1>1, Objects_c23a9dc5bca0 DEF Born, Touches
<1>5. \A o \in Created(9) : \E k \in 1..Len(script) : Touches(script[k].object, o)
  BY <1>1, Objects_c23a9dc5bca0 DEF Touches
<1>6. \A o, used \in Created(9) : used.name \in o.uses =>
        \A k \in 1..Len(script) : Touches(script[k].object, used) =>
            \E j \in 1..k : Touches(script[j].object, o)
  <2>1. \A o, used \in Created(9) : used.name \in o.uses => FALSE
    BY Objects_c23a9dc5bca0
  <2>2. QED
    BY <2>1
<1>7. Len(script) = 6 /\ DOMAIN script = 1..6
  BY <1>1
<1>8. Len(script) \in 1..7 /\ DOMAIN script = 1..Len(script)
  BY <1>7
<1>9. QED
  BY <1>8, <1>2, <1>3, <1>4, <1>5, <1>6, Zenon DEF DowngradeIsSound, script

\* What revision 960f7c1a26b0 creates, and what it is on and uses.
LEMMA Objects_960f7c1a26b0 ==
    /\ Created(10) = {EventsUnique, OutboxMessages, OutboxIndex, OutboxSecured,
          OutboxForced, OutboxSelectOwn, OutboxInsertOwn}
    /\ EventsUnique.name = "uq_events_organization_id_id" /\ EventsUnique.on = {"events"}
    /\ EventsUnique.uses = {}
    /\ OutboxMessages.name = "outbox_messages" /\ OutboxMessages.on = {}
    /\ OutboxMessages.uses = {"events", "uq_events_organization_id_id"}
    /\ OutboxIndex.name = "ix_outbox_messages_unpublished_created_at_id"
    /\ OutboxIndex.on = {"outbox_messages"}
    /\ OutboxIndex.uses = {}
    /\ OutboxSecured.name = "outbox_messages.row_security"
    /\ OutboxSecured.on = {"outbox_messages"}
    /\ OutboxSecured.uses = {}
    /\ OutboxForced.name = "outbox_messages.force_row_security"
    /\ OutboxForced.on = {"outbox_messages"}
    /\ OutboxForced.uses = {}
    /\ OutboxSelectOwn.name = "outbox_messages_select_own"
    /\ OutboxSelectOwn.on = {"outbox_messages"}
    /\ OutboxSelectOwn.uses = {"relaymaid_current_organization_id"}
    /\ OutboxInsertOwn.name = "outbox_messages_insert_own"
    /\ OutboxInsertOwn.on = {"outbox_messages"}
    /\ OutboxInsertOwn.uses = {"relaymaid_current_organization_id"}
<1>1. Created(10) = {EventsUnique, OutboxMessages, OutboxIndex, OutboxSecured,
      OutboxForced, OutboxSelectOwn, OutboxInsertOwn}
  BY DEF Created, Upgrades, upgrade_960f7c1a26b0, Create, Set
<1>2. QED
  BY <1>1 DEF EventsUnique, ForceRowSecurity, Index, Object, OrganizationId, OutboxForced,
     OutboxIndex, OutboxInsertOwn, OutboxMessages, OutboxSecured, OutboxSelectOwn, OwnPolicy,
     Policy, RowSecurity, Table

\* Every statement of upgrade_960f7c1a26b0 finds what it needs.
LEMMA Upgrade_960f7c1a26b0 == UpgradeIsSound(10)
<1>. DEFINE script == Upgrades[10]
<1>1. /\ Len(script) = 7 /\ DOMAIN script = 1..7
      /\ script[1].do = "create" /\ script[1].object = EventsUnique
      /\ script[2].do = "create" /\ script[2].object = OutboxMessages
      /\ script[3].do = "create" /\ script[3].object = OutboxIndex
      /\ script[4].do = "set" /\ script[4].object = OutboxSecured
      /\ script[5].do = "set" /\ script[5].object = OutboxForced
      /\ script[6].do = "create" /\ script[6].object = OutboxSelectOwn
      /\ script[7].do = "create" /\ script[7].object = OutboxInsertOwn
  BY DEF Upgrades, upgrade_960f7c1a26b0, Create, Set
<1>. HIDE DEF script
<1>2. \A k \in 1..Len(script) :
        /\ script[k].do \in {"create", "set"}
        /\ Born(script[k].object.name) = 10
        /\ \A j \in 1..k - 1 : script[j].object.name # script[k].object.name
  <2>. DEFINE names == {"uq_events_organization_id_id", "outbox_messages",
                        "ix_outbox_messages_unpublished_created_at_id",
                        "outbox_messages.row_security",
                        "outbox_messages.force_row_security", "outbox_messages_select_own",
                        "outbox_messages_insert_own"}
  <2>1. \A k \in 1..Len(script) : script[k].object.name \in names
    BY <1>1, Objects_960f7c1a26b0
  <2>2. \A name \in names : Born(name) = 10
    BY DEF Born
  <2>3. \A k \in 1..Len(script) : Born(script[k].object.name) = 10
    BY <2>1, <2>2
  <2>4. \A k \in 1..Len(script) : script[k].do \in {"create", "set"}
    BY <1>1
  <2>5. \A k \in 1..Len(script) : \A j \in 1..k - 1 :
          script[j].object.name # script[k].object.name
    BY <1>1, Objects_960f7c1a26b0
  <2>6. QED
    BY <2>3, <2>4, <2>5
<1>3. \A k \in 1..Len(script) : \A name \in script[k].object.on \cup script[k].object.uses :
             \/ Born(name) \in 1..10 - 1
             \/ \E j \in 1..k - 1 : script[j].object.name = name
  BY <1>1, Objects_960f7c1a26b0 DEF Born
<1>4. \A name : Born(name) = 10 => \E o \in Created(10) : o.name = name
  <2>. DEFINE IsMade(name) == \E o \in Created(10) : o.name = name
  <2>1. \A name : Born(name) = 10 => name \in {"uq_events_organization_id_id",
        "outbox_messages", "ix_outbox_messages_unpublished_created_at_id",
        "outbox_messages.row_security", "outbox_messages.force_row_security",
        "outbox_messages_select_own", "outbox_messages_insert_own"}
    BY DEF Born
  <2>2. IsMade("uq_events_organization_id_id")
    BY Objects_960f7c1a26b0
  <2>3. IsMade("outbox_messages")
    BY Objects_960f7c1a26b0
  <2>4. IsMade("ix_outbox_messages_unpublished_created_at_id")
    BY Objects_960f7c1a26b0
  <2>5. IsMade("outbox_messages.row_security")
    BY Objects_960f7c1a26b0
  <2>6. IsMade("outbox_messages.force_row_security")
    BY Objects_960f7c1a26b0
  <2>7. IsMade("outbox_messages_select_own")
    BY Objects_960f7c1a26b0
  <2>8. IsMade("outbox_messages_insert_own")
    BY Objects_960f7c1a26b0
  <2>. HIDE DEF IsMade
  <2>9. \A name : Born(name) = 10 => IsMade(name)
    BY <2>1, <2>2, <2>3, <2>4, <2>5, <2>6, <2>7, <2>8
  <2>10. QED
    BY <2>9 DEF IsMade
<1>5. Len(script) = 7 /\ DOMAIN script = 1..7
  BY <1>1
<1>6. Len(script) \in 1..7 /\ DOMAIN script = 1..Len(script)
  BY <1>5
<1>7. QED
  BY <1>2, <1>3, <1>4, <1>6, Zenon DEF UpgradeIsSound, script

\* downgrade_960f7c1a26b0 undoes all of it, in an order that the catalog allows.
LEMMA Downgrade_960f7c1a26b0 == DowngradeIsSound(10)
<1>. DEFINE script == Downgrades[10]
<1>1. /\ Len(script) = 7 /\ DOMAIN script = 1..7
      /\ script[1].do = "drop_if_exists" /\ script[1].object = OutboxInsertOwn
      /\ script[2].do = "drop_if_exists" /\ script[2].object = OutboxSelectOwn
      /\ script[3].do = "unset" /\ script[3].object = OutboxForced
      /\ script[4].do = "unset" /\ script[4].object = OutboxSecured
      /\ script[5].do = "drop" /\ script[5].object = OutboxIndex
      /\ script[6].do = "drop" /\ script[6].object = OutboxMessages
      /\ script[7].do = "drop" /\ script[7].object = EventsUnique
  BY DEF Downgrades, downgrade_960f7c1a26b0, Drop, DropIfExists, Unset
<1>. HIDE DEF script
<1>2. \A k \in 1..Len(script) :
        /\ script[k].do \in {"drop", "drop_if_exists", "unset"}
        /\ Born(script[k].object.name) = 10 /\ script[k].object \in Created(10)
  <2>. DEFINE names == {"uq_events_organization_id_id", "outbox_messages",
                        "ix_outbox_messages_unpublished_created_at_id",
                        "outbox_messages.row_security",
                        "outbox_messages.force_row_security", "outbox_messages_select_own",
                        "outbox_messages_insert_own"}
  <2>1. \A k \in 1..Len(script) : script[k].object.name \in names
    BY <1>1, Objects_960f7c1a26b0
  <2>2. \A name \in names : Born(name) = 10
    BY DEF Born
  <2>3. \A k \in 1..Len(script) : Born(script[k].object.name) = 10
    BY <2>1, <2>2
  <2>4. \A k \in 1..Len(script) : script[k].do \in {"drop", "drop_if_exists", "unset"}
    BY <1>1
  <2>5. \A k \in 1..Len(script) : script[k].object \in Created(10)
    BY <1>1, Objects_960f7c1a26b0
  <2>6. QED
    BY <2>3, <2>4, <2>5
<1>3. \A k \in 1..Len(script) : script[k].do = "drop" =>
            \A j \in 1..k - 1 : ~Touches(script[j].object, script[k].object)
  BY <1>1, Objects_960f7c1a26b0 DEF Touches
<1>4. \A k \in 1..Len(script) : script[k].do = "unset" =>
            \A name \in script[k].object.on :
               \/ Born(name) \in 1..10 - 1
               \/ \E o \in Created(10) :
                    /\ o.name = name
                    /\ \A j \in 1..k - 1 : ~Touches(script[j].object, o)
  BY <1>1, Objects_960f7c1a26b0 DEF Born, Touches
<1>5. \A o \in Created(10) : \E k \in 1..Len(script) : Touches(script[k].object, o)
  BY <1>1, Objects_960f7c1a26b0 DEF Touches
<1>6. \A o, used \in Created(10) : used.name \in o.uses =>
        \A k \in 1..Len(script) : Touches(script[k].object, used) =>
            \E j \in 1..k : Touches(script[j].object, o)
  <2>1. \A o, used \in Created(10) : used.name \in o.uses => (o = OutboxMessages /\
        used = EventsUnique)
    BY Objects_960f7c1a26b0
  <2>2. \A k \in 1..Len(script) : Touches(script[k].object, EventsUnique) => k >= 7
    BY <1>1, Objects_960f7c1a26b0 DEF Touches
  <2>3. \A k \in 1..Len(script) : k >= 7 => \E j \in 1..k : Touches(script[j].object,
        OutboxMessages)
    BY <1>1 DEF Touches
  <2>4. QED
    BY <2>1, <2>2, <2>3
<1>7. Len(script) = 7 /\ DOMAIN script = 1..7
  BY <1>1
<1>8. Len(script) \in 1..7 /\ DOMAIN script = 1..Len(script)
  BY <1>7
<1>9. QED
  BY <1>8, <1>2, <1>3, <1>4, <1>5, <1>6, Zenon DEF DowngradeIsSound, script

-----------------------------------------------------------------------------
(* What follows for all of them *)

\* Every name is born with one revision, or with none of them.
LEMMA BornRange == \A name : Born(name) \in 1..11
  BY DEF Born

\* Every script of the directory keeps to the catalog's rules.
LEMMA ScriptsAreSound == \A i \in 1..10 : UpgradeIsSound(i) /\ DowngradeIsSound(i)
<1>. SUFFICES ASSUME NEW i \in 1..10 PROVE UpgradeIsSound(i) /\ DowngradeIsSound(i)
  OBVIOUS
<1>1. i \in {1, 2, 3, 4, 5} => UpgradeIsSound(i) /\ DowngradeIsSound(i)
  BY Upgrade_45702c6aa3be, Upgrade_190c6e2489b7, Upgrade_0b9b0fd0fadf,
     Upgrade_8fb97b5600aa, Upgrade_6ab4c49ed5e4,
     Downgrade_45702c6aa3be, Downgrade_190c6e2489b7, Downgrade_0b9b0fd0fadf,
     Downgrade_8fb97b5600aa, Downgrade_6ab4c49ed5e4
<1>2. i \in {6, 7, 8, 9, 10} => UpgradeIsSound(i) /\ DowngradeIsSound(i)
  BY Upgrade_22ea746a840d, Upgrade_059e21cdb12c, Upgrade_ea636aa4e44c,
     Upgrade_c23a9dc5bca0, Upgrade_960f7c1a26b0,
     Downgrade_22ea746a840d, Downgrade_059e21cdb12c, Downgrade_ea636aa4e44c,
     Downgrade_c23a9dc5bca0, Downgrade_960f7c1a26b0
<1>3. QED
  BY <1>1, <1>2

\* The objects of a revision: each has a name of its own, and needs only what this
\* revision and those before it create.
LEMMA CreatedObjects ==
  ASSUME NEW i \in 1..10
  PROVE  /\ Created(i) = {Upgrades[i][k].object : k \in 1..Len(Upgrades[i])}
         /\ \A o \in Created(i) : Born(o.name) = i
         /\ \A o \in Created(i) : \A name \in o.on \cup o.uses : Born(name) \in 1..i
         /\ \A o, p \in Created(i) : o.name = p.name => o = p
<1>. DEFINE script == Upgrades[i]
<1>1. /\ Len(script) \in 1..7 /\ DOMAIN script = 1..Len(script)
      /\ \A k \in 1..Len(script) :
          /\ Born(script[k].object.name) = i
          /\ \A j \in 1..k - 1 : script[j].object.name # script[k].object.name
      /\ \A k \in 1..Len(script) :
          \A name \in script[k].object.on \cup script[k].object.uses :
            \/ Born(name) \in 1..i - 1
            \/ \E j \in 1..k - 1 : script[j].object.name = name
  BY ScriptsAreSound, Zenon DEF UpgradeIsSound
<1>2. Created(i) = {script[k].object : k \in 1..Len(script)}
  BY <1>1 DEF Created
<1>. HIDE DEF script
<1>3. \A o \in Created(i) : Born(o.name) = i
  BY <1>1, <1>2
<1>4. ASSUME NEW o \in Created(i), NEW name \in o.on \cup o.uses
      PROVE  Born(name) \in 1..i
  <2>1. PICK k \in 1..Len(script) : o = script[k].object
    BY <1>2
  <2>2. CASE Born(name) \in 1..i - 1
    BY <2>2
  <2>3. CASE \E j \in 1..k - 1 : script[j].object.name = name
    <3>1. PICK j \in 1..k - 1 : script[j].object.name = name
      BY <2>3
    <3>2. j \in 1..Len(script)
      BY <1>1, <3>1
    <3>3. QED
      BY <1>1, <3>1, <3>2
  <2>4. QED
    BY <1>1, <2>1, <2>2, <2>3
<1>5. ASSUME NEW o \in Created(i), NEW p \in Created(i), o.name = p.name
      PROVE  o = p
  <2>1. PICK k \in 1..Len(script) : o = script[k].object
    BY <1>2
  <2>2. PICK j \in 1..Len(script) : p = script[j].object
    BY <1>2
  <2>3. ~(j < k) /\ ~(k < j)
    BY <1>1, <1>5, <2>1, <2>2
  <2>4. j = k
    BY <1>1, <2>3
  <2>5. QED
    BY <2>1, <2>2, <2>4
<1>6. QED
  BY <1>2, <1>3, <1>4, <1>5 DEF script

\* The schemas: the objects of a revision and of those before it.
LEMMA Schemas ==
  /\ Schema[0] = {}
  /\ \A i \in 0..10 : \A o : o \in Schema[i] <=> \E j \in 1..i : o \in Created(j)
  /\ \A i \in 1..10 : Schema[i] = Schema[i - 1] \cup Created(i)
<1>1. \A i \in 0..10 : \A o : o \in Schema[i] <=> \E j \in 1..i : o \in Created(j)
  BY DEF Schema
<1>2. Schema[0] = {}
  BY <1>1
<1>3. ASSUME NEW i \in 1..10 PROVE Schema[i] = Schema[i - 1] \cup Created(i)
  <2>1. i - 1 \in 0..10 /\ i \in 0..10 /\ 1..i = (1..i - 1) \cup {i}
    OBVIOUS
  <2>2. \A o : o \in Schema[i] <=> o \in Schema[i - 1] \/ o \in Created(i)
    BY <1>1, <2>1
  <2>3. QED
    BY <2>2
<1>4. QED
  BY <1>1, <1>2, <1>3

\* A schema is what was born by its revision: it is closed under what its objects need,
\* and no two of them share a name.
LEMMA SchemaObjects ==
  /\ \A i \in 0..10 : \A o : o \in Schema[i] <=> o \in Schema[10] /\ Born(o.name) <= i
  /\ \A o \in Schema[10] : Born(o.name) \in 1..10 /\ o \in Created(Born(o.name))
  /\ \A o \in Schema[10] : \A name \in o.on \cup o.uses : Born(name) \in 1..Born(o.name)
  /\ \A o, p \in Schema[10] : o.name = p.name => o = p
<1>1. ASSUME NEW o \in Schema[10] PROVE Born(o.name) \in 1..10 /\ o \in Created(Born(o.name))
  BY Schemas, CreatedObjects
<1>2. ASSUME NEW i \in 0..10, NEW o
      PROVE  o \in Schema[i] <=> o \in Schema[10] /\ Born(o.name) <= i
  <2>1. ASSUME o \in Schema[i] PROVE o \in Schema[10] /\ Born(o.name) <= i
    <3>1. PICK j \in 1..i : o \in Created(j)
      BY <2>1, Schemas
    <3>2. j \in 1..10 /\ j <= i
      OBVIOUS
    <3>3. QED
      BY <3>1, <3>2, Schemas, CreatedObjects
  <2>2. ASSUME o \in Schema[10], Born(o.name) <= i PROVE o \in Schema[i]
    <3>1. Born(o.name) \in 1..i
      BY <1>1, <2>2
    <3>2. QED
      BY <1>1, <2>2, <3>1, Schemas
  <2>3. QED
    BY <2>1, <2>2
<1>3. \A o \in Schema[10] : \A name \in o.on \cup o.uses : Born(name) \in 1..Born(o.name)
  BY <1>1, CreatedObjects
<1>4. \A o, p \in Schema[10] : o.name = p.name => o = p
  BY <1>1, CreatedObjects
<1>5. QED
  BY <1>1, <1>2, <1>3, <1>4

\* Every name that is born by a revision is the name of an object of its schema.
LEMMA SchemaNames ==
  ASSUME NEW i \in 0..10, NEW name, Born(name) \in 1..i
  PROVE  \E o \in Schema[i] : o.name = name
<1>1. Born(name) \in 1..10
  OBVIOUS
<1>2. PICK o \in Created(Born(name)) : o.name = name
  BY <1>1, ScriptsAreSound, Zenon DEF UpgradeIsSound
<1>3. QED
  BY <1>2, Schemas

-----------------------------------------------------------------------------
(* alembic_version *)

\* The version table and its rows have names of their own, which no script uses.
LEMMA VersionObjects ==
  /\ VersionTable.name = "alembic_version" /\ VersionTable.on = {} /\ VersionTable.uses = {}
  /\ Born("alembic_version") = 11
  /\ \A i \in 1..10 :
      /\ VersionRow(i).name = Revisions[i]
      /\ VersionRow(i).on = {"alembic_version"} /\ VersionRow(i).uses = {}
      /\ Born(Revisions[i]) = 11 /\ Revisions[i] # "alembic_version"
  /\ \A i, j \in 1..10 : Revisions[i] = Revisions[j] => i = j
<1>1. /\ Revisions[1] = "45702c6aa3be" /\ Revisions[2] = "190c6e2489b7"
      /\ Revisions[3] = "0b9b0fd0fadf" /\ Revisions[4] = "8fb97b5600aa"
      /\ Revisions[5] = "6ab4c49ed5e4" /\ Revisions[6] = "22ea746a840d"
      /\ Revisions[7] = "059e21cdb12c" /\ Revisions[8] = "ea636aa4e44c"
      /\ Revisions[9] = "c23a9dc5bca0" /\ Revisions[10] = "960f7c1a26b0"
  BY DEF Revisions
<1>2. \A i \in 1..10 : Revisions[i] # "alembic_version"
  BY <1>1
<1>3. \A i \in 1..10 : Born(Revisions[i]) = 11
  BY <1>1 DEF Born
<1>4. \A i, j \in 1..10 : Revisions[i] = Revisions[j] => i = j
  BY <1>1
<1>5. Born("alembic_version") = 11
  BY DEF Born
<1>6. \A i \in 1..10 : /\ VersionRow(i).name = Revisions[i]
                       /\ VersionRow(i).on = {"alembic_version"} /\ VersionRow(i).uses = {}
  BY DEF VersionRow, Object
<1>7. VersionTable.name = "alembic_version" /\ VersionTable.on = {} /\ VersionTable.uses = {}
  BY DEF VersionTable, Table, Object
<1>8. QED
  BY <1>2, <1>3, <1>4, <1>5, <1>6, <1>7

\* The catalog is the schema, the version table and its rows, all of them apart.
LEMMA CatalogParts ==
  /\ Objects = Schema[10] \cup {VersionTable} \cup AllRows
  /\ Schema[10] \cap AllRows = {} /\ VersionTable \notin Schema[10] \cup AllRows
  /\ Rows[0] = {} /\ \A i \in 1..10 : Rows[i] = {VersionRow(i)}
  /\ \A i, j \in 1..10 : VersionRow(i) = VersionRow(j) => i = j
  /\ \A i \in 0..10 : Schema[i] \subseteq Schema[10] /\ Rows[i] \subseteq AllRows
<1>1. Rows[0] = {} /\ \A i \in 1..10 : Rows[i] = {VersionRow(i)}
  BY DEF Rows
<1>2. UNION {Rows[i] : i \in 1..10} = AllRows
  BY <1>1 DEF AllRows
<1>3. Objects = Schema[10] \cup {VersionTable} \cup AllRows
  BY <1>2 DEF Objects
<1>4. \A o \in AllRows : \E i \in 1..10 : o = VersionRow(i)
  BY DEF AllRows
<1>5. \A o \in AllRows : Born(o.name) = 11 /\ o.name # "alembic_version"
  BY <1>4, VersionObjects
<1>6. Schema[10] \cap AllRows = {} /\ VersionTable \notin Schema[10] \cup AllRows
  BY <1>5, VersionObjects, SchemaObjects
<1>7. \A i, j \in 1..10 : VersionRow(i) = VersionRow(j) => i = j
  BY VersionObjects
<1>8. \A i \in 0..10 : Schema[i] \subseteq Schema[10]
  BY SchemaObjects
<1>9. \A i \in 0..10 : Rows[i] \subseteq AllRows
  BY <1>1 DEF AllRows
<1>10. QED
  BY <1>1, <1>3, <1>6, <1>7, <1>8, <1>9

\* The rows of some revisions.
LEMMA RowsOf ==
  ASSUME NEW S \in SUBSET (0..10), NEW i \in 1..10
  PROVE  VersionRow(i) \in UNION {Rows[j] : j \in S} <=> i \in S
<1>1. ASSUME VersionRow(i) \in UNION {Rows[j] : j \in S} PROVE i \in S
  <2>1. PICK j \in S : VersionRow(i) \in Rows[j]
    BY <1>1
  <2>2. j \in 0..10 /\ j # 0
    BY <2>1, CatalogParts
  <2>3. QED
    BY <2>1, <2>2, CatalogParts
<1>2. ASSUME i \in S PROVE VersionRow(i) \in UNION {Rows[j] : j \in S}
  BY <1>2, CatalogParts
<1>3. QED
  BY <1>1, <1>2

\* A catalog that has no row but that of one revision reads as that revision.
LEMMA ReadsAs ==
  ASSUME NEW catalog, NEW i \in 0..10, catalog \ {VersionTable} = Schema[i] \cup Rows[i]
  PROVE  RevisionIn(catalog) = i
<1>1. \A j \in 1..10 : VersionRow(j) \in catalog <=> i = j
  <2>. SUFFICES ASSUME NEW j \in 1..10 PROVE VersionRow(j) \in catalog <=> i = j
    OBVIOUS
  <2>1. VersionRow(j) \in AllRows
    BY DEF AllRows
  <2>2. VersionRow(j) \in catalog <=> VersionRow(j) \in Rows[i]
    BY <2>1, CatalogParts
  <2>3. QED
    BY <2>2, CatalogParts
<1>2. CASE i = 0
  BY <1>1, <1>2 DEF RevisionIn
<1>3. CASE i # 0
  <2>1. i \in 1..10
    BY <1>3
  <2>2. QED
    BY <1>1, <2>1 DEF RevisionIn
<1>4. QED
  BY <1>2, <1>3

\* What a downgrade script drops takes nothing of an earlier schema along, and nothing
\* of alembic_version.
LEMMA DowngradesTouch ==
  ASSUME NEW i \in 1..10, NEW k \in 1..Len(Downgrades[i]), NEW o \in Objects,
         Touches(Downgrades[i][k].object, o)
  PROVE  o \in Schema[10] /\ Born(o.name) \in i..10
<1>. DEFINE object == Downgrades[i][k].object
<1>1. Born(object.name) = i
  BY ScriptsAreSound, Zenon DEF DowngradeIsSound
<1>2. o = object \/ object.name \in o.on
  BY DEF Touches
<1>. HIDE DEF object
<1>3. CASE o \in Schema[10]
  BY <1>1, <1>2, <1>3, SchemaObjects
<1>4. CASE o = VersionTable
  BY <1>1, <1>2, <1>4, VersionObjects
<1>5. CASE o \in AllRows
  <2>1. PICK j \in 1..10 : o = VersionRow(j)
    BY <1>5 DEF AllRows
  <2>2. o.name = Revisions[j] /\ o.on = {"alembic_version"} /\ Born(Revisions[j]) = 11
    BY <2>1, VersionObjects
  <2>3. QED
    BY <1>1, <1>2, <2>2, VersionObjects
<1>6. QED
  BY <1>3, <1>4, <1>5, CatalogParts

-----------------------------------------------------------------------------
(* What a step does to a run *)

\* A catalog between two transactions.
Matches(catalog) ==
    /\ catalog \subseteq Objects
    /\ catalog \ {VersionTable} = Schema[RevisionIn(catalog)] \cup Rows[RevisionIn(catalog)]
    /\ RevisionIn(catalog) # 0 => VersionTable \in catalog

IsRun(run) ==
    /\ run.origin \in 0..10 /\ run.at \in 0..10 /\ run.target \in 0..10
    /\ run.position \in 0..8
    /\ run.made \subseteq Objects /\ run.gone \subseteq Objects

\* What a run sees of a catalog.
Seen(catalog, run) == (catalog \ run.gone) \cup run.made

\* The same run after one of its statements.
Advanced(run, next, removed, added, locks) ==
    /\ next.origin = run.origin /\ next.at = run.at /\ next.target = run.target
    /\ next.position = run.position + 1
    /\ next.made = (run.made \ removed) \cup added
    /\ next.gone = (run.gone \ added) \cup removed
    /\ next.held = run.held \cup locks
    /\ next.overtaken = run.overtaken

LEMMA RevisionRange == \A catalog : RevisionIn(catalog) \in 0..10
  BY DEF RevisionIn

\* The script that a run is in is one of the ten, one way or the other.
LEMMA ScriptRange ==
  ASSUME NEW run, IsRun(run), IsOnItsWay(run), run.at # run.target
  PROVE  /\ Len(ScriptOf(run)) \in 1..7
         /\ run.at < run.target => run.origin <= run.at /\ run.at + 1 \in 1..10
         /\ ~(run.at < run.target) =>
              run.target < run.at /\ run.at <= run.origin /\ run.at \in 1..10
<1>1. /\ run.at < run.target => run.origin <= run.at /\ run.at + 1 \in 1..10
      /\ ~(run.at < run.target) =>
           run.target < run.at /\ run.at <= run.origin /\ run.at \in 1..10
  BY DEF IsRun, IsOnItsWay
<1>2. \A i \in 1..10 : Len(Upgrades[i]) \in 1..7 /\ Len(Downgrades[i]) \in 1..7
  BY ScriptsAreSound, Zenon DEF UpgradeIsSound, DowngradeIsSound
<1>3. QED
  BY <1>1, <1>2 DEF ScriptOf

\* A run that has just read the revision is as the invariant says.
LEMMA StartedRun ==
  ASSUME NEW catalog, Matches(catalog), NEW run, run.target \in 0..10,
         run.origin = RevisionIn(catalog), run.at = run.origin, run.target # run.origin,
         run.position = IF VersionTable \in catalog THEN 1 ELSE 0,
         run.made = {}, run.gone = {}, run.held = {}, run.overtaken = FALSE
  PROVE  RunInv(catalog, run)
<1>1. IsRun(run)
  BY RevisionRange DEF IsRun
<1>2. RevisionIn(catalog) # 0 => VersionTable \in catalog
  BY DEF Matches
<1>3. IsOnItsWay(run)
  <2>1. \A i \in 1..10 : Len(Upgrades[i]) \in 1..7 /\ Len(Downgrades[i]) \in 1..7
    BY ScriptsAreSound, Zenon DEF UpgradeIsSound, DowngradeIsSound
  <2>2. Len(ScriptOf(run)) \in 1..7
    BY <1>1, <2>1 DEF ScriptOf, IsRun
  <2>3. QED
    BY <1>1, <1>2, <2>2 DEF IsOnItsWay, IsRun
<1>4. KeepsVersionTable(catalog, run)
  BY DEF KeepsVersionTable
<1>5. Executed(run) = {}
  BY DEF Executed
<1>6. RowReached(run) = {} /\ RowsBehind(run) = {}
  BY <1>1 DEF RowReached, RowsBehind, IsRun
<1>7. UpgradesAdd(catalog, run)
  BY <1>1, <1>5, <1>6 DEF UpgradesAdd, IsRun
<1>8. DowngradesRemove(catalog, run)
  BY <1>5 DEF DowngradesRemove
<1>9. LocksVersion(catalog, run)
  BY DEF LocksVersion
<1>10. QED
  BY <1>3, <1>4, <1>7, <1>8, <1>9 DEF RunInv

\* The version table is the only thing that alembic makes before its first script.
LEMMA VersionTableMade ==
  ASSUME NEW catalog, NEW run, NEW next, IsRun(run), RunInv(catalog, run),
         run.at # run.target, run.position = 0,
         Advanced(run, next, {}, {VersionTable}, Locks(VersionTable))
  PROVE  RunInv(catalog, next)
<1>1. IsOnItsWay(next)
  BY ScriptRange DEF RunInv, IsOnItsWay, IsRun, Advanced, ScriptOf
<1>2. KeepsVersionTable(catalog, next)
  BY DEF RunInv, KeepsVersionTable, Advanced
<1>3. Executed(run) = {} /\ Executed(next) = {}
  BY DEF Executed, Advanced
<1>4. RowReached(next) = RowReached(run) /\ RowsBehind(next) = RowsBehind(run)
  BY DEF RowReached, RowsBehind, Advanced
<1>5. UpgradesAdd(catalog, next)
  <2>1. run.made \ {VersionTable} = next.made \ {VersionTable}
    BY DEF Advanced
  <2>2. run.gone \cap AllRows = next.gone \cap AllRows
    BY CatalogParts DEF Advanced
  <2>3. \A o \in next.made \ AllRows : {o.name} \cup o.on \subseteq next.held
    BY VersionObjects DEF RunInv, UpgradesAdd, Advanced, Locks
  <2>4. next.origin < next.target => next.gone \subseteq AllRows
    BY DEF RunInv, UpgradesAdd, Advanced
  <2>5. Organizations # VersionTable
    BY Objects_45702c6aa3be, VersionObjects
  <2>6. next.origin = 0 /\ Organizations \in next.made => Organizations \notin catalog
    BY <2>5 DEF RunInv, UpgradesAdd, Advanced
  <2>7. QED
    BY <1>3, <1>4, <2>1, <2>2, <2>3, <2>4, <2>6 DEF RunInv, UpgradesAdd, Advanced
<1>6. DowngradesRemove(catalog, next)
  BY DEF RunInv, IsOnItsWay, DowngradesRemove, Advanced, IsRun
<1>7. LocksVersion(catalog, next)
  BY DEF RunInv, LocksVersion, Advanced, FirstRow
<1>8. QED
  BY <1>1, <1>2, <1>5, <1>6, <1>7 DEF RunInv

\* The objects executed when one more statement is.
LEMMA OneMoreExecuted ==
  ASSUME NEW run, NEW next, IsRun(run), run.position # 0, run.at # run.target,
         NEW removed, NEW added, NEW locks, Advanced(run, next, removed, added, locks)
  PROVE  Executed(next) = Executed(run) \cup {ScriptOf(run)[run.position].object}
<1>1. ScriptOf(next) = ScriptOf(run)
  BY DEF ScriptOf, Advanced
<1>2. 1..next.position - 1 = (1..run.position - 1) \cup {run.position}
  BY DEF Advanced, IsRun
<1>3. QED
  BY <1>1, <1>2 DEF Executed, Advanced

\* A statement of an upgrade script adds one object and takes nothing away.
LEMMA UpgradeStep ==
  ASSUME NEW catalog, NEW run, NEW next, IsRun(run), RunInv(catalog, run),
         run.at < run.target, run.position \in 1..Len(ScriptOf(run)),
         NEW object, object = ScriptOf(run)[run.position].object,
         Advanced(run, next, {}, {object}, Locks(object)),
         run.origin = 0 /\ object = Organizations =>
           object \notin Seen(catalog, run)
  PROVE  RunInv(catalog, next)
<1>1. IsOnItsWay(run) /\ UpgradesAdd(catalog, run)
  BY DEF RunInv
<1>2. run.origin < run.target /\ run.at + 1 \in 1..10 /\ Len(ScriptOf(run)) \in 1..7
  <2>1. run.at \in 0..10 /\ run.target \in 0..10 /\ run.origin \in 0..10
    BY DEF IsRun
  <2>2. run.at # run.target
    BY <2>1
  <2>3. Len(ScriptOf(run)) \in 1..7 /\ run.origin <= run.at /\ run.at + 1 \in 1..10
    BY <1>1, <2>2, ScriptRange
  <2>4. QED
    BY <2>1, <2>3
<1>3. object \in Schema[10]
  <2>1. ScriptOf(run) = Upgrades[run.at + 1]
    BY DEF ScriptOf
  <2>2. Created(run.at + 1) =
          {Upgrades[run.at + 1][k].object : k \in 1..Len(Upgrades[run.at + 1])}
    BY <1>2, CreatedObjects
  <2>3. object \in Created(run.at + 1)
    BY <2>1, <2>2
  <2>4. QED
    BY <1>2, <2>3, Schemas
<1>4. object \notin AllRows /\ object # VersionTable
  BY <1>3, CatalogParts
<1>5. ScriptOf(next) = ScriptOf(run)
  BY DEF ScriptOf, Advanced
<1>6. IsOnItsWay(next)
  BY <1>1, <1>2, <1>5 DEF IsOnItsWay, IsRun, Advanced
<1>7. KeepsVersionTable(catalog, next)
  BY <1>4 DEF RunInv, KeepsVersionTable, Advanced, IsRun
<1>8. Executed(next) = Executed(run) \cup {object}
  <2>1. run.position # 0 /\ run.at # run.target
    BY DEF IsRun
  <2>2. QED
    BY <2>1, OneMoreExecuted
<1>9. RowReached(next) = RowReached(run) /\ RowsBehind(next) = RowsBehind(run)
  BY DEF RowReached, RowsBehind, Advanced
<1>10. run.gone \subseteq AllRows
  BY <1>1, <1>2 DEF UpgradesAdd
<1>11. next.gone = run.gone
  BY <1>4, <1>10 DEF Advanced
<1>12. UpgradesAdd(catalog, next)
  <2>1. next.made \ {VersionTable} = (run.made \ {VersionTable}) \cup {object}
    BY <1>4 DEF Advanced
  <2>2. next.made \ {VersionTable} =
          RowReached(next) \cup (UNION {Created(i) : i \in next.origin + 1..next.at})
          \cup Executed(next)
    BY <1>1, <1>2, <1>8, <1>9, <2>1 DEF UpgradesAdd, Advanced
  <2>3. \A o \in next.made \ AllRows : {o.name} \cup o.on \subseteq next.held
    BY <1>1 DEF UpgradesAdd, Advanced, Locks
  <2>4. next.origin = 0 /\ Organizations \in next.made => Organizations \notin catalog
    <3>1. CASE object = Organizations
      BY <1>4, <1>10, <3>1 DEF Advanced, Seen
    <3>2. CASE object # Organizations
      BY <1>1, <3>2 DEF UpgradesAdd, Advanced
    <3>3. QED
      BY <3>1, <3>2
  <2>5. next.gone \cap AllRows = RowsBehind(next)
    BY <1>1, <1>9, <1>11 DEF UpgradesAdd
  <2>6. next.origin < next.target
    BY <1>2 DEF Advanced
  <2>7. QED
    BY <1>10, <1>11, <2>2, <2>3, <2>4, <2>5, <2>6 DEF UpgradesAdd
<1>13. DowngradesRemove(catalog, next)
  BY <1>2 DEF DowngradesRemove, Advanced, IsRun
<1>14. LocksVersion(catalog, next)
  BY DEF RunInv, LocksVersion, Advanced, FirstRow
<1>15. QED
  BY <1>6, <1>7, <1>12, <1>13, <1>14 DEF RunInv

\* A statement of a downgrade script takes an object away, with all that is on it.
LEMMA DowngradeStep ==
  ASSUME NEW catalog, catalog \subseteq Objects,
         NEW run, NEW next, IsRun(run), RunInv(catalog, run),
         run.at # run.target, ~(run.at < run.target), run.position \in 1..Len(ScriptOf(run)),
         NEW object, object = ScriptOf(run)[run.position].object,
         NEW taken,
         taken = {o \in Seen(catalog, run) : Touches(object, o)},
         Advanced(run, next, taken, {}, Locks(object))
  PROVE  RunInv(catalog, next)
<1>1. IsOnItsWay(run) /\ UpgradesAdd(catalog, run) /\ DowngradesRemove(catalog, run)
  BY DEF RunInv
<1>2. /\ run.target < run.origin /\ run.at <= run.origin
      /\ run.at \in 1..10 /\ Len(ScriptOf(run)) \in 1..7
  BY <1>1, ScriptRange DEF IsRun
<1>3. ScriptOf(run) = Downgrades[run.at] /\ ScriptOf(next) = ScriptOf(run)
  BY DEF ScriptOf, Advanced
<1>. ~(run.origin < run.target)
  <2>1. \A o, t \in 0..10 : t < o => ~(o < t)
    OBVIOUS
  <2>2. run.origin \in 0..10 /\ run.target \in 0..10
    BY DEF IsRun
  <2>3. QED
    BY <1>2, <2>1, <2>2
<1>4. \A o \in taken : o \in Schema[10]
  <2>1. taken \subseteq Objects
    BY DEF IsRun, Seen
  <2>2. run.position \in 1..Len(Downgrades[run.at])
    BY <1>3
  <2>3. \A o \in taken : Touches(Downgrades[run.at][run.position].object, o)
    BY <1>3
  <2>4. QED
    BY <1>2, <2>1, <2>2, <2>3, DowngradesTouch
<1>5. run.made \subseteq AllRows \cup {VersionTable}
  <2>1. Rows[run.at] \subseteq AllRows /\ ~(run.origin < run.target)
    <3>1. \A i \in 0..10 : Rows[i] \subseteq AllRows
      BY CatalogParts
    <3>2. QED
      BY <3>1 DEF IsRun
  <2>2. run.made \ {VersionTable} = RowReached(run)
    BY <1>1, <2>1 DEF UpgradesAdd
  <2>3. QED
    BY <2>1, <2>2 DEF RowReached
<1>6. next.made = run.made /\ next.gone = run.gone \cup taken
  BY <1>4, <1>5, CatalogParts DEF Advanced
<1>7. IsOnItsWay(next)
  BY <1>1, <1>2, <1>3 DEF IsOnItsWay, IsRun, Advanced
<1>8. KeepsVersionTable(catalog, next)
  <2>1. VersionTable \notin taken
    BY <1>4, CatalogParts
  <2>2. next.position # 0
    BY DEF Advanced, IsRun
  <2>3. QED
    BY <1>6, <2>1, <2>2 DEF RunInv, KeepsVersionTable, Advanced, IsRun
<1>9. Executed(next) = Executed(run) \cup {object}
  <2>1. run.position # 0
    BY DEF IsRun
  <2>2. QED
    BY <2>1, OneMoreExecuted
<1>10. RowReached(next) = RowReached(run) /\ RowsBehind(next) = RowsBehind(run)
  BY DEF RowReached, RowsBehind, Advanced
<1>11. UpgradesAdd(catalog, next)
  <2>1. ~(run.origin < run.target) /\ ~(next.origin < next.target)
    BY DEF Advanced
  <2>2. next.gone \cap AllRows = run.gone \cap AllRows
    BY <1>4, <1>6, CatalogParts
  <2>3. \A o \in next.made \ AllRows : {o.name} \cup o.on \subseteq next.held
    BY <1>1, <1>6 DEF UpgradesAdd, Advanced
  <2>4. next.origin = 0 /\ Organizations \in next.made => Organizations \notin catalog
    BY <1>1, <1>6 DEF UpgradesAdd, Advanced
  <2>5. QED
    BY <1>1, <1>6, <1>10, <2>1, <2>2, <2>3, <2>4 DEF UpgradesAdd
<1>12. DowngradesRemove(catalog, next)
  <2>1. ASSUME NEW o \in next.gone \cap Schema[next.at]
        PROVE  \E dropped \in Executed(next) : Touches(dropped, o)
    <3>1. CASE o \in taken
      BY <1>9, <3>1
    <3>2. CASE o \in run.gone
      BY <1>1, <1>2, <1>9, <3>2 DEF DowngradesRemove, Advanced
    <3>3. QED
      BY <1>6, <3>1, <3>2
  <2>2. ASSUME NEW dropped \in Executed(next)
        PROVE  /\ dropped.name \in next.held
               /\ \A o \in catalog : Touches(dropped, o) => o \in next.gone
    <3>1. CASE dropped = object
      BY <1>6, <3>1 DEF Advanced, Locks, Seen
    <3>2. CASE dropped \in Executed(run)
      BY <1>1, <1>2, <1>6, <3>2 DEF DowngradesRemove, Advanced
    <3>3. QED
      BY <1>9, <3>1, <3>2
  <2>3. next.at # next.origin =>
          \A o \in catalog \cap Schema[10] : o \notin Schema[next.at] => o \in next.gone
    BY <1>1, <1>2, <1>6 DEF DowngradesRemove, Advanced
  <2>4. QED
    BY <2>1, <2>2, <2>3 DEF DowngradesRemove
<1>13. LocksVersion(catalog, next)
  BY DEF RunInv, LocksVersion, Advanced, FirstRow
<1>14. QED
  BY <1>7, <1>8, <1>11, <1>12, <1>13 DEF RunInv

-----------------------------------------------------------------------------
(* What a step does to the version *)

\* The schema of a revision from that of an earlier one.
LEMMA SchemaGrows ==
  ASSUME NEW from \in 0..10, NEW to \in 0..10, from <= to
  PROVE  Schema[to] = Schema[from] \cup (UNION {Created(i) : i \in from + 1..to})
<1>1. 1..to = (1..from) \cup (from + 1..to)
  OBVIOUS
<1>2. \A o : o \in Schema[to] <=>
        o \in Schema[from] \/ \E j \in from + 1..to : o \in Created(j)
  BY <1>1, Schemas
<1>3. QED
  BY <1>2

\* The rows that a run has passed.
LEMMA PassedRows ==
  ASSUME NEW run, IsRun(run)
  PROVE  /\ RowsBehind(run) \subseteq AllRows
         /\ \A i \in 1..10 : VersionRow(i) \in RowsBehind(run) <=>
              \/ run.origin < run.at /\ i \in run.origin..run.at - 1
              \/ ~(run.origin < run.at) /\ i \in run.at + 1..run.origin
<1>1. CASE run.origin < run.at
  <2>1. run.origin..run.at - 1 \subseteq 0..10
    BY DEF IsRun
  <2>2. RowsBehind(run) = UNION {Rows[i] : i \in run.origin..run.at - 1}
    BY <1>1 DEF RowsBehind
  <2>3. \A i \in 1..10 : VersionRow(i) \in RowsBehind(run) <=> i \in run.origin..run.at - 1
    BY <2>1, <2>2, RowsOf
  <2>4. RowsBehind(run) \subseteq AllRows
    BY <2>1, <2>2, CatalogParts
  <2>5. QED
    BY <1>1, <2>3, <2>4
<1>2. CASE ~(run.origin < run.at)
  <2>1. run.at + 1..run.origin \subseteq 0..10
    BY DEF IsRun
  <2>2. RowsBehind(run) = UNION {Rows[i] : i \in run.at + 1..run.origin}
    BY <1>2 DEF RowsBehind
  <2>3. \A i \in 1..10 : VersionRow(i) \in RowsBehind(run) <=> i \in run.at + 1..run.origin
    BY <2>1, <2>2, RowsOf
  <2>4. RowsBehind(run) \subseteq AllRows
    BY <2>1, <2>2, CatalogParts
  <2>5. QED
    BY <1>2, <2>3, <2>4
<1>3. QED
  BY <1>1, <1>2

\* What a run has executed when it is at the end of its script.
LEMMA ScriptExecuted ==
  ASSUME NEW run, IsRun(run), IsOnItsWay(run), run.at # run.target,
         run.position > Len(ScriptOf(run))
  PROVE  /\ run.position # 0
         /\ Executed(run) = {ScriptOf(run)[k].object : k \in 1..Len(ScriptOf(run))}
         /\ run.at < run.target => Executed(run) = Created(run.at + 1)
<1>1. Len(ScriptOf(run)) \in 1..7 /\ (run.at < run.target => run.at + 1 \in 1..10)
  BY ScriptRange
<1>2. run.position - 1 = Len(ScriptOf(run)) /\ run.position # 0
  BY <1>1 DEF IsOnItsWay, IsRun
<1>3. Executed(run) = {ScriptOf(run)[k].object : k \in 1..Len(ScriptOf(run))}
  BY <1>2 DEF Executed
<1>4. ASSUME run.at < run.target PROVE Executed(run) = Created(run.at + 1)
  <2>1. ScriptOf(run) = Upgrades[run.at + 1]
    BY <1>4 DEF ScriptOf
  <2>2. Created(run.at + 1) =
          {Upgrades[run.at + 1][k].object : k \in 1..Len(Upgrades[run.at + 1])}
    BY <1>1, <1>4, CreatedObjects
  <2>3. QED
    BY <1>3, <2>1, <2>2, Zenon
<1>5. QED
  BY <1>2, <1>3, <1>4

\* The same run after it has replaced the row of alembic_version.
Moved(run, next, onward) ==
    /\ next.origin = run.origin /\ next.at = onward /\ next.target = run.target
    /\ next.position = 1
    /\ next.made = (run.made \ Rows[run.at]) \cup Rows[onward]
    /\ next.gone = (run.gone \ Rows[onward]) \cup Rows[run.at]
    /\ next.held = run.held \cup Names(IF run.at = 0 THEN Rows[onward] ELSE Rows[run.at])
    /\ next.overtaken = run.overtaken

\* A run that can replace the row is the one that reads it, and holds it from then on.
LEMMA MovedLocks ==
  ASSUME NEW catalog, Matches(catalog),
         NEW run, IsRun(run), RunInv(catalog, run), run.at # run.target,
         run.position > Len(ScriptOf(run)),
         IF run.at = 0 THEN VersionRow(1) \notin Seen(catalog, run)
                       ELSE VersionRow(run.at) \in Seen(catalog, run),
         NEW next, NEW onward,
         onward = IF run.at < run.target THEN run.at + 1 ELSE run.at - 1,
         Moved(run, next, onward)
  PROVE  /\ run.origin = RevisionIn(catalog)
         /\ FirstRow(next) \in next.held
<1>1. IsOnItsWay(run) /\ UpgradesAdd(catalog, run) /\ LocksVersion(catalog, run)
  BY DEF RunInv
<1>2. FirstRow(next) = FirstRow(run) /\ run.held \subseteq next.held
  BY DEF FirstRow, Moved
<1>3. CASE run.at # run.origin
  BY <1>1, <1>2, <1>3 DEF LocksVersion
<1>4. CASE run.at = run.origin /\ run.origin = 0
  <2>1. run.at < run.target /\ run.origin < run.target /\ onward = 1
    BY <1>4 DEF IsRun
  <2>2. Executed(run) = Created(1)
    BY <1>1, <1>4, <2>1, ScriptExecuted
  <2>3. Organizations \in run.made
    BY <1>1, <2>1, <2>2, Objects_45702c6aa3be DEF UpgradesAdd
  <2>4. Organizations \notin catalog
    BY <1>1, <1>4, <2>3 DEF UpgradesAdd
  <2>5. RevisionIn(catalog) = 0
    <3>1. ASSUME RevisionIn(catalog) \in 1..10 PROVE FALSE
      <4>1. Organizations \in Schema[RevisionIn(catalog)]
        BY <3>1, Schemas, Objects_45702c6aa3be
      <4>2. QED
        BY <2>4, <4>1 DEF Matches
    <3>2. QED
      BY <3>1, RevisionRange
  <2>6. VersionRow(1) \in Rows[1] /\ VersionRow(1).name = Revisions[1]
    BY CatalogParts, VersionObjects
  <2>7. FirstRow(next) \in next.held
    BY <1>4, <2>1, <2>6 DEF FirstRow, Moved, Names
  <2>8. QED
    BY <1>4, <2>5, <2>7
<1>5. CASE run.at = run.origin /\ run.origin # 0
  <2>1. run.origin \in 1..10
    BY <1>5 DEF IsRun
  <2>2. VersionRow(run.origin) \in Seen(catalog, run)
    BY <1>5
  <2>3. VersionRow(run.origin) \in AllRows
    BY <2>1 DEF AllRows
  <2>4. VersionRow(run.origin) \notin run.made
    <3>1. RowReached(run) = {}
      BY <1>5 DEF RowReached
    <3>2. \A i \in run.origin + 1..run.at : FALSE
      BY <1>5 DEF IsRun
    <3>3. run.made \ {VersionTable} \subseteq Executed(run)
      BY <1>1, <3>1, <3>2 DEF UpgradesAdd
    <3>4. run.origin < run.target => Executed(run) = Created(run.at + 1) /\ run.at + 1 \in 1..10
      BY <1>1, <1>5, ScriptExecuted DEF IsRun
    <3>5. run.origin < run.target => Executed(run) \subseteq Schema[10]
      BY <3>4, Schemas
    <3>6. ~(run.origin < run.target) => run.made \ {VersionTable} = {}
      BY <1>1, <3>1 DEF UpgradesAdd
    <3>7. QED
      BY <2>3, <3>3, <3>5, <3>6, CatalogParts
  <2>5. VersionRow(run.origin) \in Rows[RevisionIn(catalog)]
    BY <2>2, <2>3, <2>4, CatalogParts, RevisionRange DEF Matches, Seen
  <2>6. run.origin = RevisionIn(catalog)
    BY <2>1, <2>5, CatalogParts, RevisionRange
  <2>7. /\ VersionRow(run.origin) \in Rows[run.origin]
        /\ VersionRow(run.origin).name = Revisions[run.origin]
    BY <2>1, CatalogParts, VersionObjects
  <2>8. FirstRow(next) \in next.held
    BY <1>5, <2>7 DEF FirstRow, Moved, Names
  <2>9. QED
    BY <2>6, <2>8
<1>6. QED
  BY <1>3, <1>4, <1>5

\* The rows after a move: the old one is among those left behind, the new one is made.
LEMMA MovedRows ==
  ASSUME NEW run, IsRun(run), IsOnItsWay(run), run.at # run.target,
         run.gone \cap AllRows = RowsBehind(run),
         NEW next, NEW onward,
         onward = IF run.at < run.target THEN run.at + 1 ELSE run.at - 1,
         Moved(run, next, onward)
  PROVE  /\ onward \in 0..10 /\ onward # run.origin /\ IsRun(next)
         /\ RowReached(next) = Rows[onward]
         /\ next.gone \cap AllRows = RowsBehind(next)
         /\ next.gone \ AllRows = run.gone \ AllRows
<1>1. /\ run.at < run.target => run.origin <= run.at /\ run.at + 1 \in 1..10
      /\ ~(run.at < run.target) =>
           run.target < run.at /\ run.at <= run.origin /\ run.at \in 1..10
  BY ScriptRange
<1>2. onward \in 0..10 /\ onward # run.origin
  BY <1>1 DEF IsRun
<1>3. Rows[onward] \subseteq AllRows /\ Rows[run.at] \subseteq AllRows
  BY <1>2, CatalogParts DEF IsRun
<1>4. IsRun(next)
  BY <1>2, <1>3, CatalogParts DEF IsRun, Moved
<1>5. RowReached(next) = Rows[onward]
  BY <1>2 DEF RowReached, Moved
<1>6. next.gone \ AllRows = run.gone \ AllRows
  BY <1>3 DEF Moved
<1>7. ASSUME NEW i \in 1..10
      PROVE  VersionRow(i) \in next.gone <=> VersionRow(i) \in RowsBehind(next)
  <2>1. VersionRow(i) \in run.gone <=> VersionRow(i) \in RowsBehind(run)
    BY DEF AllRows
  <2>2. VersionRow(i) \in Rows[onward] <=> i = onward
    BY <1>2, CatalogParts
  <2>3. VersionRow(i) \in Rows[run.at] <=> i = run.at
    BY CatalogParts DEF IsRun
  <2>4. VersionRow(i) \in next.gone <=>
          \/ VersionRow(i) \in RowsBehind(run) /\ i # onward
          \/ i = run.at
    BY <2>1, <2>2, <2>3 DEF Moved
  <2>5. VersionRow(i) \in RowsBehind(run) <=>
          \/ run.origin < run.at /\ i \in run.origin..run.at - 1
          \/ ~(run.origin < run.at) /\ i \in run.at + 1..run.origin
    BY PassedRows
  <2>6. VersionRow(i) \in RowsBehind(next) <=>
          \/ run.origin < onward /\ i \in run.origin..onward - 1
          \/ ~(run.origin < onward) /\ i \in onward + 1..run.origin
    BY <1>4, PassedRows DEF Moved
  <2>7. CASE run.at < run.target
    BY <1>1, <2>4, <2>5, <2>6, <2>7 DEF IsRun
  <2>8. CASE ~(run.at < run.target)
    BY <1>1, <2>4, <2>5, <2>6, <2>8 DEF IsRun
  <2>9. QED
    BY <2>7, <2>8
<1>8. next.gone \cap AllRows = RowsBehind(next)
  BY <1>4, <1>7, PassedRows DEF AllRows
<1>9. QED
  BY <1>2, <1>4, <1>5, <1>6, <1>8

\* A run that replaces the row is as the invariant says.
LEMMA VersionStep ==
  ASSUME NEW catalog, Matches(catalog),
         NEW run, IsRun(run), RunInv(catalog, run), run.at # run.target,
         run.position > Len(ScriptOf(run)),
         IF run.at = 0 THEN VersionRow(1) \notin Seen(catalog, run)
                       ELSE VersionRow(run.at) \in Seen(catalog, run),
         NEW next, NEW onward,
         onward = IF run.at < run.target THEN run.at + 1 ELSE run.at - 1,
         Moved(run, next, onward)
  PROVE  RunInv(catalog, next)
<1>1. /\ IsOnItsWay(run) /\ KeepsVersionTable(catalog, run)
      /\ UpgradesAdd(catalog, run) /\ DowngradesRemove(catalog, run)
  BY DEF RunInv
<1>2. /\ run.at < run.target => run.origin <= run.at /\ run.at + 1 \in 1..10
      /\ ~(run.at < run.target) =>
           run.target < run.at /\ run.at <= run.origin /\ run.at \in 1..10
  BY <1>1, ScriptRange
<1>3. /\ onward \in 0..10 /\ onward # run.origin /\ IsRun(next)
      /\ RowReached(next) = Rows[onward]
      /\ next.gone \cap AllRows = RowsBehind(next)
      /\ next.gone \ AllRows = run.gone \ AllRows
  BY <1>1, MovedRows DEF UpgradesAdd
<1>4. Rows[onward] \subseteq AllRows /\ Rows[run.at] \subseteq AllRows
  BY <1>3, CatalogParts DEF IsRun
<1>5. IsOnItsWay(next)
  <2>1. \A i \in 1..10 : Len(Upgrades[i]) \in 1..7 /\ Len(Downgrades[i]) \in 1..7
    BY ScriptsAreSound, Zenon DEF UpgradeIsSound, DowngradeIsSound
  <2>2. next.at # next.target => Len(ScriptOf(next)) \in 1..7
    <3>0. next.at \in 0..10 /\ next.target \in 0..10
      BY <1>3 DEF IsRun
    <3>1. CASE next.at < next.target
      <4>1. ScriptOf(next) = Upgrades[next.at + 1] /\ next.at + 1 \in 1..10
        BY <3>0, <3>1 DEF ScriptOf
      <4>2. QED
        BY <2>1, <4>1
    <3>2. CASE ~(next.at < next.target)
      <4>1. ScriptOf(next) = Downgrades[next.at]
        BY <3>2 DEF ScriptOf
      <4>2. QED
        BY <2>1, <3>0, <3>2, <4>1
    <3>3. QED
      BY <3>1, <3>2
  <2>3. next.at = next.target => next.position = 1
    BY DEF Moved
  <2>4. next.at # next.target => next.position <= Len(ScriptOf(next)) + 1
    BY <2>2 DEF Moved
  <2>5. next.position # 0 /\ next.origin # next.target
    BY <1>1 DEF IsOnItsWay, Moved
  <2>6. \/ next.origin <= next.at /\ next.at <= next.target
        \/ next.target <= next.at /\ next.at <= next.origin
    <3>1. next.origin = run.origin /\ next.at = onward /\ next.target = run.target
      BY DEF Moved
    <3>2. run.origin \in 0..10 /\ run.at \in 0..10 /\ run.target \in 0..10
      BY DEF IsRun
    <3>3. CASE run.at < run.target
      <4>1. \A a, o, t \in 0..10 : o <= a /\ a < t => o <= a + 1 /\ a + 1 <= t
        OBVIOUS
      <4>2. run.origin <= run.at + 1 /\ run.at + 1 <= run.target
        BY <1>2, <3>2, <3>3, <4>1
      <4>3. QED
        BY <3>1, <3>3, <4>2
    <3>4. CASE ~(run.at < run.target)
      <4>1. \A a, o, t \in 0..10 : t < a /\ a <= o => t <= a - 1 /\ a - 1 <= o
        OBVIOUS
      <4>2. run.target <= run.at - 1 /\ run.at - 1 <= run.origin
        BY <1>2, <3>2, <3>4, <4>1
      <4>3. QED
        BY <3>1, <3>4, <4>2
    <3>5. QED
      BY <3>3, <3>4
  <2>7. QED
    BY <2>3, <2>4, <2>5, <2>6 DEF IsOnItsWay
<1>6. KeepsVersionTable(catalog, next)
  <2>1. run.position # 0
    BY <1>1, ScriptExecuted
  <2>2. QED
    BY <1>1, <1>4, <2>1, CatalogParts DEF KeepsVersionTable, Moved
<1>7. Executed(next) = {}
  BY DEF Executed, Moved
<1>8. UpgradesAdd(catalog, next)
  <2>1. next.made \ {VersionTable} =
          ((run.made \ {VersionTable}) \ Rows[run.at]) \cup Rows[onward]
    BY <1>4, CatalogParts DEF Moved
  <2>2. RowReached(run) \subseteq Rows[run.at]
    BY DEF RowReached
  <2>3. CASE run.at < run.target
    <3>1. run.origin < run.target /\ onward = run.at + 1 /\ run.at + 1 \in 1..10
      <4>1. run.origin \in 0..10 /\ run.at \in 0..10 /\ run.target \in 0..10
        BY DEF IsRun
      <4>2. \A a, o, t \in 0..10 : o <= a /\ a < t => o < t
        OBVIOUS
      <4>3. run.origin < run.target
        BY <1>2, <2>3, <4>1, <4>2
      <4>4. QED
        BY <1>2, <2>3, <4>3
    <3>2. Executed(run) = Created(run.at + 1)
      BY <1>1, <2>3, ScriptExecuted
    <3>3. run.origin + 1..onward = (run.origin + 1..run.at) \cup {onward}
      <4>1. run.origin \in 0..10 /\ run.at \in 0..10 /\ run.origin <= run.at
        BY <1>2, <2>3 DEF IsRun
      <4>2. \A m, n \in 0..10 : m <= n => m + 1..n + 1 = (m + 1..n) \cup {n + 1}
        OBVIOUS
      <4>3. QED
        BY <3>1, <4>1, <4>2
    <3>4. (UNION {Created(i) : i \in run.origin + 1..onward}) =
            (UNION {Created(i) : i \in run.origin + 1..run.at}) \cup Executed(run)
      BY <3>1, <3>2, <3>3
    <3>5. \A i \in run.origin + 1..onward : Created(i) \cap AllRows = {}
      <4>1. \A i \in run.origin + 1..onward : i \in 1..10
        BY <3>1 DEF IsRun
      <4>2. \A i \in 1..10 : Created(i) \subseteq Schema[10]
        BY Schemas
      <4>3. QED
        BY <4>1, <4>2, CatalogParts
    <3>6. (UNION {Created(i) : i \in run.origin + 1..onward}) \cap Rows[run.at] = {}
      BY <1>4, <3>5
    <3>7. run.made \ {VersionTable} =
            RowReached(run) \cup (UNION {Created(i) : i \in run.origin + 1..onward})
      BY <1>1, <3>1, <3>4 DEF UpgradesAdd
    <3>8. next.made \ {VersionTable} =
            Rows[onward] \cup (UNION {Created(i) : i \in run.origin + 1..onward})
      BY <2>1, <2>2, <3>6, <3>7
    <3>9. next.gone \subseteq AllRows
      BY <1>1, <1>3, <3>1 DEF UpgradesAdd
    <3>10. QED
      BY <1>1, <1>3, <1>4, <1>7, <3>1, <3>8, <3>9, CatalogParts, Objects_45702c6aa3be, Schemas
      DEF UpgradesAdd, Moved
  <2>4. CASE ~(run.at < run.target)
    <3>1. ~(run.origin < run.target) /\ run.origin # 0
      <4>1. run.origin \in 0..10 /\ run.at \in 0..10 /\ run.target \in 0..10
        BY DEF IsRun
      <4>2. \A a, o, t \in 0..10 : t < a /\ a <= o => ~(o < t) /\ o # 0
        OBVIOUS
      <4>3. QED
        BY <1>2, <2>4, <4>1, <4>2
    <3>2. run.made \ {VersionTable} = RowReached(run)
      BY <1>1, <3>1 DEF UpgradesAdd
    <3>3. next.made \ {VersionTable} = Rows[onward]
      BY <2>1, <2>2, <3>2
    <3>4. \A o \in next.made \ AllRows : o \in run.made \ AllRows
      BY <1>4 DEF Moved
    <3>5. QED
      BY <1>1, <1>3, <3>1, <3>3, <3>4 DEF UpgradesAdd, Moved
  <2>5. QED
    BY <2>3, <2>4
<1>9. DowngradesRemove(catalog, next)
  <2>. SUFFICES ASSUME next.target < next.origin PROVE DowngradesRemove(catalog, next)
    BY DEF DowngradesRemove
  <2>1. /\ ~(run.at < run.target) /\ run.target < run.origin
        /\ onward = run.at - 1 /\ run.at \in 1..10
    <3>1. run.origin \in 0..10 /\ run.at \in 0..10 /\ run.target \in 0..10
      BY DEF IsRun
    <3>2. run.target < run.origin
      BY DEF Moved
    <3>3. ~(run.at < run.target)
      <4>1. \A a, o, t \in 0..10 : o <= a /\ a < t => ~(t < o)
        OBVIOUS
      <4>2. QED
        BY <1>2, <3>1, <3>2, <4>1
    <3>4. QED
      BY <1>2, <3>2, <3>3
  <2>2. ScriptOf(run) = Downgrades[run.at]
    BY <2>1 DEF ScriptOf
  <2>3. Executed(run) = {Downgrades[run.at][k].object : k \in 1..Len(Downgrades[run.at])}
    <3>1. Executed(run) = {ScriptOf(run)[k].object : k \in 1..Len(ScriptOf(run))}
      BY <1>1, ScriptExecuted
    <3>2. QED
      BY <2>2, <3>1, Zenon
  <2>4. ASSUME NEW o \in next.gone \cap Schema[next.at] PROVE FALSE
    <3>1. o \in Schema[run.at - 1]
      BY <2>1 DEF Moved
    <3>2. o \in Schema[10] /\ Born(o.name) <= run.at - 1
      BY <2>1, <3>1, SchemaObjects
    <3>3. o \in Objects /\ o \notin AllRows /\ o \in Schema[run.at]
      BY <2>1, <3>1, <3>2, CatalogParts, Schemas
    <3>4. o \in run.gone
      BY <1>3, <3>3
    <3>5. PICK dropped \in Executed(run) : Touches(dropped, o)
      BY <1>1, <2>1, <3>3, <3>4 DEF DowngradesRemove
    <3>6. PICK k \in 1..Len(Downgrades[run.at]) : dropped = Downgrades[run.at][k].object
      BY <2>3, <3>5
    <3>7. Born(o.name) \in run.at..10
      BY <2>1, <3>3, <3>5, <3>6, DowngradesTouch
    <3>8. QED
      BY <2>1, <3>2, <3>7
  <2>5. ASSUME NEW o \in catalog \cap Schema[10], o \notin Schema[next.at]
        PROVE  o \in next.gone
    <3>1. o \notin Rows[onward]
      BY <1>4, CatalogParts
    <3>2. CASE o \in Schema[run.at]
      <4>1. o \in Created(run.at)
        BY <2>1, <2>5, <3>2, Schemas DEF Moved
      <4>2. PICK k \in 1..Len(Downgrades[run.at]) : Touches(Downgrades[run.at][k].object, o)
        BY <2>1, <4>1, ScriptsAreSound, Zenon DEF DowngradeIsSound
      <4>3. Downgrades[run.at][k].object \in Executed(run)
        BY <2>3
      <4>4. o \in run.gone
        BY <1>1, <2>1, <4>2, <4>3 DEF DowngradesRemove
      <4>5. QED
        BY <3>1, <4>4 DEF Moved
    <3>3. CASE o \notin Schema[run.at]
      <4>1. run.origin = RevisionIn(catalog)
        BY MovedLocks
      <4>2. o \in Schema[run.origin]
        BY <4>1, CatalogParts, RevisionRange DEF Matches
      <4>3. run.at # run.origin
        BY <3>3, <4>2
      <4>4. o \in run.gone
        BY <1>1, <2>1, <3>3, <4>3 DEF DowngradesRemove
      <4>5. QED
        BY <3>1, <4>4 DEF Moved
    <3>4. QED
      BY <3>2, <3>3
  <2>6. QED
    BY <1>7, <2>4, <2>5 DEF DowngradesRemove
<1>10. LocksVersion(catalog, next)
  <2>1. run.origin = RevisionIn(catalog) /\ FirstRow(next) \in next.held
    BY MovedLocks
  <2>2. QED
    BY <2>1 DEF LocksVersion, Moved
<1>11. QED
  BY <1>5, <1>6, <1>8, <1>9, <1>10 DEF RunInv

-----------------------------------------------------------------------------
(* What a run that has not been overtaken finds *)

\* An upgrade sees the schema that it has reached and what it has executed since.
LEMMA UpgradeSees ==
  ASSUME NEW catalog, Matches(catalog),
         NEW run, IsRun(run), RunInv(catalog, run), run.origin = RevisionIn(catalog),
         run.at < run.target
  PROVE  /\ Seen(catalog, run) \subseteq
              Schema[run.at] \cup Executed(run) \cup AllRows \cup {VersionTable}
         /\ Schema[run.at] \cup Executed(run) \subseteq Seen(catalog, run)
<1>1. IsOnItsWay(run) /\ UpgradesAdd(catalog, run)
  BY DEF RunInv
<1>2. run.origin <= run.at /\ run.origin < run.target
  BY <1>1, ScriptRange DEF IsRun
<1>3. run.gone \subseteq AllRows
  BY <1>1, <1>2 DEF UpgradesAdd
<1>4. catalog \ {VersionTable} = Schema[run.origin] \cup Rows[run.origin]
  BY DEF Matches
<1>5. Schema[run.at] =
        Schema[run.origin] \cup (UNION {Created(i) : i \in run.origin + 1..run.at})
  BY <1>2, SchemaGrows DEF IsRun
<1>6. run.made \ {VersionTable} =
        RowReached(run) \cup (UNION {Created(i) : i \in run.origin + 1..run.at})
        \cup Executed(run)
  BY <1>1, <1>2 DEF UpgradesAdd
<1>7. RowReached(run) \subseteq AllRows /\ Rows[run.origin] \subseteq AllRows
  BY CatalogParts DEF RowReached, IsRun
<1>8. Schema[run.origin] \cap AllRows = {} /\ VersionTable \notin Schema[run.origin]
  BY CatalogParts DEF IsRun
<1>9. Schema[run.origin] \subseteq catalog \ run.gone
  BY <1>3, <1>4, <1>8
<1>10. QED
  BY <1>4, <1>5, <1>6, <1>7, <1>9 DEF Seen

\* A downgrade sees what is left of the schema that it has reached.
LEMMA DowngradeSees ==
  ASSUME NEW catalog, Matches(catalog),
         NEW run, IsRun(run), RunInv(catalog, run), run.origin = RevisionIn(catalog),
         run.at # run.target, ~(run.at < run.target)
  PROVE  /\ Seen(catalog, run) \subseteq Objects
         /\ \A o \in Schema[10] : o \in Seen(catalog, run) <=>
              o \in Schema[run.at] /\ \A dropped \in Executed(run) : ~Touches(dropped, o)
<1>1. IsOnItsWay(run) /\ UpgradesAdd(catalog, run) /\ DowngradesRemove(catalog, run)
  BY DEF RunInv
<1>2. run.at <= run.origin /\ run.target < run.origin /\ ~(run.origin < run.target)
  BY <1>1, ScriptRange DEF IsRun
<1>3. Seen(catalog, run) \subseteq Objects
  BY DEF Matches, IsRun, Seen
<1>4. run.made \cap Schema[10] = {}
  <2>1. run.made \ {VersionTable} \subseteq AllRows
    BY <1>1, <1>2, CatalogParts DEF UpgradesAdd, RowReached, IsRun
  <2>2. QED
    BY <2>1, CatalogParts
<1>5. ASSUME NEW o \in Schema[10]
      PROVE  o \in catalog <=> o \in Schema[run.origin]
  <2>1. o # VersionTable /\ o \notin Rows[run.origin]
    BY CatalogParts DEF IsRun
  <2>2. catalog \ {VersionTable} = Schema[run.origin] \cup Rows[run.origin]
    BY DEF Matches
  <2>3. QED
    BY <2>1, <2>2
<1>6. ASSUME NEW o \in Schema[10], o \in Seen(catalog, run)
      PROVE  o \in Schema[run.at] /\ \A dropped \in Executed(run) : ~Touches(dropped, o)
  <2>1. o \in catalog /\ o \notin run.gone
    BY <1>4, <1>6 DEF Seen
  <2>2. o \in Schema[run.at]
    BY <1>1, <1>2, <1>5, <2>1 DEF DowngradesRemove
  <2>3. QED
    BY <1>1, <1>2, <2>1, <2>2 DEF DowngradesRemove
<1>7. ASSUME NEW o \in Schema[run.at],
             \A dropped \in Executed(run) : ~Touches(dropped, o)
      PROVE  o \in Seen(catalog, run)
  <2>1. o \in Schema[10] /\ o \in Schema[run.origin]
    BY <1>2, SchemaObjects DEF IsRun
  <2>2. o \in catalog
    BY <1>5, <2>1
  <2>3. o \notin run.gone
    BY <1>1, <1>2, <1>7 DEF DowngradesRemove
  <2>4. QED
    BY <2>2, <2>3 DEF Seen
<1>8. QED
  BY <1>3, <1>6, <1>7

\* Nothing that an upgrade creates is there, and all that it is on and uses is.
LEMMA UpgradeFinds ==
  ASSUME NEW catalog, Matches(catalog),
         NEW run, IsRun(run), RunInv(catalog, run), run.origin = RevisionIn(catalog),
         run.at < run.target, run.position \in 1..Len(ScriptOf(run)),
         NEW object, object = ScriptOf(run)[run.position].object
  PROVE  /\ object.name \notin Names(Seen(catalog, run))
         /\ object.on \cup object.uses \subseteq Names(Seen(catalog, run))
<1>. DEFINE i == run.at + 1
<1>1. i \in 1..10 /\ run.at # run.target /\ ScriptOf(run) = Upgrades[i]
  <2>1. run.at # run.target
    BY DEF IsRun
  <2>2. QED
    BY <2>1, ScriptRange DEF RunInv, ScriptOf
<1>2. /\ Seen(catalog, run) \subseteq
           Schema[run.at] \cup Executed(run) \cup AllRows \cup {VersionTable}
      /\ Schema[run.at] \cup Executed(run) \subseteq Seen(catalog, run)
  BY UpgradeSees
<1>3. Executed(run) = {Upgrades[i][k].object : k \in 1..run.position - 1}
  <2>1. Executed(run) = {ScriptOf(run)[k].object : k \in 1..run.position - 1}
    BY <1>1 DEF Executed
  <2>2. QED
    BY <1>1, <2>1, Zenon
<1>4. /\ \A k \in 1..Len(Upgrades[i]) :
          /\ Born(Upgrades[i][k].object.name) = i
          /\ \A j \in 1..k - 1 : Upgrades[i][j].object.name # Upgrades[i][k].object.name
      /\ \A k \in 1..Len(Upgrades[i]) :
          \A name \in Upgrades[i][k].object.on \cup Upgrades[i][k].object.uses :
            \/ Born(name) \in 1..i - 1
            \/ \E j \in 1..k - 1 : Upgrades[i][j].object.name = name
  <2>1. UpgradeIsSound(i)
    BY <1>1, ScriptsAreSound
  <2>2. QED
    BY <2>1, Zenon DEF UpgradeIsSound
<1>. HIDE DEF i
<1>5. i - 1 = run.at /\ run.at \in 0..10 /\ run.position \in 1..Len(Upgrades[i])
  BY <1>1 DEF i, IsRun
<1>6. ASSUME NEW o \in Seen(catalog, run) PROVE o.name # object.name
  <2>1. Born(object.name) = i /\ i <= 10
    BY <1>1, <1>4, <1>5
  <2>2. CASE o \in Schema[run.at]
    <3>1. Born(o.name) <= run.at
      BY <1>5, <2>2, SchemaObjects
    <3>2. i = run.at + 1
      BY DEF i
    <3>3. QED
      BY <1>1, <1>5, <2>1, <3>1, <3>2
  <2>3. CASE o \in Executed(run)
    <3>1. PICK j \in 1..run.position - 1 : o = Upgrades[i][j].object
      BY <1>3, <2>3
    <3>2. QED
      BY <1>1, <1>4, <1>5, <3>1
  <2>4. CASE o = VersionTable
    BY <1>1, <2>1, <2>4, VersionObjects
  <2>5. CASE o \in AllRows
    BY <1>1, <2>1, <2>5, VersionObjects DEF AllRows
  <2>6. QED
    BY <1>2, <2>2, <2>3, <2>4, <2>5
<1>7. ASSUME NEW name \in object.on \cup object.uses PROVE name \in Names(Seen(catalog, run))
  <2>1. \/ Born(name) \in 1..i - 1
        \/ \E j \in 1..run.position - 1 : Upgrades[i][j].object.name = name
    BY <1>1, <1>4, <1>5
  <2>2. CASE Born(name) \in 1..i - 1
    <3>1. PICK o \in Schema[run.at] : o.name = name
      BY <1>5, <2>2, SchemaNames
    <3>2. QED
      BY <1>2, <3>1 DEF Names
  <2>3. CASE \E j \in 1..run.position - 1 : Upgrades[i][j].object.name = name
    <3>1. \E o \in Executed(run) : o.name = name
      BY <1>3, <2>3
    <3>2. QED
      BY <1>2, <3>1 DEF Names
  <2>4. QED
    BY <2>1, <2>2, <2>3
<1>8. QED
  BY <1>6, <1>7 DEF Names

\* What a downgrade drops by name is there, and nothing that stays needs what goes.
LEMMA DowngradeFinds ==
  ASSUME NEW catalog, Matches(catalog),
         NEW run, IsRun(run), RunInv(catalog, run), run.origin = RevisionIn(catalog),
         run.at # run.target, ~(run.at < run.target),
         run.position \in 1..Len(ScriptOf(run)),
         NEW statement, statement = ScriptOf(run)[run.position],
         NEW taken, taken = {o \in Seen(catalog, run) : Touches(statement.object, o)}
  PROVE  /\ statement.do \in {"drop", "drop_if_exists", "unset"}
         /\ statement.do = "drop" => statement.object \in Seen(catalog, run)
         /\ statement.do = "unset" => statement.object.on \subseteq Names(Seen(catalog, run))
         /\ \A o \in Seen(catalog, run) \ taken : o.uses \cap Names(taken) = {}
<1>0. /\ Seen(catalog, run) \subseteq Objects
      /\ \A o \in Schema[10] : o \in Seen(catalog, run) <=>
            o \in Schema[run.at] /\ \A dropped \in Executed(run) : ~Touches(dropped, o)
  BY DowngradeSees
<1>. DEFINE i == run.at
            script == Downgrades[i]
            n == run.position
<1>1. i \in 1..10 /\ ScriptOf(run) = script
  BY ScriptRange DEF RunInv, ScriptOf
<1>2. n \in 1..Len(script) /\ statement = script[n] /\ \A k \in 1..n : k \in 1..Len(script)
  <2>1. Len(script) \in 1..7
    BY <1>1, ScriptRange DEF RunInv
  <2>2. QED
    BY <1>1, <2>1
<1>3. Executed(run) = {script[k].object : k \in 1..n - 1}
  <2>1. Executed(run) = {ScriptOf(run)[k].object : k \in 1..run.position - 1}
    BY DEF Executed
  <2>2. QED
    BY <1>1, <2>1, Zenon
<1>4. /\ \A k \in 1..Len(script) :
          /\ script[k].do \in {"drop", "drop_if_exists", "unset"}
          /\ script[k].object \in Created(i)
      /\ \A k \in 1..Len(script) : script[k].do = "drop" =>
          \A j \in 1..k - 1 : ~Touches(script[j].object, script[k].object)
      /\ \A k \in 1..Len(script) : script[k].do = "unset" =>
          \A name \in script[k].object.on :
             \/ Born(name) \in 1..i - 1
             \/ \E o \in Created(i) :
                  /\ o.name = name
                  /\ \A j \in 1..k - 1 : ~Touches(script[j].object, o)
      /\ \A o, used \in Created(i) : used.name \in o.uses =>
          \A k \in 1..Len(script) : Touches(script[k].object, used) =>
              \E j \in 1..k : Touches(script[j].object, o)
  <2>1. DowngradeIsSound(i)
    BY <1>1, ScriptsAreSound
  <2>2. QED
    BY <2>1, Zenon DEF DowngradeIsSound
<1>5. /\ Seen(catalog, run) \subseteq Objects
      /\ \A o \in Schema[10] : o \in Seen(catalog, run) <=>
            o \in Schema[i] /\ \A dropped \in Executed(run) : ~Touches(dropped, o)
  BY <1>0
<1>6. ASSUME NEW k \in 1..Len(script), NEW o \in Objects, Touches(script[k].object, o)
      PROVE  o \in Schema[10] /\ Born(o.name) \in i..10
  BY <1>1, <1>6, DowngradesTouch
<1>. HIDE DEF i, script, n
<1>7. /\ Created(i) \subseteq Schema[i] /\ Schema[i - 1] \subseteq Schema[i]
      /\ Schema[i] \subseteq Schema[10]
  BY <1>1, Schemas, CatalogParts
<1>8. statement.do = "drop" => statement.object \in Seen(catalog, run)
  BY <1>2, <1>3, <1>4, <1>5, <1>7
<1>9. ASSUME statement.do = "unset", NEW name \in statement.object.on
      PROVE  name \in Names(Seen(catalog, run))
  <2>1. CASE Born(name) \in 1..i - 1
    <3>0. i - 1 \in 0..10
      BY <1>1
    <3>1. PICK o \in Schema[i - 1] : o.name = name
      BY <2>1, <3>0, SchemaNames
    <3>2. Born(o.name) < i /\ o \in Objects
      BY <1>1, <1>7, <2>1, <3>1, CatalogParts
    <3>3. \A k \in 1..n - 1 : ~Touches(script[k].object, o)
      BY <1>1, <1>2, <1>6, <3>2, <2>1, <3>1
    <3>4. o \in Seen(catalog, run)
      BY <1>3, <1>5, <1>7, <3>1, <3>3
    <3>5. QED
      BY <3>1, <3>4 DEF Names
  <2>2. CASE \E o \in Created(i) :
               o.name = name /\ \A j \in 1..n - 1 : ~Touches(script[j].object, o)
    <3>1. PICK o \in Created(i) :
            o.name = name /\ \A j \in 1..n - 1 : ~Touches(script[j].object, o)
      BY <2>2
    <3>2. o \in Seen(catalog, run)
      BY <1>3, <1>5, <1>7, <3>1
    <3>3. QED
      BY <3>1, <3>2 DEF Names
  <2>3. QED
    BY <1>2, <1>4, <1>9, <2>1, <2>2
<1>10. ASSUME NEW o \in Seen(catalog, run) \ taken, NEW used \in taken, used.name \in o.uses
       PROVE  FALSE
  <2>1. used \in Seen(catalog, run) /\ Touches(script[n].object, used) /\ used \in Objects
    BY <1>2, <1>5
  <2>2. used \in Schema[10] /\ Born(used.name) \in i..10
    BY <1>2, <1>6, <2>1
  <2>3. used \in Schema[i]
    BY <1>5, <2>1, <2>2
  <2>4. Born(used.name) = i /\ used \in Created(i)
    <3>1. Born(used.name) <= i
      BY <1>1, <2>3, SchemaObjects
    <3>2. Born(used.name) = i
      BY <1>1, <2>2, <3>1
    <3>3. QED
      BY <2>2, <3>2, SchemaObjects
  <2>5. o \in Schema[10]
    <3>1. o # VersionTable /\ o \notin AllRows
      BY <1>10, VersionObjects DEF AllRows
    <3>2. QED
      BY <1>5, <1>10, <3>1, CatalogParts
  <2>6. o \in Schema[i]
    BY <1>5, <1>10, <2>5
  <2>7. Born(o.name) = i /\ o \in Created(i)
    <3>1. Born(o.name) <= i
      BY <1>1, <2>6, SchemaObjects
    <3>2. i \in 1..Born(o.name)
      BY <1>10, <2>4, <2>5, SchemaObjects
    <3>3. Born(o.name) = i
      BY <1>1, <3>1, <3>2, BornRange
    <3>4. QED
      BY <2>5, <3>3, SchemaObjects
  <2>8. PICK j \in 1..n : Touches(script[j].object, o)
    BY <1>2, <1>4, <1>10, <2>1, <2>4, <2>7
  <2>9. CASE j = n
    BY <1>2, <1>10, <2>8, <2>9
  <2>10. CASE j # n
    <3>1. j \in 1..n - 1
      BY <1>2, <2>10 DEF n, IsRun
    <3>2. script[j].object \in Executed(run)
      BY <1>3, <3>1
    <3>3. QED
      BY <1>5, <1>10, <2>5, <2>8, <3>2
  <2>11. QED
    BY <2>9, <2>10
<1>11. QED
  BY <1>2, <1>4, <1>8, <1>9, <1>10 DEF Names

\* The row that a run wants to replace is there, and the one to insert is not.
LEMMA VersionFinds ==
  ASSUME NEW catalog, Matches(catalog),
         NEW run, IsRun(run), RunInv(catalog, run), run.origin = RevisionIn(catalog),
         run.at # run.target, run.position > Len(ScriptOf(run))
  PROVE  IF run.at = 0 THEN VersionRow(1) \notin Seen(catalog, run)
                       ELSE VersionRow(run.at) \in Seen(catalog, run)
<1>1. IsOnItsWay(run) /\ UpgradesAdd(catalog, run)
  BY DEF RunInv
<1>2. catalog \ {VersionTable} = Schema[run.origin] \cup Rows[run.origin]
  BY DEF Matches
<1>3. CASE run.at = 0
  <2>1. run.at < run.target /\ run.origin = 0
    BY <1>1, <1>3, ScriptRange DEF IsRun
  <2>2. VersionRow(1) \in AllRows /\ VersionRow(1) # VersionTable
    BY CatalogParts DEF AllRows
  <2>3. VersionRow(1) \notin catalog
    BY <1>2, <2>1, <2>2, CatalogParts, Schemas
  <2>4. run.made \ {VersionTable} = Executed(run)
    BY <1>1, <1>3, <2>1 DEF UpgradesAdd, RowReached, IsRun
  <2>5. Executed(run) \subseteq Schema[10]
    BY <1>1, <1>3, <2>1, ScriptExecuted, Schemas
  <2>6. QED
    BY <1>3, <2>2, <2>3, <2>4, <2>5, CatalogParts DEF Seen
<1>4. CASE run.at # 0 /\ run.at = run.origin
  <2>1. VersionRow(run.at) \in Rows[run.at]
    BY <1>4, CatalogParts DEF IsRun
  <2>2. VersionRow(run.at) \in catalog
    BY <1>2, <1>4, <2>1
  <2>3. VersionRow(run.at) \notin RowsBehind(run)
    BY <1>4, PassedRows DEF IsRun
  <2>4. VersionRow(run.at) \notin run.gone
    BY <1>1, <1>4, <2>3 DEF UpgradesAdd, AllRows, IsRun
  <2>5. QED
    BY <1>4, <2>2, <2>4 DEF Seen
<1>5. CASE run.at # 0 /\ run.at # run.origin
  <2>1. VersionRow(run.at) \in Rows[run.at]
    BY <1>5, CatalogParts DEF IsRun
  <2>2. VersionRow(run.at) \in run.made
    BY <1>1, <1>5, <2>1 DEF UpgradesAdd, RowReached
  <2>3. QED
    BY <1>5, <2>2 DEF Seen
<1>6. QED
  BY <1>3, <1>4, <1>5

-----------------------------------------------------------------------------
(* What a commit does to the catalog, and to the other runs *)

\* A run at its target has replaced the schema that it started from, and the row with it.
LEMMA CommitMatches ==
  ASSUME NEW catalog, Matches(catalog),
         NEW run, IsRun(run), RunInv(catalog, run), run.at = run.target
  PROVE  Matches(Seen(catalog, run))
<1>1. /\ IsOnItsWay(run) /\ KeepsVersionTable(catalog, run) /\ UpgradesAdd(catalog, run)
      /\ DowngradesRemove(catalog, run) /\ LocksVersion(catalog, run)
  BY DEF RunInv
<1>2. run.at # run.origin /\ run.origin = RevisionIn(catalog) /\ run.position = 1
  BY <1>1 DEF IsOnItsWay, LocksVersion
<1>3. /\ catalog \ {VersionTable} = Schema[run.origin] \cup Rows[run.origin]
      /\ catalog \subseteq Objects
  BY <1>2 DEF Matches
<1>4. Executed(run) = {} /\ RowReached(run) = Rows[run.at]
  BY <1>2 DEF Executed, RowReached
<1>5. /\ Rows[run.at] \subseteq AllRows /\ Rows[run.origin] \subseteq AllRows
      /\ Schema[run.at] \subseteq Schema[10] /\ Schema[run.origin] \subseteq Schema[10]
  BY CatalogParts DEF IsRun
<1>6. Rows[run.origin] \subseteq run.gone
  <2>1. CASE run.origin = 0
    BY <2>1, CatalogParts
  <2>2. CASE run.origin # 0
    <3>1. run.origin \in 1..10 /\ Rows[run.origin] = {VersionRow(run.origin)}
      BY <2>2, CatalogParts DEF IsRun
    <3>2. VersionRow(run.origin) \in RowsBehind(run)
      BY <1>2, <3>1, PassedRows DEF IsRun
    <3>3. QED
      BY <1>1, <3>1, <3>2 DEF UpgradesAdd
  <2>3. QED
    BY <2>1, <2>2
<1>7. VersionTable \in Seen(catalog, run)
  BY <1>1, <1>2 DEF KeepsVersionTable, Seen
<1>8. Seen(catalog, run) \subseteq Objects
  BY <1>3 DEF Seen, IsRun
<1>9. Seen(catalog, run) \ {VersionTable} = Schema[run.at] \cup Rows[run.at]
  <2>1. CASE run.origin < run.target
    <3>1. Schema[run.at] =
            Schema[run.origin] \cup (UNION {Created(i) : i \in run.origin + 1..run.at})
      BY <2>1, SchemaGrows DEF IsRun
    <3>2. run.made \ {VersionTable} =
            Rows[run.at] \cup (UNION {Created(i) : i \in run.origin + 1..run.at})
      BY <1>1, <1>4, <2>1 DEF UpgradesAdd
    <3>3. run.gone \subseteq AllRows
      BY <1>1, <2>1 DEF UpgradesAdd
    <3>4. (catalog \ run.gone) \ {VersionTable} = Schema[run.origin]
      BY <1>3, <1>5, <1>6, <3>3, CatalogParts
    <3>5. QED
      BY <3>1, <3>2, <3>4 DEF Seen
  <2>2. CASE ~(run.origin < run.target)
    <3>1. run.target < run.origin /\ run.at \in 0..run.origin
      BY <1>1, <1>2, <2>2 DEF IsRun, IsOnItsWay
    <3>2. run.made \ {VersionTable} = Rows[run.at]
      BY <1>1, <1>4, <2>2 DEF UpgradesAdd
    <3>3. ASSUME NEW o \in Schema[10] PROVE o \in catalog \ run.gone <=> o \in Schema[run.at]
      <4>1. o \notin Rows[run.origin] /\ o # VersionTable
        BY <1>5, CatalogParts
      <4>2. o \in Schema[run.at] => o \in Schema[run.origin]
        BY <3>1, SchemaObjects DEF IsRun
      <4>3. o \in Schema[run.at] => o \in catalog
        BY <1>3, <4>2
      <4>4. o \in Schema[run.at] => o \notin run.gone
        BY <1>1, <1>4, <3>1 DEF DowngradesRemove
      <4>5. o \in catalog /\ o \notin Schema[run.at] => o \in run.gone
        BY <1>1, <1>2, <3>1 DEF DowngradesRemove
      <4>6. QED
        BY <4>3, <4>4, <4>5
    <3>4. (catalog \ run.gone) \ {VersionTable} \subseteq Schema[10]
      BY <1>3, <1>5, <1>6
    <3>5. (catalog \ run.gone) \ {VersionTable} = Schema[run.at]
      BY <1>5, <3>3, <3>4, CatalogParts
    <3>6. QED
      BY <3>2, <3>5 DEF Seen
  <2>3. QED
    BY <2>1, <2>2
<1>10. RevisionIn(Seen(catalog, run)) = run.at
  BY <1>9, ReadsAs DEF IsRun
<1>11. QED
  BY <1>7, <1>8, <1>9, <1>10 DEF Matches

\* The same run after another one has committed.
Overtaken(run, next) ==
    /\ next.origin = run.origin /\ next.at = run.at /\ next.target = run.target
    /\ next.position = run.position
    /\ next.made = run.made /\ next.gone = run.gone /\ next.held = run.held
    /\ next.overtaken = TRUE

\* The locks keep what a run has done apart from what another one commits.
LEMMA OthersKeep ==
  ASSUME NEW catalog, Matches(catalog),
         NEW run, IsRun(run), RunInv(catalog, run), run.at = run.target,
         NEW other, IsRun(other), RunInv(catalog, other), other.held \cap run.held = {},
         NEW next, Overtaken(other, next)
  PROVE  RunInv(Seen(catalog, run), next)
<1>1. /\ IsOnItsWay(run) /\ KeepsVersionTable(catalog, run) /\ UpgradesAdd(catalog, run)
      /\ LocksVersion(catalog, run)
  BY DEF RunInv
<1>2. /\ IsOnItsWay(other) /\ KeepsVersionTable(catalog, other) /\ UpgradesAdd(catalog, other)
      /\ DowngradesRemove(catalog, other) /\ LocksVersion(catalog, other)
  BY DEF RunInv
<1>3. run.at # run.origin /\ run.origin = RevisionIn(catalog) /\ FirstRow(run) \in run.held
  BY <1>1 DEF IsOnItsWay, LocksVersion
<1>4. other.at = other.origin
  <2>1. ASSUME other.at # other.origin PROVE FALSE
    <3>1. other.origin = RevisionIn(catalog) /\ FirstRow(other) \in other.held
      BY <1>2, <2>1 DEF LocksVersion
    <3>2. FirstRow(other) = FirstRow(run)
      BY <1>3, <3>1 DEF FirstRow
    <3>3. QED
      BY <1>3, <3>1, <3>2
  <2>2. QED
    BY <2>1
<1>5. ScriptOf(next) = ScriptOf(other)
  BY DEF ScriptOf, Overtaken
<1>6. Executed(next) = Executed(other)
  BY <1>5 DEF Executed, Overtaken
<1>7. RowReached(next) = RowReached(other) /\ RowsBehind(next) = RowsBehind(other)
  BY DEF RowReached, RowsBehind, Overtaken
<1>8. IsOnItsWay(next)
  BY <1>2, <1>5 DEF IsOnItsWay, Overtaken
<1>9. KeepsVersionTable(Seen(catalog, run), next)
  BY <1>1, <1>2 DEF KeepsVersionTable, Overtaken, Seen
<1>10. UpgradesAdd(Seen(catalog, run), next)
  <2>1. ASSUME next.origin = 0, Organizations \in next.made
        PROVE  Organizations \notin Seen(catalog, run)
    <3>1. Organizations \in other.made /\ Organizations \notin catalog
      BY <1>2, <2>1 DEF UpgradesAdd, Overtaken
    <3>2. Organizations \notin AllRows
      BY Objects_45702c6aa3be, Schemas, CatalogParts
    <3>3. Organizations.name \in other.held
      BY <1>2, <3>1, <3>2 DEF UpgradesAdd
    <3>4. Organizations \in run.made => Organizations.name \in run.held
      BY <1>1, <3>2 DEF UpgradesAdd
    <3>5. QED
      BY <3>1, <3>3, <3>4 DEF Seen
  <2>2. QED
    BY <1>2, <1>6, <1>7, <2>1 DEF UpgradesAdd, Overtaken
<1>11. DowngradesRemove(Seen(catalog, run), next)
  <2>. SUFFICES ASSUME other.target < other.origin
                PROVE  DowngradesRemove(Seen(catalog, run), next)
    BY DEF DowngradesRemove, Overtaken
  <2>1. ASSUME NEW dropped \in Executed(other), NEW o \in Seen(catalog, run), Touches(dropped, o)
        PROVE  o \in other.gone
    <3>1. dropped.name \in other.held
      BY <1>2 DEF DowngradesRemove
    <3>2. CASE o \in catalog
      BY <1>2, <2>1, <3>2 DEF DowngradesRemove
    <3>3. CASE o \in run.made \ AllRows
      BY <1>1, <2>1, <3>1, <3>3 DEF UpgradesAdd, Touches
    <3>4. CASE o \in AllRows
      <4>1. other.at # other.target /\ other.at \in 1..10 /\ ~(other.at < other.target)
        BY <1>2, <1>4, ScriptRange DEF IsRun
      <4>2. ScriptOf(other) = Downgrades[other.at] /\ Len(ScriptOf(other)) \in 1..7
        BY <1>2, <4>1, ScriptRange DEF ScriptOf
      <4>3. other.position - 1 <= Len(ScriptOf(other))
        <5>1. other.position <= Len(ScriptOf(other)) + 1
          BY <1>2, <4>1 DEF IsOnItsWay
        <5>2. other.position \in 0..8
          BY DEF IsRun
        <5>3. QED
          BY <4>2, <5>1, <5>2
      <4>4. PICK k \in 1..other.position - 1 : dropped = ScriptOf(other)[k].object
        BY <4>1 DEF Executed
      <4>5. k \in 1..Len(Downgrades[other.at]) /\ dropped = Downgrades[other.at][k].object
        BY <4>2, <4>3, <4>4 DEF IsRun
      <4>6. o \in Objects
        BY <3>4, CatalogParts
      <4>7. o \in Schema[10]
        BY <2>1, <4>1, <4>5, <4>6, DowngradesTouch
      <4>8. QED
        BY <3>4, <4>7, CatalogParts
    <3>5. QED
      BY <3>2, <3>3, <3>4 DEF Seen
  <2>2. QED
    BY <1>2, <1>4, <1>6, <2>1 DEF DowngradesRemove, Overtaken
<1>12. LocksVersion(Seen(catalog, run), next)
  BY <1>4 DEF LocksVersion, Overtaken
<1>13. QED
  BY <1>8, <1>9, <1>10, <1>11, <1>12 DEF RunInv

-----------------------------------------------------------------------------
(* The invariant, step by step *)

\* What the lemmas above ask of a catalog and of a run.
LEMMA InvariantFacts ==
  ASSUME MigrationsInv
  PROVE  /\ Matches(committed)
         /\ \A r \in Runs : IsRun(Run(r))
         /\ \A r \in Runs : pc[r] = "running" => RunInv(committed, Run(r))
<1>1. Matches(committed)
  BY DEF MigrationsInv, Matches, TypeOK, SchemaMatchesVersion, Current
<1>2. \A r \in Runs : IsRun(Run(r))
  BY DEF MigrationsInv, TypeOK, IsRun, Run
<1>3. QED
  BY <1>1, <1>2 DEF MigrationsInv

\* A step of one run that commits nothing needs a look at that run alone.
LEMMA OneRunMoves ==
  ASSUME MigrationsInv, NEW r \in Runs, committed' = committed, TypeOK',
         \A q \in Runs \ {r} : pc'[q] = pc[q] /\ Run(q)' = Run(q),
         pc'[r] = "failed" => overtaken'[r],
         pc'[r] # "running" => made'[r] = {} /\ gone'[r] = {} /\ held'[r] = {},
         pc'[r] = "running" => RunInv(committed, Run(r)')
  PROVE  MigrationsInv'
<1>1. \A q \in Runs \ {r} : /\ made'[q] = made[q] /\ gone'[q] = gone[q] /\ held'[q] = held[q]
                            /\ overtaken'[q] = overtaken[q]
  BY DEF Run
<1>2. Current' = Current
  BY DEF Current
<1>3. SchemaMatchesVersion'
  BY <1>2 DEF MigrationsInv, SchemaMatchesVersion
<1>4. FailsOnlyWhenOvertaken'
  BY <1>1 DEF MigrationsInv, FailsOnlyWhenOvertaken
<1>5. IdleHoldsNothing'
  BY <1>1 DEF MigrationsInv, IdleHoldsNothing
<1>6. Current' # 0 => VersionTable \in committed'
  BY <1>2 DEF MigrationsInv
<1>7. \A q \in Runs : pc'[q] = "running" => RunInv(committed', Run(q)')
  BY DEF MigrationsInv
<1>8. QED
  BY <1>3, <1>4, <1>5, <1>6, <1>7 DEF MigrationsInv

\* The names that a statement locks are names of the catalog.
LEMMA LockNames == \A o \in Objects : Locks(o) \subseteq ObjectNames
<1>. SUFFICES ASSUME NEW o \in Objects, NEW name \in Locks(o) PROVE name \in ObjectNames
  OBVIOUS
<1>1. name = o.name \/ name \in o.on \cup o.uses
  BY DEF Locks
<1>2. CASE name = o.name
  BY <1>2 DEF ObjectNames, Names
<1>3. CASE name \in o.on \cup o.uses /\ o \in Schema[10]
  <2>1. Born(name) \in 1..10
    BY <1>3, SchemaObjects
  <2>2. PICK p \in Schema[10] : p.name = name
    BY <2>1, SchemaNames
  <2>3. QED
    BY <2>2, CatalogParts DEF ObjectNames, Names
<1>4. CASE name \in o.on \cup o.uses /\ o \notin Schema[10]
  <2>1. name = "alembic_version"
    BY <1>4, CatalogParts, VersionObjects DEF AllRows
  <2>2. VersionTable \in Objects /\ VersionTable.name = name
    BY <2>1, CatalogParts, VersionObjects
  <2>3. QED
    BY <2>2 DEF ObjectNames, Names
<1>5. QED
  BY <1>1, <1>2, <1>3, <1>4

\* COMMIT aside, the end of a transaction leaves the others where they are.
LEMMA TransactionEnds ==
  ASSUME MigrationsInv, NEW r \in Runs, NEW step \in {"idle", "failed"},
         EndTransaction(r, step), committed' = committed, overtaken' = overtaken,
         step = "failed" => overtaken[r]
  PROVE  MigrationsInv'
<1>1. TypeOK
  BY DEF MigrationsInv
<1>2. TypeOK'
  BY <1>1 DEF TypeOK, EndTransaction
<1>3. \A q \in Runs \ {r} : pc'[q] = pc[q] /\ Run(q)' = Run(q)
  BY <1>1 DEF TypeOK, EndTransaction, Run
<1>4. pc'[r] = step /\ made'[r] = {} /\ gone'[r] = {} /\ held'[r] = {}
  BY <1>1 DEF TypeOK, EndTransaction
<1>5. QED
  BY <1>2, <1>3, <1>4, OneRunMoves

\* A run starts where the database is.
LEMMA StartKeeps ==
  ASSUME MigrationsInv, NEW r \in Runs, NEW revision \in Targets, Start(r, revision)
  PROVE  MigrationsInv'
<1>1. TypeOK /\ IdleHoldsNothing
  BY DEF MigrationsInv
<1>2. Current \in 0..10 /\ revision \in 0..10
  BY RevisionRange DEF Current
<1>3. TypeOK'
  BY <1>1, <1>2 DEF TypeOK, Start
<1>4. \A q \in Runs \ {r} : pc'[q] = pc[q] /\ Run(q)' = Run(q)
  BY <1>1 DEF TypeOK, Start, Run
<1>5. pc[r] = "idle" /\ pc'[r] = "running" /\ committed' = committed
  BY <1>1 DEF TypeOK, Start
<1>6. made[r] = {} /\ gone[r] = {} /\ held[r] = {}
  BY <1>1, <1>5 DEF IdleHoldsNothing
<1>. DEFINE run == Run(r)'
<1>7. /\ run.origin = RevisionIn(committed) /\ run.at = run.origin
      /\ run.target = revision /\ run.target # run.origin
      /\ run.position = IF VersionTable \in committed THEN 1 ELSE 0
      /\ run.made = {} /\ run.gone = {} /\ run.held = {} /\ run.overtaken = FALSE
  BY <1>1, <1>6 DEF TypeOK, Start, Run, Current
<1>8. Matches(committed)
  BY InvariantFacts
<1>. HIDE DEF run
<1>9. RunInv(committed, run)
  BY <1>2, <1>7, <1>8, StartedRun
<1>10. QED
  BY <1>3, <1>4, <1>5, <1>9, OneRunMoves DEF run

\* The three kinds of statement.
LEMMA StatementKinds ==
  ASSUME MigrationsInv, NEW r \in Runs, pc[r] = "running", at[r] # target[r],
         position[r] <= Len(Script(r))
  PROVE  \/ /\ position[r] = 0
            /\ Statement(r).do = "create" /\ Statement(r).object = VersionTable
         \/ /\ position[r] \in 1..Len(Script(r)) /\ at[r] < target[r]
            /\ Statement(r) = Script(r)[position[r]]
            /\ Statement(r).do \in {"create", "set"} /\ Statement(r).object \in Schema[10]
            /\ Statement(r).object = Organizations => Statement(r).do = "create"
         \/ /\ position[r] \in 1..Len(Script(r)) /\ ~(at[r] < target[r])
            /\ Statement(r) = Script(r)[position[r]]
            /\ Statement(r).do \in {"drop", "drop_if_exists", "unset"}
            /\ Statement(r).object \in Schema[10]
<1>. DEFINE run == Run(r)
<1>1. IsRun(run) /\ IsOnItsWay(run)
  BY InvariantFacts DEF RunInv
<1>2. run.at = at[r] /\ run.target = target[r] /\ run.position = position[r]
  BY DEF Run
<1>3. Script(r) = ScriptOf(run)
  BY <1>2 DEF Script, ScriptOf, Upgrading
<1>. HIDE DEF run
<1>4. Len(Script(r)) \in 1..7 /\ position[r] \in 0..8
  BY <1>1, <1>2, <1>3, ScriptRange DEF IsRun
<1>5. CASE position[r] = 0
  BY <1>5 DEF Statement, Create
<1>6. CASE position[r] # 0 /\ at[r] < target[r]
  <2>1. at[r] + 1 \in 1..10 /\ Script(r) = Upgrades[at[r] + 1]
    BY <1>1, <1>2, <1>6, ScriptRange DEF Script, Upgrading
  <2>2. Statement(r) = Script(r)[position[r]] /\ position[r] \in 1..Len(Script(r))
    BY <1>4, <1>6 DEF Statement
  <2>3. \A k \in 1..Len(Upgrades[at[r] + 1]) :
          /\ Upgrades[at[r] + 1][k].do \in {"create", "set"}
          /\ Born(Upgrades[at[r] + 1][k].object.name) = at[r] + 1
    <3>1. UpgradeIsSound(at[r] + 1)
      BY <2>1, ScriptsAreSound
    <3>2. QED
      BY <3>1, Zenon DEF UpgradeIsSound
  <2>4. Statement(r).do \in {"create", "set"} /\ Born(Statement(r).object.name) = at[r] + 1
    BY <2>1, <2>2, <2>3
  <2>5. Statement(r).object \in Schema[10]
    <3>1. Created(at[r] + 1) =
            {Upgrades[at[r] + 1][k].object : k \in 1..Len(Upgrades[at[r] + 1])}
      BY <2>1, CreatedObjects
    <3>2. Statement(r).object \in Created(at[r] + 1)
      BY <2>1, <2>2, <3>1
    <3>3. QED
      BY <2>1, <3>2, Schemas
  <2>6. ASSUME Statement(r).object = Organizations PROVE Statement(r).do = "create"
    <3>1. at[r] + 1 = 1
      BY <2>4, <2>6, Objects_45702c6aa3be DEF Born
    <3>2. Script(r) = upgrade_45702c6aa3be
      BY <2>1, <3>1 DEF Upgrades
    <3>3. Len(Script(r)) = 1 /\ Script(r)[1].do = "create"
      BY <3>2 DEF upgrade_45702c6aa3be, Create
    <3>4. QED
      BY <2>2, <3>3
  <2>7. QED
    BY <1>6, <2>2, <2>4, <2>5, <2>6
<1>7. CASE position[r] # 0 /\ ~(at[r] < target[r])
  <2>1. at[r] \in 1..10 /\ Script(r) = Downgrades[at[r]]
    BY <1>1, <1>2, <1>7, ScriptRange DEF Script, Upgrading
  <2>2. Statement(r) = Script(r)[position[r]] /\ position[r] \in 1..Len(Script(r))
    BY <1>4, <1>7 DEF Statement
  <2>3. \A k \in 1..Len(Downgrades[at[r]]) :
          /\ Downgrades[at[r]][k].do \in {"drop", "drop_if_exists", "unset"}
          /\ Downgrades[at[r]][k].object \in Created(at[r])
    <3>1. DowngradeIsSound(at[r])
      BY <2>1, ScriptsAreSound
    <3>2. QED
      BY <3>1, Zenon DEF DowngradeIsSound
  <2>4. Statement(r).object \in Schema[10]
    <3>1. Statement(r).object \in Created(at[r])
      BY <2>1, <2>2, <2>3
    <3>2. QED
      BY <2>1, <3>1, Schemas
  <2>5. QED
    BY <1>7, <2>1, <2>2, <2>3, <2>4
<1>8. QED
  BY <1>5, <1>6, <1>7

\* A statement of a script is one of seven at most.
LEMMA NextPosition ==
  ASSUME MigrationsInv, NEW r \in Runs, pc[r] = "running", at[r] # target[r],
         position[r] <= Len(Script(r))
  PROVE  position[r] \in 0..7
<1>1. Script(r) = ScriptOf(Run(r)) /\ Run(r).at = at[r] /\ Run(r).target = target[r]
  BY DEF Script, ScriptOf, Upgrading, Run
<1>2. IsRun(Run(r)) /\ IsOnItsWay(Run(r))
  BY InvariantFacts DEF RunInv
<1>3. Len(Script(r)) \in 1..7
  BY <1>1, <1>2, ScriptRange
<1>4. position[r] \in 0..8
  BY DEF MigrationsInv, TypeOK
<1>5. \A p \in 0..8, n \in 1..7 : p <= n => p \in 0..7
  OBVIOUS
<1>6. QED
  BY <1>3, <1>4, <1>5

\* What a statement that succeeds does to its run.
LEMMA StatementAdvances ==
  ASSUME MigrationsInv, NEW r \in Runs, pc[r] = "running", at[r] # target[r],
         position[r] <= Len(Script(r)), Free(r, Locks(Statement(r).object)),
         Change(r, Removes(r, Statement(r)), Adds(Statement(r))),
         held' = [held EXCEPT ![r] = @ \cup Locks(Statement(r).object)],
         position' = [position EXCEPT ![r] = @ + 1],
         UNCHANGED <<committed, pc, origin, at, target, overtaken>>
  PROVE  /\ TypeOK'
         /\ \A q \in Runs \ {r} : pc'[q] = pc[q] /\ Run(q)' = Run(q)
         /\ Advanced(Run(r), Run(r)', Removes(r, Statement(r)), Adds(Statement(r)),
                     Locks(Statement(r).object))
<1>. DEFINE removed == Removes(r, Statement(r))
            added == Adds(Statement(r))
            locks == Locks(Statement(r).object)
<1>1. TypeOK
  BY DEF MigrationsInv
<1>2. Statement(r).object \in Objects
  BY StatementKinds, CatalogParts
<1>3. removed \subseteq Objects /\ added \subseteq Objects /\ locks \subseteq ObjectNames
  <2>1. Visible(r) \subseteq Objects
    BY <1>1 DEF TypeOK, Visible
  <2>2. QED
    BY <1>2, <2>1, LockNames DEF Removes, Taken, Adds
<1>4. position[r] \in 0..7
  BY NextPosition
<1>5. \A q \in Runs \ {r} : held[q] \cap locks = {}
  BY DEF Free
<1>. HIDE DEF removed, added, locks
<1>6. /\ made' = [made EXCEPT ![r] = (@ \ removed) \cup added]
      /\ gone' = [gone EXCEPT ![r] = (@ \ added) \cup removed]
      /\ held' = [held EXCEPT ![r] = @ \cup locks]
  BY DEF Change, removed, added, locks
<1>7. TypeOK'
  <2>1. made' \in [Runs -> SUBSET Objects] /\ gone' \in [Runs -> SUBSET Objects]
    BY <1>1, <1>3, <1>6 DEF TypeOK
  <2>2. held' \in [Runs -> SUBSET ObjectNames] /\ position' \in [Runs -> 0..8]
    BY <1>1, <1>3, <1>4, <1>6 DEF TypeOK
  <2>3. \A p \in Runs : \A q \in Runs \ {p} : held'[p] \cap held'[q] = {}
    BY <1>1, <1>5, <1>6 DEF TypeOK
  <2>4. QED
    BY <1>1, <2>1, <2>2, <2>3 DEF TypeOK
<1>8. \A q \in Runs \ {r} : pc'[q] = pc[q] /\ Run(q)' = Run(q)
  BY <1>1, <1>6 DEF TypeOK, Run
<1>9. Advanced(Run(r), Run(r)', removed, added, locks)
  BY <1>1, <1>6 DEF TypeOK, Run, Advanced
<1>10. QED
  BY <1>7, <1>8, <1>9 DEF removed, added, locks

\* A statement succeeds.
LEMMA StatementKeeps ==
  ASSUME MigrationsInv, NEW r \in Runs, pc[r] = "running", at[r] # target[r],
         position[r] <= Len(Script(r)), Free(r, Locks(Statement(r).object)),
         Possible(r, Statement(r)),
         Change(r, Removes(r, Statement(r)), Adds(Statement(r))),
         held' = [held EXCEPT ![r] = @ \cup Locks(Statement(r).object)],
         position' = [position EXCEPT ![r] = @ + 1],
         UNCHANGED <<committed, pc, origin, at, target, overtaken>>
  PROVE  MigrationsInv'
<1>. DEFINE run == Run(r)
            next == Run(r)'
            object == Statement(r).object
<1>1. /\ TypeOK'
      /\ \A q \in Runs \ {r} : pc'[q] = pc[q] /\ Run(q)' = Run(q)
      /\ Advanced(run, next, Removes(r, Statement(r)), Adds(Statement(r)), Locks(object))
  BY StatementAdvances
<1>2. IsRun(run) /\ RunInv(committed, run) /\ Matches(committed)
  BY InvariantFacts
<1>3. /\ run.at = at[r] /\ run.target = target[r] /\ run.position = position[r]
      /\ Script(r) = ScriptOf(run) /\ Visible(r) = Seen(committed, run)
  BY DEF Run, Script, ScriptOf, Upgrading, Visible, Seen
<1>4. \/ /\ position[r] = 0
         /\ Statement(r).do = "create" /\ object = VersionTable
      \/ /\ position[r] \in 1..Len(Script(r)) /\ at[r] < target[r]
         /\ Statement(r) = Script(r)[position[r]]
         /\ Statement(r).do \in {"create", "set"} /\ object \in Schema[10]
         /\ object = Organizations => Statement(r).do = "create"
      \/ /\ position[r] \in 1..Len(Script(r)) /\ ~(at[r] < target[r])
         /\ Statement(r) = Script(r)[position[r]]
         /\ Statement(r).do \in {"drop", "drop_if_exists", "unset"}
  BY StatementKinds
<1>5. Statement(r).do = "create" => object \notin Visible(r)
  BY DEF Possible, Names
<1>. HIDE DEF run, next, object
<1>6. RunInv(committed, next)
  <2>1. CASE position[r] = 0 /\ Statement(r).do = "create" /\ object = VersionTable
    <3>1. Removes(r, Statement(r)) = {} /\ Adds(Statement(r)) = {VersionTable}
      BY <2>1 DEF Removes, Adds, object
    <3>2. Advanced(run, next, {}, {VersionTable}, Locks(VersionTable))
      BY <1>1, <2>1, <3>1
    <3>3. QED
      BY <1>2, <1>3, <2>1, <3>2, VersionTableMade
  <2>2. CASE /\ position[r] \in 1..Len(Script(r)) /\ at[r] < target[r]
             /\ Statement(r) = Script(r)[position[r]]
             /\ Statement(r).do \in {"create", "set"}
             /\ object = Organizations => Statement(r).do = "create"
    <3>1. Removes(r, Statement(r)) = {} /\ Adds(Statement(r)) = {object}
      BY <2>2 DEF Removes, Adds, object
    <3>2. Advanced(run, next, {}, {object}, Locks(object))
      BY <1>1, <3>1
    <3>3. object = ScriptOf(run)[run.position].object
      BY <1>3, <2>2 DEF object
    <3>4. object = Organizations => object \notin Seen(committed, run)
      BY <1>3, <1>5, <2>2
    <3>5. QED
      BY <1>2, <1>3, <2>2, <3>2, <3>3, <3>4, UpgradeStep
  <2>3. CASE /\ position[r] \in 1..Len(Script(r)) /\ ~(at[r] < target[r])
             /\ Statement(r) = Script(r)[position[r]]
             /\ Statement(r).do \in {"drop", "drop_if_exists", "unset"}
    <3>1. Removes(r, Statement(r)) = Taken(r, object) /\ Adds(Statement(r)) = {}
      BY <2>3 DEF Removes, Adds, object
    <3>2. Taken(r, object) = {o \in Seen(committed, run) : Touches(object, o)}
      BY <1>3 DEF Taken
    <3>3. Advanced(run, next, Taken(r, object), {}, Locks(object))
      BY <1>1, <3>1
    <3>4. object = ScriptOf(run)[run.position].object
      BY <1>3, <2>3 DEF object
    <3>5. committed \subseteq Objects
      BY <1>2 DEF Matches
    <3>6. QED
      BY <1>2, <1>3, <2>3, <3>2, <3>3, <3>4, <3>5, DowngradeStep
  <2>4. QED
    BY <1>4, <2>1, <2>2, <2>3
<1>7. pc'[r] = "running" /\ committed' = committed
  OBVIOUS
<1>8. QED
  BY <1>1, <1>6, <1>7, OneRunMoves DEF next

\* A run that has not been overtaken can execute its statement.
LEMMA StatementSucceeds ==
  ASSUME MigrationsInv, NEW r \in Runs, pc[r] = "running", at[r] # target[r],
         position[r] <= Len(Script(r)), ~overtaken[r]
  PROVE  Possible(r, Statement(r)) /\ Unused(r, Removes(r, Statement(r)))
<1>. DEFINE run == Run(r)
            object == Statement(r).object
<1>1. IsRun(run) /\ RunInv(committed, run) /\ Matches(committed)
  BY InvariantFacts
<1>2. /\ run.at = at[r] /\ run.target = target[r] /\ run.position = position[r]
      /\ run.origin = origin[r] /\ run.made = made[r] /\ run.gone = gone[r]
      /\ run.overtaken = overtaken[r]
      /\ Script(r) = ScriptOf(run) /\ Visible(r) = Seen(committed, run)
  BY DEF Run, Script, ScriptOf, Upgrading, Visible, Seen
<1>3. \/ /\ position[r] = 0
         /\ Statement(r).do = "create" /\ object = VersionTable
      \/ /\ position[r] \in 1..Len(Script(r)) /\ at[r] < target[r]
         /\ Statement(r) = Script(r)[position[r]]
         /\ Statement(r).do \in {"create", "set"}
      \/ /\ position[r] \in 1..Len(Script(r)) /\ ~(at[r] < target[r])
         /\ Statement(r) = Script(r)[position[r]]
         /\ Statement(r).do \in {"drop", "drop_if_exists", "unset"}
  BY StatementKinds
<1>. HIDE DEF run, object
<1>4. /\ IsOnItsWay(run) /\ KeepsVersionTable(committed, run) /\ UpgradesAdd(committed, run)
      /\ run.origin = RevisionIn(committed)
  BY <1>1, <1>2 DEF RunInv, LocksVersion
<1>5. CASE position[r] = 0 /\ Statement(r).do = "create" /\ object = VersionTable
  <2>1. run.origin = 0 /\ run.at = 0 /\ VersionTable \notin committed \cup run.made
    BY <1>2, <1>4, <1>5 DEF IsOnItsWay, KeepsVersionTable
  <2>2. committed = {}
    BY <1>1, <1>4, <2>1, Schemas, CatalogParts DEF Matches
  <2>3. run.made = {}
    <3>1. Executed(run) = {} /\ RowReached(run) = {}
      BY <1>2, <1>5, <2>1 DEF Executed, RowReached
    <3>2. run.made \ {VersionTable} = {}
      BY <1>4, <2>1, <3>1 DEF UpgradesAdd
    <3>3. QED
      BY <2>1, <3>2
  <2>4. Visible(r) = {}
    BY <1>2, <2>2, <2>3 DEF Seen
  <2>5. Possible(r, Statement(r))
    BY <1>5, <2>4, VersionObjects DEF Possible, Names, object
  <2>6. Unused(r, Removes(r, Statement(r)))
    BY <2>4 DEF Unused
  <2>7. QED
    BY <2>5, <2>6
<1>6. CASE /\ position[r] \in 1..Len(Script(r)) /\ at[r] < target[r]
           /\ Statement(r) = Script(r)[position[r]] /\ Statement(r).do \in {"create", "set"}
  <2>1. object = ScriptOf(run)[run.position].object
    BY <1>2, <1>6 DEF object
  <2>2. /\ object.name \notin Names(Visible(r))
        /\ object.on \cup object.uses \subseteq Names(Visible(r))
    BY <1>1, <1>2, <1>4, <1>6, <2>1, UpgradeFinds
  <2>3. Possible(r, Statement(r))
    BY <1>6, <2>2 DEF Possible, object
  <2>4. Unused(r, Removes(r, Statement(r)))
    BY <1>6 DEF Unused, Removes, Names
  <2>5. QED
    BY <2>3, <2>4
<1>7. CASE /\ position[r] \in 1..Len(Script(r)) /\ ~(at[r] < target[r])
           /\ Statement(r) = Script(r)[position[r]]
           /\ Statement(r).do \in {"drop", "drop_if_exists", "unset"}
  <2>. DEFINE taken == {o \in Seen(committed, run) : Touches(Statement(r).object, o)}
              statement == Statement(r)
  <2>1. statement = ScriptOf(run)[run.position]
    BY <1>2, <1>7
  <2>2. Removes(r, Statement(r)) = taken
    BY <1>2, <1>7 DEF Removes, Taken
  <2>. HIDE DEF statement
  <2>3. taken = {o \in Seen(committed, run) : Touches(statement.object, o)}
    BY DEF statement
  <2>. HIDE DEF taken
  <2>4. /\ statement.do = "drop" => statement.object \in Seen(committed, run)
        /\ statement.do = "unset" => statement.object.on \subseteq Names(Seen(committed, run))
        /\ \A o \in Seen(committed, run) \ taken : o.uses \cap Names(taken) = {}
    BY <1>1, <1>2, <1>4, <1>7, <2>1, <2>3, DowngradeFinds
  <2>5. Possible(r, Statement(r))
    BY <1>2, <1>7, <2>4 DEF Possible, statement
  <2>6. Unused(r, Removes(r, Statement(r)))
    BY <1>2, <2>2, <2>4 DEF Unused
  <2>7. QED
    BY <2>5, <2>6
<1>8. QED
  BY <1>3, <1>5, <1>6, <1>7

\* Execute, both ways.
LEMMA ExecuteKeeps ==
  ASSUME MigrationsInv, NEW r \in Runs, Execute(r)
  PROVE  MigrationsInv'
<1>. DEFINE succeeds == Possible(r, Statement(r)) /\ Unused(r, Removes(r, Statement(r)))
<1>1. /\ pc[r] = "running" /\ at[r] # target[r] /\ position[r] <= Len(Script(r))
      /\ Free(r, Locks(Statement(r).object))
  BY DEF Execute
<1>2. CASE /\ succeeds
           /\ Change(r, Removes(r, Statement(r)), Adds(Statement(r)))
           /\ held' = [held EXCEPT ![r] = @ \cup Locks(Statement(r).object)]
           /\ position' = [position EXCEPT ![r] = @ + 1]
           /\ UNCHANGED <<committed, pc, origin, at, target, overtaken>>
  BY <1>1, <1>2, StatementKeeps
<1>3. CASE ~succeeds /\ Fail(r)
  <2>1. overtaken[r] \in BOOLEAN
    BY DEF MigrationsInv, TypeOK
  <2>2. overtaken[r]
    BY <1>1, <1>3, <2>1, StatementSucceeds
  <2>3. QED
    BY <1>3, <2>2, TransactionEnds DEF Fail
<1>4. QED
  BY <1>2, <1>3 DEF Execute

\* UpdateVersion, both ways: the row is there unless another run has committed.
LEMMA UpdateVersionKeeps ==
  ASSUME MigrationsInv, NEW r \in Runs, UpdateVersion(r)
  PROVE  MigrationsInv'
<1>. DEFINE run == Run(r)
            next == Run(r)'
            onward == Onward(r)
            row == Names(IF at[r] = 0 THEN Rows[onward] ELSE Rows[at[r]])
<1>1. IsRun(run) /\ RunInv(committed, run) /\ Matches(committed) /\ TypeOK
  <2>1. pc[r] = "running"
    BY DEF UpdateVersion
  <2>2. QED
    BY <2>1, InvariantFacts DEF MigrationsInv
<1>2. /\ run.at = at[r] /\ run.target = target[r] /\ run.position = position[r]
      /\ run.origin = origin[r] /\ run.overtaken = overtaken[r]
      /\ Script(r) = ScriptOf(run) /\ Visible(r) = Seen(committed, run)
  BY DEF Run, Script, ScriptOf, Upgrading, Visible, Seen
<1>3. /\ pc[r] = "running" /\ at[r] # target[r] /\ position[r] > Len(Script(r))
      /\ Free(r, row)
  BY DEF UpdateVersion
<1>4. onward = IF run.at < run.target THEN run.at + 1 ELSE run.at - 1
  BY <1>2 DEF Onward, Upgrading
<1>5. onward \in 0..10
  <2>1. IsOnItsWay(run) /\ run.at # run.target
    BY <1>1, <1>2, <1>3 DEF RunInv
  <2>2. /\ run.at < run.target => run.at + 1 \in 1..10
        /\ ~(run.at < run.target) => run.at \in 1..10
    BY <1>1, <2>1, ScriptRange
  <2>3. QED
    BY <1>4, <2>2
<1>6. VersionMatches(r) <=>
        IF run.at = 0 THEN VersionRow(1) \notin Seen(committed, run)
                      ELSE VersionRow(run.at) \in Seen(committed, run)
  BY <1>2 DEF VersionMatches
<1>7. Rows[onward] \subseteq Objects /\ Rows[at[r]] \subseteq Objects /\ at[r] \in 0..10
  BY <1>1, <1>5, CatalogParts DEF TypeOK
<1>8. row \subseteq ObjectNames
  BY <1>7 DEF Names, ObjectNames
<1>9. \A q \in Runs \ {r} : held[q] \cap row = {}
  BY <1>3 DEF Free
<1>10. CASE /\ VersionMatches(r)
            /\ Change(r, Rows[at[r]], Rows[onward])
            /\ held' = [held EXCEPT ![r] = @ \cup row]
            /\ at' = [at EXCEPT ![r] = onward]
            /\ position' = [position EXCEPT ![r] = 1]
            /\ UNCHANGED <<committed, pc, origin, target, overtaken>>
  <2>. HIDE DEF run, onward, row
  <2>1. /\ made' = [made EXCEPT ![r] = (@ \ Rows[at[r]]) \cup Rows[onward]]
        /\ gone' = [gone EXCEPT ![r] = (@ \ Rows[onward]) \cup Rows[at[r]]]
    BY <1>10 DEF Change
  <2>2. TypeOK'
    <3>1. made' \in [Runs -> SUBSET Objects] /\ gone' \in [Runs -> SUBSET Objects]
      BY <1>1, <1>7, <2>1 DEF TypeOK
    <3>2. /\ held' \in [Runs -> SUBSET ObjectNames] /\ position' \in [Runs -> 0..8]
          /\ at' \in [Runs -> 0..10]
      BY <1>1, <1>5, <1>8, <1>10 DEF TypeOK
    <3>3. \A p \in Runs : \A q \in Runs \ {p} : held'[p] \cap held'[q] = {}
      BY <1>1, <1>9, <1>10 DEF TypeOK
    <3>4. QED
      BY <1>1, <1>10, <3>1, <3>2, <3>3 DEF TypeOK
  <2>3. \A q \in Runs \ {r} : pc'[q] = pc[q] /\ Run(q)' = Run(q)
    BY <1>1, <1>10, <2>1 DEF TypeOK, Run
  <2>4. Moved(run, next, onward)
    BY <1>1, <1>10, <2>1 DEF TypeOK, Run, Moved, run, row
  <2>. HIDE DEF next
  <2>5. RunInv(committed, next)
    BY <1>1, <1>2, <1>3, <1>4, <1>6, <1>10, <2>4, VersionStep
  <2>6. QED
    BY <1>3, <1>10, <2>2, <2>3, <2>5, OneRunMoves DEF next
<1>11. CASE ~VersionMatches(r) /\ Fail(r)
  <2>1. overtaken[r] \in BOOLEAN
    BY <1>1 DEF TypeOK
  <2>2. ASSUME ~overtaken[r] PROVE FALSE
    <3>1. run.origin = RevisionIn(committed)
      BY <1>1, <1>2, <2>2 DEF RunInv, LocksVersion
    <3>. HIDE DEF run
    <3>2. QED
      BY <1>1, <1>2, <1>3, <1>6, <1>11, <3>1, VersionFinds
  <2>3. QED
    BY <1>11, <2>1, <2>2, TransactionEnds DEF Fail
<1>12. QED
  BY <1>10, <1>11 DEF UpdateVersion

\* A run at its target commits a schema that its row names.
LEMMA CommitKeeps ==
  ASSUME MigrationsInv, NEW r \in Runs, Commit(r)
  PROVE  MigrationsInv'
<1>1. /\ Matches(committed) /\ TypeOK /\ IdleHoldsNothing /\ FailsOnlyWhenOvertaken
      /\ \A q \in Runs : IsRun(Run(q))
      /\ \A q \in Runs : pc[q] = "running" => RunInv(committed, Run(q))
  BY InvariantFacts DEF MigrationsInv
<1>2. /\ pc[r] = "running" /\ at[r] = target[r] /\ EndTransaction(r, "idle")
      /\ overtaken' = [q \in Runs |-> q # r \/ overtaken[q]]
  BY DEF Commit
<1>3. committed' = Seen(committed, Run(r)) /\ Run(r).at = Run(r).target
  BY <1>2 DEF Commit, Visible, Seen, Run
<1>4. Matches(committed')
  BY <1>1, <1>2, <1>3, CommitMatches
<1>5. TypeOK'
  <2>1. committed' \subseteq Objects
    BY <1>4 DEF Matches
  <2>2. overtaken' \in [Runs -> BOOLEAN]
    BY <1>2
  <2>3. /\ pc' \in [Runs -> {"idle", "running", "failed"}] /\ origin' \in [Runs -> 0..10]
        /\ at' \in [Runs -> 0..10] /\ target' \in [Runs -> 0..10]
        /\ position' \in [Runs -> 0..8] /\ made' \in [Runs -> SUBSET Objects]
        /\ gone' \in [Runs -> SUBSET Objects] /\ held' \in [Runs -> SUBSET ObjectNames]
    BY <1>1, <1>2 DEF TypeOK, EndTransaction
  <2>4. \A p \in Runs : \A q \in Runs \ {p} : held'[p] \cap held'[q] = {}
    BY <1>1, <1>2 DEF TypeOK, EndTransaction
  <2>5. QED
    BY <2>1, <2>2, <2>3, <2>4 DEF TypeOK
<1>6. SchemaMatchesVersion' /\ (Current' # 0 => VersionTable \in committed')
  BY <1>4 DEF Matches, SchemaMatchesVersion, Current
<1>7. pc'[r] = "idle" /\ made'[r] = {} /\ gone'[r] = {} /\ held'[r] = {}
  BY <1>1, <1>2 DEF TypeOK, EndTransaction
<1>8. ASSUME NEW q \in Runs \ {r}
      PROVE  /\ pc'[q] = pc[q] /\ overtaken'[q] = TRUE
             /\ made'[q] = made[q] /\ gone'[q] = gone[q] /\ held'[q] = held[q]
             /\ Overtaken(Run(q), Run(q)')
  <2>1. /\ pc'[q] = pc[q] /\ overtaken'[q] = TRUE
        /\ origin'[q] = origin[q] /\ at'[q] = at[q] /\ target'[q] = target[q]
        /\ position'[q] = position[q]
        /\ made'[q] = made[q] /\ gone'[q] = gone[q] /\ held'[q] = held[q]
    BY <1>1, <1>2 DEF TypeOK, EndTransaction
  <2>2. QED
    BY <2>1 DEF Overtaken, Run
<1>9. FailsOnlyWhenOvertaken'
  BY <1>7, <1>8 DEF FailsOnlyWhenOvertaken
<1>10. IdleHoldsNothing'
  BY <1>1, <1>7, <1>8 DEF IdleHoldsNothing
<1>11. ASSUME NEW q \in Runs, pc'[q] = "running"
       PROVE  RunInv(committed', Run(q)')
  <2>1. q \in Runs \ {r} /\ pc[q] = "running"
    BY <1>7, <1>8, <1>11
  <2>2. Run(q).held \cap Run(r).held = {}
    BY <1>1, <2>1 DEF TypeOK, Run
  <2>. DEFINE run == Run(r)
              other == Run(q)
              next == Run(q)'
  <2>3. /\ IsRun(run) /\ RunInv(committed, run) /\ run.at = run.target
        /\ IsRun(other) /\ RunInv(committed, other) /\ other.held \cap run.held = {}
        /\ Overtaken(other, next)
    BY <1>1, <1>2, <1>3, <1>8, <2>1, <2>2
  <2>. HIDE DEF run, other, next
  <2>4. RunInv(Seen(committed, run), next)
    BY <1>1, <2>3, OthersKeep
  <2>5. QED
    BY <1>3, <2>4 DEF run, next
<1>12. QED
  BY <1>5, <1>6, <1>9, <1>10, <1>11 DEF MigrationsInv

\* The process that has failed exits.
LEMMA ExitKeeps ==
  ASSUME MigrationsInv, NEW r \in Runs, Exit(r)
  PROVE  MigrationsInv'
<1>1. TypeOK /\ IdleHoldsNothing
  BY DEF MigrationsInv
<1>2. TypeOK'
  BY <1>1 DEF TypeOK, Exit
<1>3. \A q \in Runs \ {r} : pc'[q] = pc[q] /\ Run(q)' = Run(q)
  BY <1>1 DEF TypeOK, Exit, Run
<1>4. /\ pc'[r] = "idle" /\ committed' = committed
      /\ made'[r] = {} /\ gone'[r] = {} /\ held'[r] = {}
  BY <1>1 DEF TypeOK, Exit, IdleHoldsNothing
<1>5. QED
  BY <1>2, <1>3, <1>4, OneRunMoves

\* An empty database, and no run.
LEMMA InitHolds == Init => MigrationsInv
<1>. SUFFICES ASSUME Init PROVE MigrationsInv
  OBVIOUS
<1>1. TypeOK
  BY DEF Init, TypeOK
<1>2. RevisionIn(committed) = 0
  BY Schemas, CatalogParts, ReadsAs DEF Init
<1>3. SchemaMatchesVersion /\ Current = 0
  BY <1>2, Schemas, CatalogParts DEF Init, SchemaMatchesVersion, Current
<1>4. FailsOnlyWhenOvertaken /\ IdleHoldsNothing
  BY DEF Init, FailsOnlyWhenOvertaken, IdleHoldsNothing
<1>5. \A r \in Runs : pc[r] # "running"
  BY DEF Init
<1>6. QED
  BY <1>1, <1>3, <1>4, <1>5 DEF MigrationsInv

\* Every step keeps the invariant.
LEMMA NextKeeps == MigrationsInv /\ [Next]_vars => MigrationsInv'
<1>. SUFFICES ASSUME MigrationsInv, [Next]_vars PROVE MigrationsInv'
  OBVIOUS
<1>1. ASSUME NEW r \in Runs, NEW revision \in Targets, Start(r, revision)
      PROVE  MigrationsInv'
  BY <1>1, StartKeeps
<1>2. ASSUME NEW r \in Runs, Execute(r) PROVE MigrationsInv'
  BY <1>2, ExecuteKeeps
<1>3. ASSUME NEW r \in Runs, UpdateVersion(r) PROVE MigrationsInv'
  BY <1>3, UpdateVersionKeeps
<1>4. ASSUME NEW r \in Runs, Commit(r) PROVE MigrationsInv'
  BY <1>4, CommitKeeps
<1>5. ASSUME NEW r \in Runs, Exit(r) PROVE MigrationsInv'
  BY <1>5, ExitKeeps
<1>6. ASSUME NEW r \in Runs, Crash(r) PROVE MigrationsInv'
  BY <1>6, TransactionEnds DEF Crash
<1>7. ASSUME NEW r \in Runs, BreakDeadlock(r) PROVE MigrationsInv'
  BY <1>7, TransactionEnds DEF BreakDeadlock
<1>8. CASE UNCHANGED vars
  <2>1. \A q \in Runs : Run(q)' = Run(q)
    BY <1>8 DEF vars, Run
  <2>2. TypeOK' /\ SchemaMatchesVersion' /\ FailsOnlyWhenOvertaken' /\ IdleHoldsNothing'
    BY <1>8 DEF MigrationsInv, vars, TypeOK, SchemaMatchesVersion, Current,
       FailsOnlyWhenOvertaken, IdleHoldsNothing
  <2>3. Current' # 0 => VersionTable \in committed'
    BY <1>8 DEF MigrationsInv, vars, Current
  <2>4. \A r \in Runs : pc'[r] = "running" => RunInv(committed', Run(r)')
    BY <1>8, <2>1 DEF MigrationsInv, vars
  <2>5. QED
    BY <2>2, <2>3, <2>4 DEF MigrationsInv
<1>9. QED
  BY <1>1, <1>2, <1>3, <1>4, <1>5, <1>6, <1>7, <1>8 DEF Next, Step

-----------------------------------------------------------------------------
(* The theorems *)

\* However many runs start, wait, fail, crash and commit, each knows what it has changed,
\* and its locks keep the others from undoing that.
THEOREM InvariantHolds == Spec => []MigrationsInv
<1>1. QED
  BY InitHolds, NextKeeps, PTL DEF Spec

\* Catalogs and transactions hold objects of the scripts alone, and no lock has two holders.
THEOREM TypeCorrect == Spec => []TypeOK
<1>1. MigrationsInv => TypeOK
  BY DEF MigrationsInv
<1>2. QED
  BY <1>1, InvariantHolds, PTL

\* The database is in the schema of the revision that alembic_version names, whatever
\* runs have raced, failed or crashed.
THEOREM SchemaStaysWithVersion == Spec => []SchemaMatchesVersion
<1>1. MigrationsInv => SchemaMatchesVersion
  BY DEF MigrationsInv
<1>2. QED
  BY <1>1, InvariantHolds, PTL

\* A run that nobody has overtaken never fails: its scripts are in an order that the
\* catalog allows, both ways and from every revision.
THEOREM OnlyOvertakenRunsFail == Spec => []FailsOnlyWhenOvertaken
<1>1. MigrationsInv => FailsOnlyWhenOvertaken
  BY DEF MigrationsInv
<1>2. QED
  BY <1>1, InvariantHolds, PTL

=============================================================================
