-------------------------------- MODULE Rls --------------------------------
(***************************************************************************)
(* PostgreSQL row-level security as the migrations of RelayMaid set it up. *)
(* A policy compares a column with relaymaid_current_organization_id() or  *)
(* relaymaid_current_user_id(): the transaction-local settings             *)
(* relaymaid.organization_id and relaymaid.user_id.  This module holds the *)
(* policies as operators on the raw value of a setting.                    *)
(***************************************************************************)

CONSTANTS
    Null,   \* SQL NULL: a setting that this connection never had
    Empty   \* '': what a transaction-local setting leaves behind once reverted

\* relaymaid_current_organization_id() and relaymaid_current_user_id() both
\* read NULLIF(current_setting(name, true), '')::uuid.
CurrentSetting(raw) == IF raw = Empty THEN Null ELSE raw

\* column = current_...(): a comparison with NULL is not true.
Matches(column, raw) ==
    /\ CurrentSetting(raw) # Null
    /\ column = CurrentSetting(raw)

\* The USING and WITH CHECK expressions of events, outbox_messages and the
\* tenant policies of webhook_endpoints.
TenantPolicy(organization, rawOrganization) ==
    Matches(organization, rawOrganization)

\* membership_insert_self
MembershipInsertPolicy(user, organization, rawUser, rawOrganization) ==
    /\ Matches(user, rawUser)
    /\ Matches(organization, rawOrganization)

=============================================================================
