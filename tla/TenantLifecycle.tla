--------------------------- MODULE TenantLifecycle ---------------------------
(***************************************************************************)
(* A tenant from sign-up to removal: TenantsService (onboarding, status),  *)
(* TenantShortcodesService with the triggers of 003_tenant_shortcodes.sql, *)
(* and the API key ApiKeysService gives a tenant that becomes active.      *)
(*                                                                         *)
(* Onboarding and a status change run over several database transactions;  *)
(* a request in the middle of one is kept in `req`, and others run in      *)
(* between.  The triggers read committed rows and lock nothing, so the     *)
(* transaction of a status change has two steps, the trigger and the       *)
(* commit.  Every other transaction is one step.                           *)
(***************************************************************************)
EXTENDS Naturals, FiniteSets

CONSTANTS
  Tenants, Users, Requests,
  Rows,      \* ids of tenant_shortcodes rows
  Numbers,   \* Safaricom's numbers
  Types,     \* the ShortcodeTypes in use
  Targets,   \* the statuses that are asked for
  NoTenant, NoUser, NoRow,
  Faults     \* subset of FaultKinds

\* crash: a request dies, or its provisioning fails and is only logged;
\* overlap: a transaction may begin while a status change is uncommitted;
\* stall: a tenant is given shortcodes before onboarding gave it the first
FaultKinds == {"crash", "overlap", "stall"}

ASSUME TenantAssumption ==
  /\ "PAYBILL" \in Types
  /\ Targets \subseteq {"pending_kyc", "active", "suspended", "removed"}
  /\ NoTenant \notin Tenants
  /\ NoUser \notin Users
  /\ Faults \subseteq FaultKinds

VARIABLES
  status,     \* tenant -> its status column, "none" before the row exists
  account,    \* user -> users.tenantId
  reviewed,   \* tenants whose status staff has set
  founder,    \* tenant -> the user who onboarded it, NoUser if staff created it
  shortcode,  \* row id -> row, or NoRow
  keys,       \* tenant -> "none", some "live" key, or all of them "revoked"
  req         \* request -> where it is

tenancy == <<status, account, founder, reviewed>>
vars == <<tenancy, shortcode, keys, req>>

Statuses == {"pending_kyc", "active", "suspended", "removed"}
Row == [tenant : Tenants, type : Types, number : Numbers, isDefault : BOOLEAN]

Idle == [stage |-> "idle"]
Request ==
  {Idle}
  \cup [stage : {"shortcode", "lookup", "mint", "gave_up"}, tenant : Tenants]
  \cup [stage : {"update", "commit"}, tenant : Tenants, to : Statuses, by : {"staff", "admin"},
      activates : BOOLEAN]

Exists(t) == status[t] # "none"

\* with the foreign keys of the schema: no row, account or key of a tenant that is not there
TypeOK ==
  /\ status \in [Tenants -> Statuses \cup {"none"}]
  /\ account \in [Users -> Tenants \cup {NoTenant}]
  /\ founder \in [Tenants -> Users \cup {NoUser}]
  /\ reviewed \subseteq Tenants
  /\ shortcode \in [Rows -> Row \cup {NoRow}]
  /\ keys \in [Tenants -> {"none", "live", "revoked"}]
  /\ req \in [Requests -> Request]
  /\ \A k \in Rows : shortcode[k] # NoRow => Exists(shortcode[k].tenant)
  /\ \A u \in Users : account[u] # NoTenant => Exists(account[u])
  /\ \A t \in Tenants : keys[t] # "none" => Exists(t)

Init ==
  /\ status = [t \in Tenants |-> "none"]
  /\ account = [u \in Users |-> NoTenant]
  /\ founder = [t \in Tenants |-> NoUser]
  /\ reviewed = {}
  /\ shortcode = [k \in Rows |-> NoRow]
  /\ keys = [t \in Tenants |-> "none"]
  /\ req = [r \in Requests |-> Idle]

May(fault) == fault \in Faults

-----------------------------------------------------------------------------
(* Shortcodes: the triggers, and what findFirst and findMany select *)

IsRowOf(k, t) == shortcode[k] # NoRow /\ shortcode[k].tenant = t

HeldByActive(k, number) ==
  /\ shortcode[k] # NoRow
  /\ shortcode[k].number = number
  /\ status[shortcode[k].tenant] = "active"

\* enforce_active_shortcode_uniqueness, for row k of tenant t
ShortcodeTaken(k, t, number) ==
  /\ status[t] = "active"
  /\ \E other \in Rows \ {k} : HeldByActive(other, number)

\* mutant: only the trigger on tenant_shortcodes is installed
ActivationTaken_NoTrigger(t) == FALSE

\* enforce_tenant_activation_shortcode_uniqueness
ActivationTaken(t) ==
  /\ status[t] # "active"
  /\ \E mine, theirs \in Rows :
       /\ IsRowOf(mine, t)
       /\ HeldByActive(theirs, shortcode[mine].number)
       /\ ~IsRowOf(theirs, t)

\* the rows a C2B confirmation for this number is matched with
matches(number) == {k \in Rows : HeldByActive(k, number)}

\* the rows getMpesaCredentialsForPayment's findFirst picks one of
defaults(t, type) ==
  {k \in Rows : IsRowOf(k, t) /\ shortcode[k].type = type /\ shortcode[k].isDefault}

\* updateMany ... isDefault: false, for the other defaults of the type
Unset(k, t, type) ==
  [other \in Rows |-> IF other \in defaults(t, type) \ {k}
                      THEN [shortcode[other] EXCEPT !.isDefault = FALSE]
                      ELSE shortcode[other]]

\* mutant: the old default is not unset
Write_SetsOnly(k, row) == shortcode' = [shortcode EXCEPT ![k] = row]

\* with the unset that precedes it in the transaction
Write(k, row) ==
  shortcode' = [IF row.isDefault THEN Unset(k, row.tenant, row.type) ELSE shortcode
                EXCEPT ![k] = row]

NoneOpen == May("overlap") \/ \A r \in Requests : req[r].stage # "commit"

GotItsFirst(t) ==
  May("stall") \/ \A r \in Requests : req[r].stage = "shortcode" => req[r].tenant # t

-----------------------------------------------------------------------------
(* TenantsService.onboardSelf and create *)

GoesOn(r, to) == req' = [req EXCEPT ![r] = to]
Ends(r) == GoesOn(r, Idle)

\* mutant: only the access token is checked
Unlinked_TrustsToken(u) == TRUE

\* updateMany's WHERE; otherwise the new tenant is rolled back with it.  The check
\* of the access token before it stops nobody: the token may be older than the link.
Unlinked(u) == account[u] = NoTenant

Created(t) == status' = [status EXCEPT ![t] = "pending_kyc"]

onboardSelf(r, u, t) ==
  /\ req[r] = Idle
  /\ ~Exists(t)
  /\ Unlinked(u)
  /\ Created(t)
  /\ account' = [account EXCEPT ![u] = t]
  /\ founder' = [founder EXCEPT ![t] = u]
  /\ GoesOn(r, [stage |-> "shortcode", tenant |-> t])
  /\ UNCHANGED <<reviewed, shortcode, keys>>

create(r, t) ==
  /\ req[r] = Idle
  /\ ~Exists(t)
  /\ Created(t)
  /\ GoesOn(r, [stage |-> "shortcode", tenant |-> t])
  /\ UNCHANGED <<account, founder, reviewed, shortcode, keys>>

\* a plain insert: it unsets no other default, and a conflict ends the request
createInitialShortcode(r, k, number) ==
  LET t == req[r].tenant
  IN  /\ req[r].stage = "shortcode"
      /\ NoneOpen
      /\ shortcode[k] = NoRow
      /\ IF ShortcodeTaken(k, t, number)
         THEN UNCHANGED shortcode
         ELSE shortcode' = [shortcode EXCEPT ![k] =
                [tenant |-> t, type |-> "PAYBILL", number |-> number, isDefault |-> TRUE]]
      /\ Ends(r)
      /\ UNCHANGED <<tenancy, keys>>

-----------------------------------------------------------------------------
(* TenantShortcodesService; a conflict the trigger finds changes nothing.  The tenant's *)
(* Daraja credentials, which can be set at any time and are never unset, are left out.  *)

createShortcode(t, k, type, number, isDefault) ==
  /\ Exists(t)
  /\ NoneOpen /\ GotItsFirst(t)
  /\ shortcode[k] = NoRow
  /\ ~ShortcodeTaken(k, t, number)
  /\ Write(k, [tenant |-> t, type |-> type, number |-> number, isDefault |-> isDefault])
  /\ UNCHANGED <<tenancy, keys, req>>

\* a patch that leaves `isDefault` out arrives with FALSE, as zod 4.4 applies the
\* .default(false) of the field inside .partial()
updateShortcode(k, type, number, isDefault) ==
  LET existing == shortcode[k]
  IN  /\ existing # NoRow
      /\ NoneOpen /\ GotItsFirst(existing.tenant)
      /\ number # existing.number => ~ShortcodeTaken(k, existing.tenant, number)
      /\ Write(k, [tenant |-> existing.tenant, type |-> type, number |-> number,
                   isDefault |-> isDefault])
      /\ UNCHANGED <<tenancy, keys, req>>

removeShortcode(k) ==
  /\ shortcode[k] # NoRow
  /\ shortcode' = [shortcode EXCEPT ![k] = NoRow]
  /\ UNCHANGED <<tenancy, keys, req>>

-----------------------------------------------------------------------------
(* TenantsService.updateStatus *)

SELF_SERVICE_STATUSES == {"active", "suspended"}

\* mutant: the rules look at the target alone
AdminMay_TargetOnly(t, before, to) ==
  /\ \E u \in Users : account[u] = t
  /\ to \in SELF_SERVICE_STATUSES

\* an admin pauses and resumes the tenant of the own account
AdminMay(t, before, to) ==
  /\ \E u \in Users : account[u] = t
  /\ before \in SELF_SERVICE_STATUSES
  /\ to \in SELF_SERVICE_STATUSES

\* mutant: a key only for a tenant that leaves its first review
Activates_FirstReview(before, to) == before = "pending_kyc" /\ to = "active"

Activates(before, to) == before # "active" /\ to = "active"

\* the read of `before` and the rules: what they allow is written later, whatever
\* the status is then
updateStatus(r, by, t, to) ==
  /\ req[r] = Idle
  /\ Exists(t)
  /\ by = "admin" => AdminMay(t, status[t], to)
  /\ GoesOn(r, [stage |-> "update", tenant |-> t, by |-> by, to |-> to,
                activates |-> Activates(status[t], to)])
  /\ UNCHANGED <<tenancy, shortcode, keys>>

\* the UPDATE: the row's lock, then the trigger
beginUpdate(r) ==
  LET t == req[r].tenant
  IN  /\ req[r].stage = "update"
      /\ NoneOpen
      /\ \A other \in Requests : req[other].stage = "commit" => req[other].tenant # t
      /\ IF req[r].to = "active" /\ ActivationTaken(t)
         THEN Ends(r)
         ELSE GoesOn(r, [req[r] EXCEPT !.stage = "commit"])
      /\ UNCHANGED <<tenancy, shortcode, keys>>

commitUpdate(r) ==
  LET t == req[r].tenant
  IN  /\ req[r].stage = "commit"
      /\ status' = [status EXCEPT ![t] = req[r].to]
      /\ reviewed' = IF req[r].by = "staff" THEN reviewed \cup {t} ELSE reviewed
      /\ GoesOn(r, IF req[r].activates THEN [stage |-> "lookup", tenant |-> t] ELSE Idle)
      /\ UNCHANGED <<account, founder, shortcode, keys>>

-----------------------------------------------------------------------------
(* ApiKeysService *)

\* a key with revokedAt null, expired or not
HoldsLiveKey(t) == keys[t] = "live"

\* provisionDefaultKeyIfNeeded looks for a live key, and issues one if there is none
provisionDefaultKeyIfNeeded(r) ==
  /\ req[r].stage = "lookup"
  /\ IF HoldsLiveKey(req[r].tenant)
     THEN Ends(r)
     ELSE GoesOn(r, [req[r] EXCEPT !.stage = "mint"])
  /\ UNCHANGED <<tenancy, shortcode, keys>>

createSystemIssued(r) ==
  /\ req[r].stage = "mint"
  /\ keys' = [keys EXCEPT ![req[r].tenant] = "live"]
  /\ Ends(r)
  /\ UNCHANGED <<tenancy, shortcode>>

createKey(t) ==
  /\ Exists(t)
  /\ keys' = [keys EXCEPT ![t] = "live"]
  /\ UNCHANGED <<tenancy, shortcode, req>>

\* the row stays; it may have been the last live one
revokeKey(t) ==
  /\ HoldsLiveKey(t)
  /\ keys' = [keys EXCEPT ![t] = "revoked"]
  /\ UNCHANGED <<tenancy, shortcode, req>>

\* nothing takes up what a request left: its open transaction is rolled back, and a
\* provisioning that fails is logged and forgotten
RequestDies(r) ==
  /\ May("crash")
  /\ req[r] # Idle
  /\ req[r].stage # "gave_up"
  /\ GoesOn(r, IF req[r].stage \in {"lookup", "mint"}
               THEN [stage |-> "gave_up", tenant |-> req[r].tenant]
               ELSE Idle)
  /\ UNCHANGED <<tenancy, shortcode, keys>>

-----------------------------------------------------------------------------
Onboarding ==
  \E r \in Requests, t \in Tenants :
    \/ create(r, t)
    \/ \E u \in Users : onboardSelf(r, u, t)

Shortcodes ==
  \E k \in Rows :
    \/ removeShortcode(k)
    \/ \E number \in Numbers :
         \/ \E r \in Requests : createInitialShortcode(r, k, number)
         \/ \E type \in Types, isDefault \in BOOLEAN :
              \/ updateShortcode(k, type, number, isDefault)
              \/ \E t \in Tenants : createShortcode(t, k, type, number, isDefault)

StatusChange ==
  \E r \in Requests :
    \/ \E by \in {"staff", "admin"}, t \in Tenants, to \in Targets : updateStatus(r, by, t, to)
    \/ beginUpdate(r)
    \/ commitUpdate(r)

Provisioning ==
  \/ \E r \in Requests : provisionDefaultKeyIfNeeded(r) \/ createSystemIssued(r)
  \/ \E t \in Tenants : createKey(t) \/ revokeKey(t)

Next ==
  \/ Onboarding
  \/ Shortcodes
  \/ StatusChange
  \/ Provisioning
  \/ \E r \in Requests : RequestDies(r)

Spec == Init /\ [][Next]_vars

-----------------------------------------------------------------------------
(* Properties *)

\* A customer's payment to a number has one tenant it can belong to: whatever the
\* order in which tenants are activated and shortcodes are added and edited, no two
\* active tenants hold the same number.
ActiveShortcodeUnique ==
  \A number \in Numbers : \A k, l \in matches(number) :
    shortcode[k].tenant = shortcode[l].tenant

\* A collection has one default shortcode it can mean: findFirst never has a choice.
OneDefaultPerType ==
  \A t \in Tenants, type \in Types : Cardinality(defaults(t, type)) <= 1

\* A double submit of the onboarding form leaves no tenant that nobody can reach:
\* the account that onboarded a tenant belongs to it for good.
FounderKeepsTenant ==
  \A t \in Tenants : founder[t] # NoUser => account[founder[t]] = t

\* An active tenant holds or has held an API key, or one is on its way, or the
\* request that should have issued it gave up: racing status changes do not each
\* leave the provisioning to the other.
ActiveTenantGotKey ==
  \A t \in Tenants : status[t] = "active" =>
    \/ keys[t] # "none"
    \/ \E r \in Requests : req[r].stage \in {"lookup", "mint", "gave_up"} /\ req[r].tenant = t

\* The platform decides first: until staff has set a status, a tenant is in review,
\* however its admins' requests interleave (decision 24 of docs/decisions.md).
StaffDecidesFirst ==
  \A t \in Tenants \ reviewed : status[t] \in {"none", "pending_kyc"}
=============================================================================
