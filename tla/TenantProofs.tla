----------------------------- MODULE TenantProofs -----------------------------
(***************************************************************************)
(* What TenantLifecycle and TenantDelivery promise, for any number of      *)
(* tenants, users, requests, shortcodes and notifications.                 *)
(*                                                                         *)
(* In TenantLifecycle a request decides on what it read before it writes.  *)
(* Each property is inductive together with what such a request can still  *)
(* rely on: AdminSawReview, that a tenant once reviewed stays reviewed;    *)
(* ReadActive, that an active tenant it saw has its key or will have it;   *)
(* FirstIsFirst, that a tenant being onboarded has no shortcode yet;       *)
(* StillFree, that what the activation trigger found when the transaction  *)
(* began is true when it commits.                                          *)
(*                                                                         *)
(* In TenantDelivery types need LeftToMake: a row that may be posted has   *)
(* an attempt left, even if two processes count from one copy.  Counted    *)
(* says that every attempt in the attempts column was a POST, and Backed   *)
(* the same of what a process has in hand: a POST is never taken back,     *)
(* so it holds however many processes overwrite each other's columns.      *)
(* Fresh is about one process: it says what that one knows of the rows in  *)
(* its batch, which nobody else writes.                                    *)
(***************************************************************************)
EXTENDS TenantLifecycle, TenantDelivery, TLAPS, FiniteSetTheorems, SequenceTheorems

-----------------------------------------------------------------------------
(* Requests *)

StatusRequest ==
  [stage : {"update", "commit"}, tenant : Tenants, to : Statuses, by : {"staff", "admin"},
   activates : BOOLEAN]

TenantRequest == [stage : {"shortcode", "lookup", "mint", "gave_up"}, tenant : Tenants]

LEMMA RequestShape ==
  ASSUME NEW q \in Request
  PROVE  /\ q = Idle \/ q \in TenantRequest \/ q \in StatusRequest
         /\ q.stage = "idle" <=> q = Idle
         /\ q.stage \in {"shortcode", "lookup", "mint", "gave_up"} <=> q \in TenantRequest
         /\ q.stage \in {"update", "commit"} <=> q \in StatusRequest
  BY DEF Request, Idle, TenantRequest, StatusRequest

LEMMA RequestsMade ==
  /\ Idle \in Request
  /\ TenantRequest \subseteq Request
  /\ StatusRequest \subseteq Request
  /\ \A t \in Tenants, s \in {"shortcode", "lookup", "mint", "gave_up"} :
       [stage |-> s, tenant |-> t] \in TenantRequest
  /\ \A q \in TenantRequest, s \in {"shortcode", "lookup", "mint", "gave_up"} :
       /\ [q EXCEPT !.stage = s] \in TenantRequest
       /\ [q EXCEPT !.stage = s].stage = s
       /\ [q EXCEPT !.stage = s].tenant = q.tenant
  /\ \A q \in StatusRequest, s \in {"update", "commit"} :
       /\ [q EXCEPT !.stage = s] \in StatusRequest
       /\ [q EXCEPT !.stage = s].stage = s
       /\ [q EXCEPT !.stage = s].tenant = q.tenant
       /\ [q EXCEPT !.stage = s].to = q.to
       /\ [q EXCEPT !.stage = s].by = q.by
       /\ [q EXCEPT !.stage = s].activates = q.activates
  BY DEF Request, TenantRequest, StatusRequest

\* What happens to the requests: one of them goes on, or ends.
LEMMA RequestGoes ==
  ASSUME req \in [Requests -> Request], NEW r \in Requests, NEW to \in Request, GoesOn(r, to)
  PROVE  /\ req' \in [Requests -> Request]
         /\ req'[r] = to
         /\ \A s \in Requests \ {r} : req'[s] = req[s]
  BY DEF GoesOn

-----------------------------------------------------------------------------
(* Type correctness, and the foreign keys of the schema *)

\* a request is about a tenant that is there
Known(r) == req[r] # Idle => req[r].tenant \in Tenants /\ Exists(req[r].tenant)

TypeInv == TypeOK /\ \A r \in Requests : Known(r)

LEMMA Busy ==
  ASSUME TypeInv, NEW r \in Requests, req[r] # Idle
  PROVE  req[r].tenant \in Tenants /\ Exists(req[r].tenant)
  BY DEF TypeInv, Known

\* a write to a shortcode row
LEMMA WriteType ==
  ASSUME shortcode \in [Rows -> Row \cup {NoRow}], NEW k \in Rows, NEW row \in Row,
         Write(k, row)
  PROVE  /\ shortcode' \in [Rows -> Row \cup {NoRow}]
         /\ shortcode'[k] = row
         /\ \A other \in Rows \ {k} :
              shortcode'[other] = IF row.isDefault /\ other \in defaults(row.tenant, row.type)
                                  THEN [shortcode[other] EXCEPT !.isDefault = FALSE]
                                  ELSE shortcode[other]
<1>1. ASSUME NEW other \in defaults(row.tenant, row.type)
      PROVE  [shortcode[other] EXCEPT !.isDefault = FALSE] \in Row
  <2>1. other \in Rows /\ shortcode[other] \in Row
    BY DEF defaults, IsRowOf
  <2> QED BY <2>1 DEF Row
<1>2. Unset(k, row.tenant, row.type) \in [Rows -> Row \cup {NoRow}]
  BY <1>1 DEF Unset
<1>3. CASE row.isDefault
  <2>1. shortcode' = [Unset(k, row.tenant, row.type) EXCEPT ![k] = row]
    BY <1>3 DEF Write
  <2> QED BY <1>2, <1>3, <2>1 DEF Unset
<1>4. CASE ~ row.isDefault
  <2>1. shortcode' = [shortcode EXCEPT ![k] = row]
    BY <1>4 DEF Write
  <2> QED BY <1>4, <2>1
<1> QED BY <1>3, <1>4

\* the same, for what the properties look at: the tenant, type and number of the
\* other rows stay, and nothing becomes a default that was not
LEMMA WriteEffect ==
  ASSUME shortcode \in [Rows -> Row \cup {NoRow}], NEW k \in Rows, NEW row \in Row,
         Write(k, row)
  PROVE  /\ shortcode'[k] = row
         /\ \A other \in Rows \ {k} :
              /\ shortcode[other] = NoRow => shortcode'[other] = NoRow
              /\ shortcode[other] # NoRow =>
                   /\ shortcode'[other].tenant = shortcode[other].tenant
                   /\ shortcode'[other].type = shortcode[other].type
                   /\ shortcode'[other].number = shortcode[other].number
                   /\ shortcode'[other].isDefault => shortcode[other].isDefault
         /\ row.isDefault => \A other \in defaults(row.tenant, row.type) \ {k} :
                               ~ shortcode'[other].isDefault
<1>1. ASSUME NEW q \in Row
      PROVE  /\ [q EXCEPT !.isDefault = FALSE].tenant = q.tenant
             /\ [q EXCEPT !.isDefault = FALSE].type = q.type
             /\ [q EXCEPT !.isDefault = FALSE].number = q.number
             /\ ~ [q EXCEPT !.isDefault = FALSE].isDefault
  BY DEF Row
<1>2. \A other \in defaults(row.tenant, row.type) : other \in Rows /\ shortcode[other] # NoRow
  BY DEF defaults, IsRowOf
<1>3. \A other \in Rows : shortcode[other] # NoRow => shortcode[other] \in Row
  OBVIOUS
<1>4. shortcode'[k] = row
  BY WriteType
<1>5. ASSUME NEW other \in Rows \ {k}
      PROVE  shortcode'[other] = IF row.isDefault /\ other \in defaults(row.tenant, row.type)
                                 THEN [shortcode[other] EXCEPT !.isDefault = FALSE]
                                 ELSE shortcode[other]
  BY WriteType
<1>6. ASSUME NEW other \in Rows \ {k}, row.isDefault, other \in defaults(row.tenant, row.type)
      PROVE  /\ shortcode[other] # NoRow
             /\ shortcode'[other].tenant = shortcode[other].tenant
             /\ shortcode'[other].type = shortcode[other].type
             /\ shortcode'[other].number = shortcode[other].number
             /\ ~ shortcode'[other].isDefault
  <2>1. shortcode'[other] = [shortcode[other] EXCEPT !.isDefault = FALSE]
    BY <1>5, <1>6
  <2>2. shortcode[other] \in Row
    BY <1>2, <1>3, <1>6
  <2> QED BY <1>1, <1>2, <1>6, <2>1, <2>2
<1>7. ASSUME NEW other \in Rows \ {k},
             ~ (row.isDefault /\ other \in defaults(row.tenant, row.type))
      PROVE  shortcode'[other] = shortcode[other]
  BY <1>5, <1>7
<1> QED BY <1>2, <1>4, <1>6, <1>7

\* no step removes a tenant
LEMMA TenantsStay ==
  ASSUME TypeInv, Next, NEW t \in Tenants, Exists(t)
  PROVE  Exists(t)'
<1> USE DEF TypeInv, TypeOK
<1>1. ASSUME NEW u \in Tenants, Created(u) PROVE Exists(t)'
  BY <1>1 DEF Created, Exists
<1>2. ASSUME NEW r \in Requests, commitUpdate(r) PROVE Exists(t)'
  <2>1. req[r] \in StatusRequest
    BY <1>2, RequestShape DEF commitUpdate
  <2>2. req[r].to \in Statuses /\ status' = [status EXCEPT ![req[r].tenant] = req[r].to]
    BY <1>2, <2>1 DEF commitUpdate, StatusRequest
  <2> QED BY <2>2 DEF Exists, Statuses
<1>3. CASE UNCHANGED status
  BY <1>3 DEF Exists
<1> QED
  BY <1>1, <1>2, <1>3
  DEF Next, Onboarding, Shortcodes, StatusChange, Provisioning, onboardSelf, create,
      createInitialShortcode, createShortcode, updateShortcode, removeShortcode, updateStatus,
      beginUpdate, provisionDefaultKeyIfNeeded, createSystemIssued, createKey, revokeKey,
      RequestDies, tenancy

\* A request that goes on, or ends, is still about a tenant that is there.
LEMMA KnownStep ==
  ASSUME TypeInv, \A t \in Tenants : Exists(t) => Exists(t)',
         NEW r \in Requests, NEW to \in Request, GoesOn(r, to),
         to # Idle => to.tenant \in Tenants /\ Exists(to.tenant)'
  PROVE  req' \in [Requests -> Request] /\ \A s \in Requests : Known(s)'
<1>1. req \in [Requests -> Request]
  BY DEF TypeInv, TypeOK
<1>2. ASSUME NEW s \in Requests PROVE Known(s)'
  <2>1. CASE s = r
    BY <1>1, <2>1, RequestGoes DEF Known
  <2>2. CASE s # r
    <3>1. req'[s] = req[s]
      BY <1>1, <2>2, RequestGoes
    <3>2. req[s] # Idle => req[s].tenant \in Tenants /\ Exists(req[s].tenant)
      BY DEF TypeInv, Known
    <3> QED BY <3>1, <3>2 DEF Known, Exists
  <2> QED BY <2>1, <2>2
<1> QED BY <1>1, <1>2, RequestGoes

\* where the request goes, in each of the steps that move one
LEMMA RequestMoves ==
  ASSUME TypeInv, Next
  PROVE  \/ UNCHANGED req
         \/ \E r \in Requests, to \in Request :
              /\ GoesOn(r, to)
              /\ to # Idle => to.tenant \in Tenants /\ Exists(to.tenant)'
<1> USE TenantAssumption, RequestsMade
<1> DEFINE Moves(r) ==
      \E to \in Request :
        GoesOn(r, to) /\ (to # Idle => to.tenant \in Tenants /\ Exists(to.tenant)')
<1>0. Idle \in Request /\ \A r \in Requests : Ends(r) => Moves(r)
  BY DEF Ends
<1>1. ASSUME NEW r \in Requests, NEW t \in Tenants, create(r, t) \/ \E u \in Users : onboardSelf(r, u, t)
      PROVE  Moves(r)
  <2>1. [stage |-> "shortcode", tenant |-> t] \in Request
    OBVIOUS
  <2>2. Created(t) /\ GoesOn(r, [stage |-> "shortcode", tenant |-> t])
    BY <1>1 DEF create, onboardSelf
  <2>3. Exists(t)'
    BY <2>2 DEF Created, Exists, TypeInv, TypeOK
  <2> QED BY <2>1, <2>2, <2>3
<1>2. ASSUME NEW r \in Requests, NEW k \in Rows, NEW number \in Numbers,
             createInitialShortcode(r, k, number)
      PROVE  Moves(r)
  BY <1>0, <1>2 DEF createInitialShortcode
<1>3. ASSUME NEW r \in Requests, NEW by \in {"staff", "admin"}, NEW t \in Tenants,
             NEW to \in Targets, updateStatus(r, by, t, to)
      PROVE  Moves(r)
  <2> DEFINE q == [stage |-> "update", tenant |-> t, by |-> by, to |-> to,
                   activates |-> Activates(status[t], to)]
  <2>1. q \in StatusRequest
    BY DEF StatusRequest, Statuses, Activates
  <2>2. q \in Request /\ q.tenant = t
    BY <2>1
  <2>3. GoesOn(r, q) /\ Exists(t)'
    BY <1>3, TenantsStay DEF updateStatus
  <2> HIDE DEF q
  <2> QED BY <2>2, <2>3
<1>4. ASSUME NEW r \in Requests, req[r] # Idle, NEW to \in Request, GoesOn(r, to),
             to # Idle => to.tenant = req[r].tenant
      PROVE  Moves(r)
  BY <1>4, Busy, TenantsStay
<1>5. ASSUME NEW r \in Requests, beginUpdate(r) PROVE Moves(r)
  <2>1. req[r] \in StatusRequest /\ req[r] # Idle
    BY <1>5, RequestShape DEF beginUpdate, TypeInv, TypeOK
  <2>2. [req[r] EXCEPT !.stage = "commit"] \in Request
        /\ [req[r] EXCEPT !.stage = "commit"].tenant = req[r].tenant
    BY <2>1
  <2> QED BY <1>0, <1>4, <1>5, <2>1, <2>2 DEF beginUpdate
<1>6. ASSUME NEW r \in Requests, commitUpdate(r) PROVE Moves(r)
  <2>1. req[r] \in StatusRequest /\ req[r] # Idle
    BY <1>6, RequestShape DEF commitUpdate, TypeInv, TypeOK
  <2>2. req[r].tenant \in Tenants
    BY <2>1, Busy
  <2>3. [stage |-> "lookup", tenant |-> req[r].tenant] \in Request
    BY <2>2
  <2> QED BY <1>0, <1>4, <1>6, <2>1, <2>3 DEF commitUpdate
<1>7. ASSUME NEW r \in Requests, provisionDefaultKeyIfNeeded(r) PROVE Moves(r)
  <2>1. req[r] \in TenantRequest /\ req[r] # Idle
    BY <1>7, RequestShape DEF provisionDefaultKeyIfNeeded, TypeInv, TypeOK
  <2>2. [req[r] EXCEPT !.stage = "mint"] \in Request
        /\ [req[r] EXCEPT !.stage = "mint"].tenant = req[r].tenant
    BY <2>1
  <2> QED BY <1>0, <1>4, <1>7, <2>1, <2>2 DEF provisionDefaultKeyIfNeeded
<1>8. ASSUME NEW r \in Requests, createSystemIssued(r) PROVE Moves(r)
  BY <1>0, <1>8 DEF createSystemIssued
<1>9. ASSUME NEW r \in Requests, RequestDies(r) PROVE Moves(r)
  <2>1. req[r] # Idle /\ req[r].tenant \in Tenants
    BY <1>9, Busy DEF RequestDies
  <2>2. [stage |-> "gave_up", tenant |-> req[r].tenant] \in Request
    BY <2>1
  <2> QED BY <1>0, <1>4, <1>9, <2>1, <2>2 DEF RequestDies, Ends
<1>10. CASE UNCHANGED req
  BY <1>10
<1> HIDE DEF Moves
<1>11. UNCHANGED req \/ \E r \in Requests : Moves(r)
  BY <1>1, <1>2, <1>3, <1>5, <1>6, <1>7, <1>8, <1>9
  DEF Next, Onboarding, Shortcodes, StatusChange, Provisioning, createShortcode,
      updateShortcode, removeShortcode, createKey, revokeKey
<1> QED BY <1>11 DEF Moves

LEMMA ShortcodeWriters ==
  ASSUME Shortcodes
  PROVE  /\ \/ \E k \in Rows : removeShortcode(k)
            \/ \E r \in Requests, k \in Rows, number \in Numbers :
                 createInitialShortcode(r, k, number)
            \/ \E k \in Rows, type \in Types, number \in Numbers, isDefault \in BOOLEAN :
                 updateShortcode(k, type, number, isDefault)
            \/ \E t \in Tenants, k \in Rows, type \in Types, number \in Numbers,
                  isDefault \in BOOLEAN : createShortcode(t, k, type, number, isDefault)
         /\ UNCHANGED <<tenancy, keys>>
<1> PICK k \in Rows :
      \/ removeShortcode(k)
      \/ \E number \in Numbers :
           \/ \E r \in Requests : createInitialShortcode(r, k, number)
           \/ \E type \in Types, isDefault \in BOOLEAN :
                \/ updateShortcode(k, type, number, isDefault)
                \/ \E t \in Tenants : createShortcode(t, k, type, number, isDefault)
  BY DEF Shortcodes
<1>1. CASE removeShortcode(k)
  BY <1>1 DEF removeShortcode
<1>2. ASSUME NEW number \in Numbers, NEW r \in Requests, createInitialShortcode(r, k, number)
      PROVE  UNCHANGED <<tenancy, keys>>
  BY <1>2 DEF createInitialShortcode
<1>3. ASSUME NEW number \in Numbers, NEW type \in Types, NEW isDefault \in BOOLEAN,
             updateShortcode(k, type, number, isDefault)
      PROVE  UNCHANGED <<tenancy, keys>>
  BY <1>3 DEF updateShortcode
<1>4. ASSUME NEW number \in Numbers, NEW type \in Types, NEW isDefault \in BOOLEAN,
             NEW t \in Tenants, createShortcode(t, k, type, number, isDefault)
      PROVE  UNCHANGED <<tenancy, keys>>
  BY <1>4 DEF createShortcode
<1> QED BY <1>1, <1>2, <1>3, <1>4

\* the shortcodes after each step that writes them
LEMMA RowsStep ==
  ASSUME TypeInv, Next
  PROVE  /\ shortcode' \in [Rows -> Row \cup {NoRow}]
         /\ \A k \in Rows : shortcode'[k] # NoRow => status'[shortcode'[k].tenant] # "none"
<1> USE TenantAssumption DEF TypeInv, TypeOK
<1>0. \A t \in Tenants : Exists(t) => status'[t] # "none"
  BY TenantsStay DEF Exists
<1>1. CASE UNCHANGED shortcode
  <2>1. \A k \in Rows : shortcode[k] # NoRow => shortcode[k].tenant \in Tenants
    BY DEF Row
  <2> QED BY <1>0, <1>1, <2>1
<1>2. ASSUME NEW k \in Rows, NEW row \in Row, status'[row.tenant] # "none",
             Write(k, row) \/ shortcode' = [shortcode EXCEPT ![k] = row]
      PROVE  /\ shortcode' \in [Rows -> Row \cup {NoRow}]
             /\ \A l \in Rows : shortcode'[l] # NoRow => status'[shortcode'[l].tenant] # "none"
  <2>1. \A l \in Rows : shortcode[l] # NoRow => status'[shortcode[l].tenant] # "none"
    BY <1>0 DEF Row
  <2>2. CASE Write(k, row)
    <3>1. shortcode' \in [Rows -> Row \cup {NoRow}]
      BY <2>2, WriteType
    <3>2. ASSUME NEW l \in Rows, shortcode'[l] # NoRow PROVE status'[shortcode'[l].tenant] # "none"
      BY <1>2, <2>1, <2>2, <3>2, WriteEffect
    <3> QED BY <3>1, <3>2
  <2>3. CASE shortcode' = [shortcode EXCEPT ![k] = row]
    BY <1>2, <2>1, <2>3
  <2> QED BY <1>2, <2>2, <2>3
<1>3. ASSUME NEW t \in Tenants, NEW type \in Types, NEW number \in Numbers,
             NEW isDefault \in BOOLEAN
      PROVE  LET row == [tenant |-> t, type |-> type, number |-> number, isDefault |-> isDefault]
             IN  row \in Row /\ row.tenant = t
  BY DEF Row
<1>4. ASSUME NEW k \in Rows, removeShortcode(k)
      PROVE  /\ shortcode' \in [Rows -> Row \cup {NoRow}]
             /\ \A l \in Rows : shortcode'[l] # NoRow => status'[shortcode'[l].tenant] # "none"
  <2>1. \A l \in Rows : shortcode[l] # NoRow => status'[shortcode[l].tenant] # "none"
    BY <1>0 DEF Row
  <2> QED BY <1>4, <2>1 DEF removeShortcode
<1>5. ASSUME NEW r \in Requests, NEW k \in Rows, NEW number \in Numbers,
             createInitialShortcode(r, k, number)
      PROVE  /\ shortcode' \in [Rows -> Row \cup {NoRow}]
             /\ \A l \in Rows : shortcode'[l] # NoRow => status'[shortcode'[l].tenant] # "none"
  <2>1. req[r].tenant \in Tenants /\ Exists(req[r].tenant)
    BY <1>5, RequestShape, Busy DEF createInitialShortcode
  <2> DEFINE row == [tenant |-> req[r].tenant, type |-> "PAYBILL", number |-> number,
                     isDefault |-> TRUE]
  <2>2. row \in Row /\ status'[row.tenant] # "none"
    BY <1>0, <1>3, <2>1
  <2>3. UNCHANGED shortcode \/ shortcode' = [shortcode EXCEPT ![k] = row]
    BY <1>5 DEF createInitialShortcode
  <2> HIDE DEF row
  <2> QED BY <1>1, <1>2, <2>2, <2>3
<1>6. ASSUME NEW k \in Rows, NEW type \in Types, NEW number \in Numbers, NEW isDefault \in BOOLEAN,
             updateShortcode(k, type, number, isDefault)
      PROVE  /\ shortcode' \in [Rows -> Row \cup {NoRow}]
             /\ \A l \in Rows : shortcode'[l] # NoRow => status'[shortcode'[l].tenant] # "none"
  <2>1. shortcode[k].tenant \in Tenants /\ Exists(shortcode[k].tenant)
    BY <1>6 DEF updateShortcode, Row
  <2> DEFINE row == [tenant |-> shortcode[k].tenant, type |-> type, number |-> number,
                     isDefault |-> isDefault]
  <2>2. row \in Row /\ status'[row.tenant] # "none"
    BY <1>0, <1>3, <2>1
  <2>3. Write(k, row)
    BY <1>6 DEF updateShortcode
  <2> HIDE DEF row
  <2> QED BY <1>2, <2>2, <2>3
<1>7. ASSUME NEW t \in Tenants, NEW k \in Rows, NEW type \in Types, NEW number \in Numbers,
             NEW isDefault \in BOOLEAN, createShortcode(t, k, type, number, isDefault)
      PROVE  /\ shortcode' \in [Rows -> Row \cup {NoRow}]
             /\ \A l \in Rows : shortcode'[l] # NoRow => status'[shortcode'[l].tenant] # "none"
  <2> DEFINE row == [tenant |-> t, type |-> type, number |-> number, isDefault |-> isDefault]
  <2>1. row \in Row /\ status'[row.tenant] # "none"
    BY <1>0, <1>3, <1>7 DEF createShortcode
  <2>2. Write(k, row)
    BY <1>7 DEF createShortcode
  <2> HIDE DEF row
  <2> QED BY <1>2, <2>1, <2>2
<1>8. CASE Shortcodes
  BY <1>4, <1>5, <1>6, <1>7, ShortcodeWriters, <1>8
<1>9. CASE Onboarding \/ StatusChange \/ Provisioning \/ \E r \in Requests : RequestDies(r)
  BY <1>1, <1>9
  DEF Onboarding, StatusChange, Provisioning, onboardSelf, create, updateStatus, beginUpdate,
      commitUpdate, provisionDefaultKeyIfNeeded, createSystemIssued, createKey, revokeKey,
      RequestDies
<1> QED BY <1>8, <1>9 DEF Next

\* accounts, keys and the two columns of a tenant
LEMMA ColumnsStep ==
  ASSUME TypeInv, Next
  PROVE  /\ status' \in [Tenants -> Statuses \cup {"none"}]
         /\ account' \in [Users -> Tenants \cup {NoTenant}]
         /\ founder' \in [Tenants -> Users \cup {NoUser}]
         /\ reviewed' \subseteq Tenants
         /\ keys' \in [Tenants -> {"none", "live", "revoked"}]
         /\ \A u \in Users : account'[u] # NoTenant => status'[account'[u]] # "none"
         /\ \A t \in Tenants : keys'[t] # "none" => status'[t] # "none"
<1> USE TenantAssumption DEF TypeInv, TypeOK
<1>0. \A t \in Tenants : Exists(t) => status'[t] # "none"
  BY TenantsStay DEF Exists
<1>1. ASSUME NEW r \in Requests, NEW u \in Users, NEW t \in Tenants, onboardSelf(r, u, t)
      PROVE  /\ status' \in [Tenants -> Statuses \cup {"none"}]
             /\ account' \in [Users -> Tenants \cup {NoTenant}]
             /\ founder' \in [Tenants -> Users \cup {NoUser}]
             /\ \A v \in Users : account'[v] # NoTenant => status'[account'[v]] # "none"
  <2>1. status'[t] # "none"
    BY <1>1 DEF onboardSelf, Created
  <2> QED BY <1>0, <1>1, <2>1 DEF onboardSelf, Created, Statuses
<1>2. ASSUME NEW r \in Requests, NEW t \in Tenants, create(r, t)
      PROVE  status' \in [Tenants -> Statuses \cup {"none"}]
  BY <1>2 DEF create, Created, Statuses
<1>3. ASSUME NEW r \in Requests, commitUpdate(r)
      PROVE  status' \in [Tenants -> Statuses \cup {"none"}] /\ reviewed' \subseteq Tenants
  <2>1. req[r] \in StatusRequest
    BY <1>3, RequestShape DEF commitUpdate
  <2>2. req[r].to \in Statuses /\ req[r].tenant \in Tenants
    BY <2>1 DEF StatusRequest
  <2> QED BY <1>3, <2>2 DEF commitUpdate
<1>4. ASSUME NEW r \in Requests, createSystemIssued(r)
      PROVE  /\ keys' \in [Tenants -> {"none", "live", "revoked"}]
             /\ \A t \in Tenants : keys'[t] # "none" => status'[t] # "none"
  <2>1. req[r] # Idle
    BY <1>4, RequestShape DEF createSystemIssued
  <2>2. req[r].tenant \in Tenants /\ Exists(req[r].tenant)
    BY <2>1, Busy
  <2> QED BY <1>0, <1>4, <2>2 DEF createSystemIssued
<1>5. ASSUME NEW t \in Tenants, createKey(t) \/ revokeKey(t)
      PROVE  /\ keys' \in [Tenants -> {"none", "live", "revoked"}]
             /\ \A u \in Tenants : keys'[u] # "none" => status'[u] # "none"
  BY <1>0, <1>5 DEF createKey, revokeKey, HoldsLiveKey
<1>6. ASSUME UNCHANGED account
      PROVE  \A u \in Users : account'[u] # NoTenant => status'[account'[u]] # "none"
  BY <1>0, <1>6
<1>7. ASSUME UNCHANGED keys
      PROVE  \A t \in Tenants : keys'[t] # "none" => status'[t] # "none"
  BY <1>0, <1>7 DEF Exists
<1>8. CASE Onboarding
  BY <1>1, <1>2, <1>6, <1>7, <1>8 DEF Onboarding, onboardSelf, create
<1>9. CASE StatusChange
  BY <1>3, <1>6, <1>7, <1>9 DEF StatusChange, updateStatus, beginUpdate, commitUpdate, tenancy
<1>10. CASE Provisioning
  BY <1>4, <1>5, <1>6, <1>7, <1>10
  DEF Provisioning, provisionDefaultKeyIfNeeded, createSystemIssued, createKey, revokeKey, tenancy
<1>11. CASE Shortcodes \/ \E r \in Requests : RequestDies(r)
  <2>1. UNCHANGED <<tenancy, keys>>
    BY <1>11, ShortcodeWriters DEF RequestDies
  <2> QED BY <1>6, <1>7, <2>1 DEF tenancy
<1> QED BY <1>8, <1>9, <1>10, <1>11 DEF Next

LEMMA InitType == Init => TypeInv
  BY DEF Init, TypeInv, TypeOK, Known, Exists, Request

LEMMA NextType == TypeInv /\ [Next]_vars => TypeInv'
<1> SUFFICES ASSUME TypeInv, [Next]_vars PROVE TypeInv'
  OBVIOUS
<1>1. CASE UNCHANGED vars
  BY <1>1 DEF vars, tenancy, TypeInv, TypeOK, Known, Exists
<1>2. CASE Next
  <2>1. req' \in [Requests -> Request] /\ \A r \in Requests : Known(r)'
    <3>1. CASE UNCHANGED req
      BY <1>2, <3>1, TenantsStay DEF TypeInv, TypeOK, Known
    <3>2. \A t \in Tenants : Exists(t) => Exists(t)'
      BY <1>2, TenantsStay
    <3> QED BY <1>2, <3>1, <3>2, RequestMoves, KnownStep
  <2> QED BY <1>2, <2>1, RowsStep, ColumnsStep DEF TypeInv, TypeOK, Exists
<1> QED BY <1>1, <1>2

\* The columns stay in their ranges, and no shortcode, account, key or request
\* is about a tenant that is not there.
THEOREM TypeCorrect == Spec => []TypeOK
<1>1. TypeInv => TypeOK
  BY DEF TypeInv
<1> QED BY <1>1, InitType, NextType, PTL DEF Spec

-----------------------------------------------------------------------------
(* Who writes what *)

LEMMA AccountWriters ==
  ASSUME Next
  PROVE  \/ UNCHANGED <<account, founder>>
         \/ \E r \in Requests, u \in Users, t \in Tenants : onboardSelf(r, u, t)
<1>1. Shortcodes => UNCHANGED <<account, founder>>
  BY ShortcodeWriters DEF tenancy
<1> QED
  BY <1>1 DEF Next, Onboarding, StatusChange, Provisioning, create, updateStatus, beginUpdate,
       commitUpdate, provisionDefaultKeyIfNeeded, createSystemIssued, createKey, revokeKey,
       RequestDies, tenancy

LEMMA StatusWriters ==
  ASSUME Next
  PROVE  \/ UNCHANGED <<status, reviewed>>
         \/ \E t \in Tenants : ~ Exists(t) /\ Created(t) /\ UNCHANGED <<reviewed, shortcode, keys>>
         \/ \E r \in Requests : commitUpdate(r)
<1>1. Shortcodes => UNCHANGED <<status, reviewed>>
  BY ShortcodeWriters DEF tenancy
<1> QED
  BY <1>1 DEF Next, Onboarding, StatusChange, Provisioning, create, onboardSelf, updateStatus,
       beginUpdate, provisionDefaultKeyIfNeeded, createSystemIssued, createKey, revokeKey,
       RequestDies, tenancy

\* a request changes its status in two steps: the read, and the UPDATE's lock
LEMMA UpdatesBegin ==
  ASSUME TypeInv, Next, NEW s \in Requests
  PROVE  \/ req'[s] = req[s]
         \/ req'[s].stage \notin {"update", "commit"}
         \/ beginUpdate(s)
         \/ \E by \in {"staff", "admin"}, t \in Tenants, to \in Targets : updateStatus(s, by, t, to)
<1> USE RequestsMade DEF TypeInv, TypeOK
<1>1. ASSUME NEW r \in Requests, NEW to \in Request, GoesOn(r, to),
             to.stage \notin {"update", "commit"}
      PROVE  req'[s] = req[s] \/ req'[s].stage \notin {"update", "commit"}
  BY <1>1, RequestGoes
<1>2. ASSUME NEW r \in Requests, Ends(r)
      PROVE  req'[s] = req[s] \/ req'[s].stage \notin {"update", "commit"}
  BY <1>1, <1>2 DEF Ends, Idle
<1>3. ASSUME NEW r \in Requests, NEW t \in Tenants,
             create(r, t) \/ \E u \in Users : onboardSelf(r, u, t)
      PROVE  req'[s] = req[s] \/ req'[s].stage \notin {"update", "commit"}
  BY <1>1, <1>3 DEF create, onboardSelf
<1>4. ASSUME NEW r \in Requests, beginUpdate(r) \/ \E by \in {"staff", "admin"}, t \in Tenants,
               to \in Targets : updateStatus(r, by, t, to)
      PROVE  r = s \/ req'[s] = req[s]
  BY <1>4 DEF beginUpdate, updateStatus, GoesOn, Ends
<1>5. ASSUME NEW r \in Requests, req[r] # Idle, commitUpdate(r) \/ RequestDies(r)
      PROVE  req'[s] = req[s] \/ req'[s].stage \notin {"update", "commit"}
  <2>1. req[r].tenant \in Tenants
    BY <1>5, Busy
  <2>2. CASE commitUpdate(r)
    <3>1. [stage |-> "lookup", tenant |-> req[r].tenant] \in Request
      BY <2>1
    <3>2. GoesOn(r, [stage |-> "lookup", tenant |-> req[r].tenant]) \/ Ends(r)
      BY <2>2 DEF commitUpdate, Ends
    <3> QED BY <1>1, <1>2, <3>1, <3>2
  <2>3. CASE RequestDies(r)
    <3>1. [stage |-> "gave_up", tenant |-> req[r].tenant] \in Request
      BY <2>1
    <3>2. GoesOn(r, [stage |-> "gave_up", tenant |-> req[r].tenant]) \/ Ends(r)
      BY <2>3 DEF RequestDies, Ends
    <3> QED BY <1>1, <1>2, <3>1, <3>2
  <2> QED BY <1>5, <2>2, <2>3
<1>6. ASSUME NEW r \in Requests, provisionDefaultKeyIfNeeded(r)
      PROVE  req'[s] = req[s] \/ req'[s].stage \notin {"update", "commit"}
  <2>1. req[r] \in TenantRequest
    BY <1>6, RequestShape DEF provisionDefaultKeyIfNeeded
  <2>2. [req[r] EXCEPT !.stage = "mint"] \in Request
        /\ [req[r] EXCEPT !.stage = "mint"].stage = "mint"
    BY <2>1
  <2> QED BY <1>1, <1>2, <1>6, <2>2 DEF provisionDefaultKeyIfNeeded
<1>7. CASE Onboarding
  BY <1>3, <1>7 DEF Onboarding
<1>8. CASE Shortcodes
  BY <1>2, <1>8, ShortcodeWriters
  DEF createInitialShortcode, createShortcode, updateShortcode, removeShortcode
<1>9. CASE StatusChange
  <2>1. ASSUME NEW r \in Requests, commitUpdate(r) PROVE req[r] # Idle
    BY <2>1 DEF commitUpdate, Idle
  <2> QED BY <1>4, <1>5, <1>9, <2>1 DEF StatusChange
<1>10. CASE Provisioning \/ \E r \in Requests : RequestDies(r)
  BY <1>2, <1>5, <1>6, <1>10
  DEF Provisioning, createSystemIssued, createKey, revokeKey, RequestDies
<1> QED BY <1>7, <1>8, <1>9, <1>10 DEF Next

-----------------------------------------------------------------------------
(* The account that onboarded a tenant *)

LEMMA FounderStep ==
  ASSUME TypeInv, FounderKeepsTenant, Next
  PROVE  FounderKeepsTenant'
<1>1. CASE UNCHANGED <<account, founder>>
  BY <1>1 DEF FounderKeepsTenant
<1>2. ASSUME NEW r \in Requests, NEW u \in Users, NEW t \in Tenants, onboardSelf(r, u, t),
             NEW v \in Tenants, founder'[v] # NoUser
      PROVE  account'[founder'[v]] = v
  <2>1. /\ account[u] = NoTenant
        /\ account' = [account EXCEPT ![u] = t]
        /\ founder' = [founder EXCEPT ![t] = u]
    BY <1>2 DEF onboardSelf, Unlinked
  <2>2. CASE v = t
    BY <2>1, <2>2 DEF TypeInv, TypeOK
  <2>3. CASE v # t
    <3>1. founder'[v] = founder[v] /\ account[founder[v]] = v
      BY <1>2, <2>1, <2>3 DEF TypeInv, TypeOK, FounderKeepsTenant
    <3>2. founder[v] # u /\ founder[v] \in Users
      BY <1>2, <2>1, <3>1, TenantAssumption DEF TypeInv, TypeOK
    <3> QED BY <2>1, <3>1, <3>2 DEF TypeInv, TypeOK
  <2> QED BY <2>2, <2>3
<1> QED BY <1>1, <1>2, AccountWriters DEF FounderKeepsTenant

\* However requests of one account interleave, each tenant it onboarded is the one
\* it is linked to: the tenant of a lost race was rolled back with its UPDATE.
THEOREM OnboardedTenantIsReachable == Spec => []FounderKeepsTenant
<1>1. Init => TypeInv /\ FounderKeepsTenant
  BY InitType DEF Init, FounderKeepsTenant
<1>2. TypeInv /\ FounderKeepsTenant /\ [Next]_vars => (TypeInv /\ FounderKeepsTenant)'
  <2>1. FounderKeepsTenant /\ UNCHANGED vars => FounderKeepsTenant'
    BY DEF vars, tenancy, FounderKeepsTenant
  <2> QED BY <2>1, NextType, FounderStep
<1> QED BY <1>1, <1>2, PTL DEF Spec

-----------------------------------------------------------------------------
(* Staff decides first *)

\* an admin's request is under way only for a tenant that staff has seen: when it
\* read the status, that was not "pending_kyc"
AdminSawReview(r) ==
  req[r].stage \in {"update", "commit"} /\ req[r].by = "admin" => req[r].tenant \in reviewed

ReviewInv == TypeInv /\ StaffDecidesFirst /\ \A r \in Requests : AdminSawReview(r)

LEMMA ReviewStep ==
  ASSUME ReviewInv, Next
  PROVE  ReviewInv'
<1>0. TypeInv /\ TypeInv'
  BY NextType DEF ReviewInv
<1>1. reviewed \subseteq reviewed'
  BY StatusWriters DEF commitUpdate
<1>2. StaffDecidesFirst'
  <2>1. CASE UNCHANGED <<status, reviewed>>
    BY <2>1 DEF ReviewInv, StaffDecidesFirst
  <2>2. ASSUME NEW t \in Tenants, Created(t), UNCHANGED reviewed PROVE StaffDecidesFirst'
    BY <1>0, <2>2 DEF ReviewInv, StaffDecidesFirst, Created, TypeInv, TypeOK
  <2>3. ASSUME NEW r \in Requests, commitUpdate(r) PROVE StaffDecidesFirst'
    <3>1. req[r] \in StatusRequest
      BY <1>0, <2>3, RequestShape DEF commitUpdate, TypeInv, TypeOK
    <3>2. req[r].by \in {"staff", "admin"} /\ req[r].tenant \in Tenants
      BY <3>1 DEF StatusRequest
    <3>3. req[r].tenant \in reviewed'
      BY <2>3, <3>2 DEF commitUpdate, ReviewInv, AdminSawReview
    <3> QED BY <1>0, <1>1, <2>3, <3>2, <3>3
            DEF commitUpdate, ReviewInv, StaffDecidesFirst, TypeInv, TypeOK
  <2> QED BY <2>1, <2>2, <2>3, StatusWriters
<1>3. ASSUME NEW s \in Requests PROVE AdminSawReview(s)'
  <2>0. AdminSawReview(s)
    BY DEF ReviewInv
  <2>1. CASE req'[s] = req[s]
    BY <1>1, <2>0, <2>1 DEF AdminSawReview
  <2>2. ASSUME NEW by \in {"staff", "admin"}, NEW t \in Tenants, NEW to \in Targets,
               updateStatus(s, by, t, to)
        PROVE  AdminSawReview(s)'
    <3>1. /\ req' = [req EXCEPT ![s] = [stage |-> "update", tenant |-> t, by |-> by, to |-> to,
                                        activates |-> Activates(status[t], to)]]
          /\ by = "admin" => status[t] \in {"active", "suspended"}
      BY <2>2 DEF updateStatus, GoesOn, AdminMay, SELF_SERVICE_STATUSES
    <3>2. req'[s].tenant = t /\ req'[s].by = by
      BY <1>0, <3>1 DEF TypeInv, TypeOK
    <3>3. by = "admin" => t \in reviewed
      BY <3>1 DEF ReviewInv, StaffDecidesFirst
    <3> QED BY <1>1, <3>2, <3>3 DEF AdminSawReview
  <2>3. CASE beginUpdate(s)
    <3>1. req[s] \in StatusRequest
      BY <1>0, <2>3, RequestShape DEF beginUpdate, TypeInv, TypeOK
    <3>2. req'[s] = Idle \/ req'[s] = [req[s] EXCEPT !.stage = "commit"]
      BY <1>0, <2>3 DEF beginUpdate, Ends, GoesOn, TypeInv, TypeOK
    <3>3. /\ [req[s] EXCEPT !.stage = "commit"].tenant = req[s].tenant
          /\ [req[s] EXCEPT !.stage = "commit"].by = req[s].by
      BY <3>1, RequestsMade
    <3>4. req'[s] = Idle \/ (req'[s].tenant = req[s].tenant /\ req'[s].by = req[s].by)
      BY <3>2, <3>3
    <3> QED BY <1>1, <2>0, <2>3, <3>4 DEF AdminSawReview, beginUpdate, Idle
  <2>4. CASE req'[s].stage \notin {"update", "commit"}
    BY <2>4 DEF AdminSawReview
  <2> QED BY <1>0, <2>1, <2>2, <2>3, <2>4, UpdatesBegin DEF TypeInv, TypeOK
<1> QED BY <1>0, <1>2, <1>3 DEF ReviewInv

\* Until staff has set a status, a tenant stays in review, however its admins'
\* requests and those of staff interleave.
THEOREM StaffIsFirst == Spec => []StaffDecidesFirst
<1>1. Init => ReviewInv
  BY InitType DEF Init, ReviewInv, StaffDecidesFirst, AdminSawReview, Idle
<1>2. ReviewInv /\ [Next]_vars => ReviewInv'
  <2>1. ReviewInv /\ UNCHANGED vars => ReviewInv'
    BY NextType DEF vars, tenancy, ReviewInv, StaffDecidesFirst, AdminSawReview
  <2> QED BY <2>1, ReviewStep
<1>3. ReviewInv => StaffDecidesFirst
  BY DEF ReviewInv
<1> QED BY <1>1, <1>2, <1>3, PTL DEF Spec

-----------------------------------------------------------------------------
(* The API key of an active tenant *)

GotKey(t) ==
  \/ keys[t] # "none"
  \/ \E r \in Requests : req[r].stage \in {"lookup", "mint", "gave_up"} /\ req[r].tenant = t

\* what a request read is still worth something: the tenant was active then, so the
\* key was issued or on its way
ReadActive(r) ==
  req[r].stage \in {"update", "commit"} /\ req[r].to = "active" /\ ~ req[r].activates
    => GotKey(req[r].tenant)

KeyInv == TypeInv /\ ActiveTenantGotKey /\ \A r \in Requests : ReadActive(r)

LEMMA KeysStay ==
  ASSUME TypeInv, Next, NEW t \in Tenants, keys[t] # "none"
  PROVE  keys'[t] # "none"
<1>1. Shortcodes => UNCHANGED keys
  BY ShortcodeWriters
<1>2. ASSUME NEW u \in Tenants, createKey(u) \/ revokeKey(u) PROVE keys'[t] # "none"
  BY <1>2 DEF createKey, revokeKey, TypeInv, TypeOK
<1>3. ASSUME NEW r \in Requests, createSystemIssued(r) PROVE keys'[t] # "none"
  BY <1>3 DEF createSystemIssued, TypeInv, TypeOK
<1> QED
  BY <1>1, <1>2, <1>3
  DEF Next, Onboarding, StatusChange, Provisioning, create, onboardSelf, updateStatus,
      beginUpdate, commitUpdate, provisionDefaultKeyIfNeeded, RequestDies

\* a request that is to issue a key does so, finds one, or gives up
LEMMA ProvisioningGoes ==
  ASSUME TypeInv, Next, NEW s \in Requests, req[s].stage \in {"lookup", "mint", "gave_up"}
  PROVE  \/ req'[s].stage \in {"lookup", "mint", "gave_up"} /\ req'[s].tenant = req[s].tenant
         \/ keys'[req[s].tenant] # "none"
<1> USE DEF TypeInv, TypeOK
<1>0. req[s] \in TenantRequest /\ req[s].tenant \in Tenants /\ req[s] # Idle
  BY RequestShape, Busy DEF Idle
<1>1. CASE req'[s] = req[s]
  BY <1>1
<1>2. CASE provisionDefaultKeyIfNeeded(s)
  <2>1. CASE HoldsLiveKey(req[s].tenant)
    BY <1>0, <1>2, <2>1 DEF provisionDefaultKeyIfNeeded, HoldsLiveKey
  <2>2. CASE req' = [req EXCEPT ![s] = [req[s] EXCEPT !.stage = "mint"]]
    <3>1. /\ [req[s] EXCEPT !.stage = "mint"].stage = "mint"
          /\ [req[s] EXCEPT !.stage = "mint"].tenant = req[s].tenant
      BY <1>0, RequestsMade
    <3>2. req'[s] = [req[s] EXCEPT !.stage = "mint"]
      BY <2>2
    <3> QED BY <3>1, <3>2
  <2> QED BY <1>2, <2>1, <2>2 DEF provisionDefaultKeyIfNeeded, GoesOn
<1>3. CASE createSystemIssued(s)
  BY <1>0, <1>3 DEF createSystemIssued
<1>4. CASE RequestDies(s)
  BY <1>0, <1>4 DEF RequestDies, GoesOn
<1>5. ASSUME NEW r \in Requests, \E to : GoesOn(r, to), r # s
      PROVE  req'[s] = req[s]
  BY <1>5 DEF GoesOn
<1>6. CASE Onboarding
  <2>1. PICK r \in Requests : req[r] = Idle /\ \E to : GoesOn(r, to)
    BY <1>6 DEF Onboarding, create, onboardSelf
  <2> QED BY <1>0, <1>1, <1>5, <2>1
<1>7. CASE Shortcodes
  <2>1. UNCHANGED req \/ \E r \in Requests : GoesOn(r, Idle) /\ req[r].stage = "shortcode"
    BY <1>7, ShortcodeWriters
    DEF removeShortcode, createInitialShortcode, createShortcode, updateShortcode, Ends
  <2> QED BY <1>1, <1>5, <2>1
<1>8. CASE StatusChange
  <2>1. PICK r \in Requests :
          (req[r] = Idle \/ req[r].stage \in {"update", "commit"}) /\ \E to : GoesOn(r, to)
    BY <1>8 DEF StatusChange, updateStatus, beginUpdate, commitUpdate, Ends
  <2> QED BY <1>0, <1>1, <1>5, <2>1
<1>9. ASSUME NEW r \in Requests,
             provisionDefaultKeyIfNeeded(r) \/ createSystemIssued(r) \/ RequestDies(r), r # s
      PROVE  req'[s] = req[s]
  BY <1>5, <1>9 DEF provisionDefaultKeyIfNeeded, createSystemIssued, RequestDies, Ends
<1>10. ASSUME NEW u \in Tenants, createKey(u) \/ revokeKey(u) PROVE req'[s] = req[s]
  BY <1>10 DEF createKey, revokeKey
<1> QED BY <1>1, <1>2, <1>3, <1>4, <1>6, <1>7, <1>8, <1>9, <1>10 DEF Next, Provisioning

LEMMA GotKeyStays ==
  ASSUME TypeInv, Next, NEW t \in Tenants, GotKey(t)
  PROVE  GotKey(t)'
<1>1. CASE keys[t] # "none"
  BY <1>1, KeysStay DEF GotKey
<1>2. ASSUME NEW r \in Requests, req[r].stage \in {"lookup", "mint", "gave_up"}, req[r].tenant = t
      PROVE  GotKey(t)'
  BY <1>2, ProvisioningGoes DEF GotKey
<1> QED BY <1>1, <1>2 DEF GotKey

LEMMA KeyStep ==
  ASSUME KeyInv, Next
  PROVE  KeyInv'
<1>0. TypeInv /\ TypeInv'
  BY NextType DEF KeyInv
<1>1. ASSUME NEW t \in Tenants, status'[t] = "active" PROVE GotKey(t)'
  <2>1. CASE status[t] = "active"
    <3>1. GotKey(t)
      BY <2>1 DEF KeyInv, ActiveTenantGotKey, GotKey
    <3> QED BY <1>0, <3>1, GotKeyStays
  <2>2. CASE status[t] # "active"
    <3>1. PICK r \in Requests : commitUpdate(r)
      BY <1>0, <1>1, <2>2, StatusWriters DEF Created, TypeInv, TypeOK
    <3>2. t = req[r].tenant /\ req[r].to = "active"
      BY <1>0, <1>1, <2>2, <3>1 DEF commitUpdate, TypeInv, TypeOK
    <3>3. CASE req[r].activates
      <4>1. req'[r] = [stage |-> "lookup", tenant |-> t]
        BY <1>0, <3>1, <3>2, <3>3 DEF commitUpdate, GoesOn, TypeInv, TypeOK
      <4> QED BY <4>1 DEF GotKey
    <3>4. CASE ~ req[r].activates
      <4>1. GotKey(t)
        BY <3>1, <3>2, <3>4 DEF commitUpdate, KeyInv, ReadActive
      <4> QED BY <1>0, <4>1, GotKeyStays
    <3> QED BY <3>3, <3>4
  <2> QED BY <2>1, <2>2
<1>2. ASSUME NEW s \in Requests PROVE ReadActive(s)'
  <2>1. CASE /\ req[s].stage \in {"update", "commit"} /\ req'[s].stage \in {"update", "commit"}
             /\ req'[s].tenant = req[s].tenant
             /\ req'[s].to = req[s].to
             /\ req'[s].activates = req[s].activates
    <3>1. ReadActive(s) /\ req[s].tenant \in Tenants
      BY <1>0, <2>1, Busy DEF KeyInv, Idle
    <3>2. GotKey(req[s].tenant) => GotKey(req[s].tenant)'
      BY <1>0, <3>1, GotKeyStays, <2>1 DEF GotKey
    <3> QED BY <2>1, <3>1, <3>2 DEF ReadActive, GotKey
  <2>2. CASE req'[s].stage \notin {"update", "commit"}
    BY <2>2 DEF ReadActive
  <2>3. CASE req'[s] = req[s]
    BY <2>1, <2>2, <2>3
  <2>4. ASSUME NEW by \in {"staff", "admin"}, NEW t \in Tenants, NEW to \in Targets,
               updateStatus(s, by, t, to)
        PROVE  ReadActive(s)'
    <3>1. req' = [req EXCEPT ![s] = [stage |-> "update", tenant |-> t, by |-> by, to |-> to,
                                     activates |-> Activates(status[t], to)]]
      BY <2>4 DEF updateStatus, GoesOn
    <3>2. req'[s].tenant = t /\ req'[s].to = to /\ req'[s].activates = Activates(status[t], to)
      BY <1>0, <3>1 DEF TypeInv, TypeOK
    <3>3. to = "active" /\ ~ Activates(status[t], to) => GotKey(t)
      BY DEF Activates, KeyInv, ActiveTenantGotKey, GotKey
    <3>4. GotKey(t) => GotKey(t)'
      BY <1>0, GotKeyStays
    <3> QED BY <3>2, <3>3, <3>4 DEF ReadActive, GotKey
  <2>5. CASE beginUpdate(s)
    <3>1. req[s] \in StatusRequest
      BY <1>0, <2>5, RequestShape DEF beginUpdate, TypeInv, TypeOK
    <3>2. req'[s] = Idle \/ req'[s] = [req[s] EXCEPT !.stage = "commit"]
      BY <1>0, <2>5 DEF beginUpdate, Ends, GoesOn, TypeInv, TypeOK
    <3>3. /\ [req[s] EXCEPT !.stage = "commit"].stage = "commit"
          /\ [req[s] EXCEPT !.stage = "commit"].tenant = req[s].tenant
          /\ [req[s] EXCEPT !.stage = "commit"].to = req[s].to
          /\ [req[s] EXCEPT !.stage = "commit"].activates = req[s].activates
      BY <3>1, RequestsMade
    <3>4. CASE req'[s] = Idle
      BY <2>2, <3>4 DEF Idle
    <3>5. CASE req'[s] = [req[s] EXCEPT !.stage = "commit"]
      <4>1. req[s].stage = "update"
        BY <2>5 DEF beginUpdate
      <4> QED BY <2>1, <3>3, <3>5, <4>1
    <3> QED BY <3>2, <3>4, <3>5
  <2> QED BY <1>0, <2>2, <2>3, <2>4, <2>5, UpdatesBegin
<1>3. ActiveTenantGotKey'
  BY <1>1 DEF ActiveTenantGotKey, GotKey
<1> QED BY <1>0, <1>2, <1>3 DEF KeyInv

\* However status changes of one tenant interleave, none of them leaves the key to
\* the other: an active tenant got a key, or one is on its way, or was given up.
THEOREM ActiveTenantGetsKey == Spec => []ActiveTenantGotKey
<1>1. Init => KeyInv
  BY InitType DEF Init, KeyInv, ActiveTenantGotKey, ReadActive, Idle
<1>2. KeyInv /\ [Next]_vars => KeyInv'
  <2>1. KeyInv /\ UNCHANGED vars => KeyInv'
    BY NextType DEF vars, tenancy, KeyInv, ActiveTenantGotKey, ReadActive, GotKey
  <2> QED BY <2>1, KeyStep
<1>3. KeyInv => ActiveTenantGotKey
  BY DEF KeyInv
<1> QED BY <1>1, <1>2, <1>3, PTL DEF Spec

-----------------------------------------------------------------------------
(* The default shortcode of a type, if a tenant is given its first one by *)
(* onboarding: the plain insert there unsets nothing                      *)

SoleDefaults ==
  \A k, l \in Rows :
    /\ shortcode[k] # NoRow /\ shortcode[l] # NoRow
    /\ shortcode[k].tenant = shortcode[l].tenant
    /\ shortcode[k].type = shortcode[l].type
    /\ shortcode[k].isDefault /\ shortcode[l].isDefault
    => k = l

\* Onboarding writes to a tenant that has no shortcode, and only once.
FirstIsFirst ==
  /\ \A r \in Requests : req[r].stage = "shortcode" =>
       \A k \in Rows : ~ IsRowOf(k, req[r].tenant)
  /\ \A r, s \in Requests :
       req[r].stage = "shortcode" /\ req[s].stage = "shortcode" /\ req[r].tenant = req[s].tenant
         => r = s

DefaultInv == TypeInv /\ SoleDefaults /\ FirstIsFirst

\* a step that leaves the shortcodes, unless it is one of the four that write them
LEMMA ShortcodesStay == ASSUME Next PROVE Shortcodes \/ UNCHANGED shortcode
  BY DEF Next, Onboarding, StatusChange, Provisioning, onboardSelf, create, updateStatus,
      beginUpdate, commitUpdate, provisionDefaultKeyIfNeeded, createSystemIssued, createKey,
      revokeKey, RequestDies

LEMMA OnboardingBegins ==
  ASSUME TypeInv, Next, NEW s \in Requests, req'[s].stage = "shortcode"
  PROVE  \/ req'[s] = req[s]
         \/ \E t \in Tenants :
              /\ ~ Exists(t)
              /\ req' = [req EXCEPT ![s] = [stage |-> "shortcode", tenant |-> t]]
              /\ UNCHANGED shortcode
<1> USE DEF TypeInv, TypeOK
<1>1. ASSUME NEW r \in Requests, Ends(r) PROVE req'[s] = req[s]
  BY <1>1 DEF Ends, GoesOn, Idle
<1>2. ASSUME NEW r \in Requests, NEW to, GoesOn(r, to), to.stage # "shortcode"
      PROVE  req'[s] = req[s]
  BY <1>2 DEF GoesOn
<1>3. CASE Onboarding
  BY <1>3 DEF Onboarding, create, onboardSelf, GoesOn
<1>4. CASE Shortcodes
  BY <1>1, <1>4, ShortcodeWriters
  DEF createInitialShortcode, createShortcode, updateShortcode, removeShortcode
<1>5. CASE StatusChange
  <2>1. ASSUME NEW r \in Requests, NEW by \in {"staff", "admin"}, NEW t \in Tenants,
               NEW to \in Targets, updateStatus(r, by, t, to)
        PROVE  req'[s] = req[s]
    BY <1>2, <2>1 DEF updateStatus
  <2>2. ASSUME NEW r \in Requests, beginUpdate(r) PROVE req'[s] = req[s]
    <3>1. req[r] \in StatusRequest
      BY <2>2, RequestShape DEF beginUpdate
    <3>2. [req[r] EXCEPT !.stage = "commit"].stage = "commit"
      BY <3>1, RequestsMade
    <3> QED BY <1>1, <1>2, <2>2, <3>2 DEF beginUpdate
  <2>3. ASSUME NEW r \in Requests, commitUpdate(r) PROVE req'[s] = req[s]
    <3>1. Ends(r) \/ GoesOn(r, [stage |-> "lookup", tenant |-> req[r].tenant])
      BY <2>3 DEF commitUpdate, Ends
    <3> QED BY <1>1, <1>2, <3>1
  <2> QED BY <1>5, <2>1, <2>2, <2>3 DEF StatusChange
<1>6. CASE Provisioning \/ \E r \in Requests : RequestDies(r)
  <2>1. ASSUME NEW r \in Requests, provisionDefaultKeyIfNeeded(r) PROVE req'[s] = req[s]
    <3>1. req[r] \in TenantRequest
      BY <2>1, RequestShape DEF provisionDefaultKeyIfNeeded
    <3>2. [req[r] EXCEPT !.stage = "mint"].stage = "mint"
      BY <3>1, RequestsMade
    <3> QED BY <1>1, <1>2, <2>1, <3>2 DEF provisionDefaultKeyIfNeeded
  <2>2. ASSUME NEW r \in Requests, createSystemIssued(r) PROVE req'[s] = req[s]
    BY <1>1, <2>2 DEF createSystemIssued
  <2>3. ASSUME NEW r \in Requests, RequestDies(r) PROVE req'[s] = req[s]
    <3>1. Ends(r) \/ GoesOn(r, [stage |-> "gave_up", tenant |-> req[r].tenant])
      BY <2>3 DEF RequestDies, Ends
    <3> QED BY <1>1, <1>2, <3>1
  <2>4. ASSUME NEW t \in Tenants, createKey(t) \/ revokeKey(t) PROVE req'[s] = req[s]
    BY <2>4 DEF createKey, revokeKey
  <2> QED BY <1>6, <2>1, <2>2, <2>3, <2>4 DEF Provisioning
<1> QED BY <1>3, <1>4, <1>5, <1>6 DEF Next

\* A write leaves one default, and rows of no other tenant than before and its own.
LEMMA WriteKeepsSole ==
  ASSUME TypeInv, SoleDefaults, NEW k \in Rows, NEW row \in Row, Write(k, row)
  PROVE  /\ SoleDefaults'
         /\ \A l \in Rows, t \in Tenants : t # row.tenant /\ ~ IsRowOf(l, t) => ~ IsRowOf(l, t)'
<1>1. shortcode \in [Rows -> Row \cup {NoRow}]
  BY DEF TypeInv, TypeOK
<1>2. shortcode'[k] = row
  BY <1>1, WriteEffect
<1>3. ASSUME NEW other \in Rows \ {k}
      PROVE  /\ shortcode[other] = NoRow => shortcode'[other] = NoRow
             /\ shortcode[other] # NoRow =>
                  /\ shortcode'[other].tenant = shortcode[other].tenant
                  /\ shortcode'[other].type = shortcode[other].type
                  /\ shortcode'[other].isDefault => shortcode[other].isDefault
  BY <1>1, WriteEffect
<1>4. ASSUME NEW l \in Rows \ {k}, row.isDefault, shortcode'[l] # NoRow, shortcode'[l].isDefault,
             shortcode'[l].tenant = row.tenant, shortcode'[l].type = row.type
      PROVE  FALSE
  <2>1. l \in defaults(row.tenant, row.type) \ {k}
    BY <1>3, <1>4 DEF defaults, IsRowOf
  <2> QED BY <1>1, <1>4, <2>1, WriteEffect
<1>5. ASSUME NEW l \in Rows, NEW m \in Rows,
             shortcode'[l] # NoRow, shortcode'[m] # NoRow,
             shortcode'[l].tenant = shortcode'[m].tenant,
             shortcode'[l].type = shortcode'[m].type,
             shortcode'[l].isDefault, shortcode'[m].isDefault
      PROVE  l = m
  <2>1. CASE l # k /\ m # k
    BY <1>3, <1>5, <2>1 DEF SoleDefaults
  <2>2. CASE l = k /\ m # k
    BY <1>2, <1>4, <1>5, <2>2
  <2>3. CASE l # k /\ m = k
    BY <1>2, <1>4, <1>5, <2>3
  <2> QED BY <2>1, <2>2, <2>3
<1>6. SoleDefaults'
  BY <1>5 DEF SoleDefaults
<1>7. ASSUME NEW l \in Rows, NEW t \in Tenants, t # row.tenant, ~ IsRowOf(l, t)
      PROVE  ~ IsRowOf(l, t)'
  BY <1>2, <1>3, <1>7 DEF IsRowOf
<1> QED BY <1>6, <1>7

LEMMA NoRowOfNobody ==
  ASSUME TypeInv, NEW t \in Tenants, ~ Exists(t), NEW k \in Rows
  PROVE  ~ IsRowOf(k, t)
  BY DEF TypeInv, TypeOK, IsRowOf

LEMMA SoleStep ==
  ASSUME DefaultInv, Next
  PROVE  SoleDefaults'
<1>0. TypeInv /\ SoleDefaults
  BY DEF DefaultInv
<1>1. CASE UNCHANGED shortcode
  BY <1>0, <1>1 DEF SoleDefaults
<1>2. ASSUME NEW k \in Rows, removeShortcode(k) PROVE SoleDefaults'
  <2>1. \A l \in Rows : shortcode'[l] = IF l = k THEN NoRow ELSE shortcode[l]
    BY <1>0, <1>2 DEF removeShortcode, TypeInv, TypeOK
  <2> QED BY <1>0, <2>1 DEF SoleDefaults
<1>3. ASSUME NEW r \in Requests, NEW k \in Rows, NEW number \in Numbers,
             createInitialShortcode(r, k, number)
      PROVE  SoleDefaults'
  <2>1. \A l \in Rows : ~ IsRowOf(l, req[r].tenant)
    BY <1>3 DEF DefaultInv, FirstIsFirst, createInitialShortcode
  <2>2. CASE shortcode' = [shortcode EXCEPT ![k] =
               [tenant |-> req[r].tenant, type |-> "PAYBILL", number |-> number, isDefault |-> TRUE]]
    <3>1. shortcode'[k].tenant = req[r].tenant /\ \A l \in Rows \ {k} : shortcode'[l] = shortcode[l]
      BY <1>0, <2>2 DEF TypeInv, TypeOK
    <3> QED BY <1>0, <2>1, <3>1 DEF SoleDefaults, IsRowOf
  <2> QED BY <1>1, <1>3, <2>2 DEF createInitialShortcode
<1>4. ASSUME NEW k \in Rows, NEW row \in Row, Write(k, row) PROVE SoleDefaults'
  BY <1>0, <1>4, WriteKeepsSole
<1>5. ASSUME NEW k \in Rows, NEW type \in Types, NEW number \in Numbers, NEW isDefault \in BOOLEAN,
             updateShortcode(k, type, number, isDefault)
      PROVE  SoleDefaults'
  <2>1. shortcode[k].tenant \in Tenants
    BY <1>0, <1>5 DEF updateShortcode, Row, TypeInv, TypeOK
  <2>2. [tenant |-> shortcode[k].tenant, type |-> type, number |-> number,
         isDefault |-> isDefault] \in Row
    BY <2>1 DEF Row
  <2> QED BY <1>4, <1>5, <2>2 DEF updateShortcode
<1>6. ASSUME NEW t \in Tenants, NEW k \in Rows, NEW type \in Types, NEW number \in Numbers,
             NEW isDefault \in BOOLEAN, createShortcode(t, k, type, number, isDefault)
      PROVE  SoleDefaults'
  <2>1. [tenant |-> t, type |-> type, number |-> number, isDefault |-> isDefault] \in Row
    BY DEF Row
  <2> QED BY <1>4, <1>6, <2>1 DEF createShortcode
<1> QED BY <1>1, <1>2, <1>3, <1>5, <1>6, ShortcodeWriters, ShortcodesStay

\* A tenant that waits for its first shortcode gets none from another request.
LEMMA StillFirst ==
  ASSUME DefaultInv, Next, "stall" \notin Faults,
         NEW s \in Requests, req[s].stage = "shortcode", req'[s] = req[s], NEW l \in Rows
  PROVE  ~ (shortcode'[l] # NoRow /\ shortcode'[l].tenant = req[s].tenant)
<1> DEFINE t == req[s].tenant
<1>0. TypeInv /\ SoleDefaults /\ t \in Tenants /\ ~ IsRowOf(l, t)
  BY RequestShape, Busy DEF DefaultInv, FirstIsFirst, Idle
<1>1. CASE UNCHANGED shortcode
  BY <1>0, <1>1 DEF IsRowOf
<1>2. ASSUME NEW k \in Rows, removeShortcode(k)
      PROVE  ~ (shortcode'[l] # NoRow /\ shortcode'[l].tenant = t)
  BY <1>0, <1>2 DEF removeShortcode, IsRowOf, TypeInv, TypeOK
<1>3. ASSUME NEW r \in Requests, NEW k \in Rows, NEW number \in Numbers,
             createInitialShortcode(r, k, number)
      PROVE  ~ (shortcode'[l] # NoRow /\ shortcode'[l].tenant = t)
  <2>1. req'[r] = Idle /\ req[r].stage = "shortcode"
    BY <1>0, <1>3 DEF createInitialShortcode, Ends, GoesOn, TypeInv, TypeOK
  <2>2. req[r].tenant # t
    BY <2>1 DEF DefaultInv, FirstIsFirst, Idle
  <2>3. CASE shortcode' = [shortcode EXCEPT ![k] =
               [tenant |-> req[r].tenant, type |-> "PAYBILL", number |-> number, isDefault |-> TRUE]]
    BY <1>0, <2>2, <2>3 DEF IsRowOf, TypeInv, TypeOK
  <2> QED BY <1>1, <1>3, <2>3 DEF createInitialShortcode
<1>4. ASSUME NEW k \in Rows, NEW row \in Row, Write(k, row), row.tenant # t
      PROVE  ~ (shortcode'[l] # NoRow /\ shortcode'[l].tenant = t)
  BY <1>0, <1>4, WriteEffect DEF IsRowOf, TypeInv, TypeOK
<1>5. ASSUME NEW u \in Tenants, GotItsFirst(u) PROVE u # t
  BY <1>5 DEF GotItsFirst, May
<1>6. ASSUME NEW k \in Rows, NEW type \in Types, NEW number \in Numbers, NEW isDefault \in BOOLEAN,
             updateShortcode(k, type, number, isDefault)
      PROVE  ~ (shortcode'[l] # NoRow /\ shortcode'[l].tenant = t)
  <2>1. shortcode[k].tenant \in Tenants
    BY <1>0, <1>6 DEF updateShortcode, Row, TypeInv, TypeOK
  <2> DEFINE row == [tenant |-> shortcode[k].tenant, type |-> type, number |-> number,
                     isDefault |-> isDefault]
  <2>2. row \in Row /\ row.tenant = shortcode[k].tenant
    BY <2>1 DEF Row
  <2>3. Write(k, row) /\ shortcode[k].tenant # t
    BY <1>5, <1>6, <2>1 DEF updateShortcode
  <2> HIDE DEF row, t
  <2> QED BY <1>4, <2>2, <2>3
<1>7. ASSUME NEW u \in Tenants, NEW k \in Rows, NEW type \in Types, NEW number \in Numbers,
             NEW isDefault \in BOOLEAN, createShortcode(u, k, type, number, isDefault)
      PROVE  ~ (shortcode'[l] # NoRow /\ shortcode'[l].tenant = t)
  <2> DEFINE row == [tenant |-> u, type |-> type, number |-> number, isDefault |-> isDefault]
  <2>1. row \in Row /\ row.tenant = u
    BY DEF Row
  <2>2. Write(k, row) /\ u # t
    BY <1>5, <1>7 DEF createShortcode
  <2> HIDE DEF row, t
  <2> QED BY <1>4, <2>1, <2>2
<1> QED BY <1>1, <1>2, <1>3, <1>6, <1>7, ShortcodeWriters, ShortcodesStay

LEMMA DefaultStep ==
  ASSUME DefaultInv, Next, "stall" \notin Faults
  PROVE  DefaultInv'
<1>0. TypeInv /\ TypeInv'
  BY NextType DEF DefaultInv
<1>1. ASSUME NEW s \in Requests, req'[s].stage = "shortcode", NEW k \in Rows
      PROVE  ~ (shortcode'[k] # NoRow /\ shortcode'[k].tenant = req'[s].tenant)
  <2>1. CASE req'[s] = req[s]
    BY <1>1, <2>1, StillFirst
  <2>2. ASSUME NEW t \in Tenants, ~ Exists(t), UNCHANGED shortcode,
               req' = [req EXCEPT ![s] = [stage |-> "shortcode", tenant |-> t]]
        PROVE  ~ (shortcode'[k] # NoRow /\ shortcode'[k].tenant = req'[s].tenant)
    <3>1. req'[s].tenant = t
      BY <1>0, <2>2 DEF TypeInv, TypeOK
    <3> QED BY <1>0, <2>2, <3>1, NoRowOfNobody DEF IsRowOf
  <2> QED BY <1>0, <1>1, <2>1, <2>2, OnboardingBegins
<1>2. ASSUME NEW r \in Requests, NEW s \in Requests, r # s,
             req'[r].stage = "shortcode", req'[s].stage = "shortcode"
      PROVE  req'[r].tenant # req'[s].tenant
  <2>1. ASSUME NEW u \in Requests, NEW v \in Requests, u # v, req'[v].stage = "shortcode",
               NEW t \in Tenants, ~ Exists(t),
               req' = [req EXCEPT ![u] = [stage |-> "shortcode", tenant |-> t]]
        PROVE  req'[u].tenant # req'[v].tenant
    <3>1. req'[u].tenant = t /\ req'[v] = req[v] /\ req[v] # Idle
      BY <1>0, <2>1 DEF TypeInv, TypeOK, Idle
    <3> QED BY <1>0, <2>1, <3>1, Busy
  <2>2. CASE req'[r] = req[r] /\ req'[s] = req[s]
    BY <1>2, <2>2 DEF DefaultInv, FirstIsFirst
  <2> QED BY <1>0, <1>2, <2>1, <2>2, OnboardingBegins
<1>3. FirstIsFirst'
  BY <1>1, <1>2 DEF FirstIsFirst, IsRowOf
<1> QED BY <1>0, <1>3, SoleStep DEF DefaultInv

LEMMA SoleIsOne == TypeInv /\ SoleDefaults => OneDefaultPerType
<1> SUFFICES ASSUME SoleDefaults, NEW t \in Tenants, NEW type \in Types
             PROVE  Cardinality(defaults(t, type)) <= 1
  BY DEF OneDefaultPerType
<1>1. \A k, l \in defaults(t, type) : k = l
  BY DEF SoleDefaults, defaults, IsRowOf
<1>2. CASE defaults(t, type) = {}
  BY <1>2, FS_EmptySet
<1>3. ASSUME NEW k \in defaults(t, type) PROVE Cardinality(defaults(t, type)) <= 1
  <2>1. defaults(t, type) = {k}
    BY <1>1
  <2>2. Cardinality({k}) = 1
    BY FS_Singleton
  <2> QED BY <2>1, <2>2
<1> QED BY <1>2, <1>3

\* Unless a tenant is given shortcodes while its onboarding still has to insert the
\* first, it never has two defaults of a type, in whatever order shortcodes are
\* added, edited and removed, and wherever onboarding dies.
THEOREM OneDefaultToPick ==
  ASSUME "stall" \notin Faults
  PROVE  Spec => []OneDefaultPerType
<1>1. Init => DefaultInv
  BY InitType DEF Init, DefaultInv, SoleDefaults, FirstIsFirst, Idle
<1>2. DefaultInv /\ [Next]_vars => DefaultInv'
  <2>1. DefaultInv /\ UNCHANGED vars => DefaultInv'
    BY NextType DEF vars, DefaultInv, SoleDefaults, FirstIsFirst, IsRowOf
  <2> QED BY <2>1, DefaultStep
<1>3. DefaultInv => OneDefaultPerType
  BY SoleIsOne DEF DefaultInv
<1> QED BY <1>1, <1>2, <1>3, PTL DEF Spec

-----------------------------------------------------------------------------
(* One active tenant per number, if no transaction begins while the status *)
(* change of another, checked by its trigger, is uncommitted               *)

Active(k) == shortcode[k] # NoRow /\ status[shortcode[k].tenant] = "active"

UniqueActive ==
  \A k, l \in Rows :
    Active(k) /\ Active(l) /\ shortcode[k].number = shortcode[l].number
      => shortcode[k].tenant = shortcode[l].tenant

OneOpen ==
  \A r, s \in Requests : req[r].stage = "commit" /\ req[s].stage = "commit" => r = s

\* what the trigger found when the transaction began is still so when it commits
StillFree ==
  \A r \in Requests :
    req[r].stage = "commit" /\ req[r].to = "active" => ~ ActivationTaken(req[r].tenant)

UniqueInv == TypeInv /\ UniqueActive /\ OneOpen /\ StillFree

LEMMA CommitsOpen ==
  ASSUME TypeInv, Next, NEW s \in Requests, req'[s].stage = "commit"
  PROVE  req'[s] = req[s] \/ beginUpdate(s)
<1>1. ASSUME NEW by \in {"staff", "admin"}, NEW t \in Tenants, NEW to \in Targets,
             updateStatus(s, by, t, to)
      PROVE  FALSE
  BY <1>1 DEF updateStatus, GoesOn, TypeInv, TypeOK
<1> QED BY <1>1, UpdatesBegin

\* What a step does to the set of rows that active tenants hold: at most one row is
\* written, by a transaction that looked for the number elsewhere, and while no
\* status change is open; or rows go; or a tenant becomes active.
LEMMA OneRowWritten ==
  ASSUME TypeInv, Next, Shortcodes
  PROVE  \/ UNCHANGED shortcode
         \/ \E k \in Rows : removeShortcode(k)
         \/ \E k \in Rows :
              /\ NoneOpen
              /\ shortcode'[k] # NoRow => shortcode'[k] \in Row
              /\ \A l \in Rows \ {k} :
                   /\ shortcode'[l] # NoRow => shortcode[l] # NoRow
                   /\ shortcode[l] # NoRow =>
                        /\ shortcode'[l].tenant = shortcode[l].tenant
                        /\ shortcode'[l].number = shortcode[l].number
              /\ \/ ~ ShortcodeTaken(k, shortcode'[k].tenant, shortcode'[k].number)
                 \/ /\ shortcode[k] # NoRow
                    /\ shortcode'[k].tenant = shortcode[k].tenant
                    /\ shortcode'[k].number = shortcode[k].number
<1> DEFINE Written(k) ==
      /\ NoneOpen
      /\ shortcode'[k] # NoRow => shortcode'[k] \in Row
      /\ \A l \in Rows \ {k} :
           /\ shortcode'[l] # NoRow => shortcode[l] # NoRow
           /\ shortcode[l] # NoRow =>
                /\ shortcode'[l].tenant = shortcode[l].tenant
                /\ shortcode'[l].number = shortcode[l].number
      /\ \/ ~ ShortcodeTaken(k, shortcode'[k].tenant, shortcode'[k].number)
         \/ /\ shortcode[k] # NoRow
            /\ shortcode'[k].tenant = shortcode[k].tenant
            /\ shortcode'[k].number = shortcode[k].number
<1>0. shortcode \in [Rows -> Row \cup {NoRow}]
  BY DEF TypeInv, TypeOK
<1>1. ASSUME NEW k \in Rows, NEW row \in Row, NoneOpen,
             Write(k, row) \/ shortcode' = [shortcode EXCEPT ![k] = row],
             \/ ~ ShortcodeTaken(k, row.tenant, row.number)
             \/ /\ shortcode[k] # NoRow
                /\ row.tenant = shortcode[k].tenant
                /\ row.number = shortcode[k].number
      PROVE  Written(k)
  <2>1. CASE Write(k, row)
    <3>1. shortcode'[k] = row
      BY <1>0, <2>1, WriteEffect
    <3>2. \A l \in Rows \ {k} :
            /\ shortcode'[l] # NoRow => shortcode[l] # NoRow
            /\ shortcode[l] # NoRow =>
                 /\ shortcode'[l].tenant = shortcode[l].tenant
                 /\ shortcode'[l].number = shortcode[l].number
      BY <1>0, <2>1, WriteEffect
    <3> QED BY <1>1, <3>1, <3>2
  <2>2. CASE shortcode' = [shortcode EXCEPT ![k] = row]
    <3>1. shortcode'[k] = row /\ \A l \in Rows \ {k} : shortcode'[l] = shortcode[l]
      BY <1>0, <2>2
    <3> QED BY <1>1, <3>1
  <2> QED BY <1>1, <2>1, <2>2
<1>2. ASSUME NEW r \in Requests, NEW k \in Rows, NEW number \in Numbers,
             createInitialShortcode(r, k, number)
      PROVE  UNCHANGED shortcode \/ Written(k)
  <2>1. req[r].tenant \in Tenants
    BY <1>2, RequestShape, Busy DEF createInitialShortcode, Idle
  <2> DEFINE row == [tenant |-> req[r].tenant, type |-> "PAYBILL", number |-> number,
                     isDefault |-> TRUE]
  <2>2. row \in Row /\ row.tenant = req[r].tenant /\ row.number = number
    BY <2>1, TenantAssumption DEF Row
  <2>3. \/ UNCHANGED shortcode
        \/ /\ NoneOpen /\ shortcode' = [shortcode EXCEPT ![k] = row]
           /\ ~ ShortcodeTaken(k, req[r].tenant, number)
    BY <1>2 DEF createInitialShortcode
  <2> HIDE DEF row, Written
  <2> QED BY <1>1, <2>2, <2>3
<1>3. ASSUME NEW k \in Rows, NEW type \in Types, NEW number \in Numbers, NEW isDefault \in BOOLEAN,
             updateShortcode(k, type, number, isDefault)
      PROVE  Written(k)
  <2>1. shortcode[k].tenant \in Tenants
    BY <1>0, <1>3 DEF updateShortcode, Row
  <2> DEFINE row == [tenant |-> shortcode[k].tenant, type |-> type, number |-> number,
                     isDefault |-> isDefault]
  <2>2. row \in Row /\ row.tenant = shortcode[k].tenant /\ row.number = number
    BY <2>1 DEF Row
  <2>3. /\ NoneOpen /\ Write(k, row) /\ shortcode[k] # NoRow
        /\ number # shortcode[k].number => ~ ShortcodeTaken(k, shortcode[k].tenant, number)
    BY <1>3 DEF updateShortcode
  <2> HIDE DEF row, Written
  <2> QED BY <1>1, <2>2, <2>3
<1>4. ASSUME NEW t \in Tenants, NEW k \in Rows, NEW type \in Types, NEW number \in Numbers,
             NEW isDefault \in BOOLEAN, createShortcode(t, k, type, number, isDefault)
      PROVE  Written(k)
  <2> DEFINE row == [tenant |-> t, type |-> type, number |-> number, isDefault |-> isDefault]
  <2>1. row \in Row /\ row.tenant = t /\ row.number = number
    BY DEF Row
  <2>2. NoneOpen /\ Write(k, row) /\ ~ ShortcodeTaken(k, t, number)
    BY <1>4 DEF createShortcode
  <2> HIDE DEF row, Written
  <2> QED BY <1>1, <2>1, <2>2
<1> HIDE DEF Written
<1>5. UNCHANGED shortcode \/ (\E k \in Rows : removeShortcode(k)) \/ \E k \in Rows : Written(k)
  BY <1>2, <1>3, <1>4, ShortcodeWriters
<1> QED BY <1>5 DEF Written

LEMMA OpenStep ==
  ASSUME UniqueInv, Next, "overlap" \notin Faults
  PROVE  OneOpen'
<1>1. ASSUME NEW r \in Requests, NEW s \in Requests, r # s,
             req'[r].stage = "commit", req'[s].stage = "commit"
      PROVE  FALSE
  <2>1. ASSUME NEW u \in Requests, NEW v \in Requests, u # v, beginUpdate(u),
               req'[v].stage = "commit"
        PROVE  FALSE
    <3>1. req'[v] = req[v]
      BY <2>1 DEF beginUpdate, Ends, GoesOn, UniqueInv, TypeInv, TypeOK
    <3> QED BY <2>1, <3>1 DEF beginUpdate, NoneOpen, May
  <2>2. CASE req'[r] = req[r] /\ req'[s] = req[s]
    BY <1>1, <2>2 DEF UniqueInv, OneOpen
  <2> QED BY <1>1, <2>1, <2>2, CommitsOpen DEF UniqueInv
<1> QED BY <1>1 DEF OneOpen

\* no tenant becomes active but by the commit of a status change
LEMMA ActiveStays ==
  ASSUME TypeInv, Next, \A r \in Requests : ~ commitUpdate(r)
  PROVE  \A t \in Tenants : status'[t] = "active" <=> status[t] = "active"
<1>1. ASSUME NEW t \in Tenants, ~ Exists(t), Created(t)
      PROVE  \A u \in Tenants : status'[u] = "active" <=> status[u] = "active"
  BY <1>1 DEF Created, Exists, TypeInv, TypeOK
<1> QED BY <1>1, StatusWriters

LEMMA UniqueStep ==
  ASSUME UniqueInv, Next, "overlap" \notin Faults
  PROVE  UniqueActive'
<1>0. /\ TypeInv /\ UniqueActive
      /\ \A k \in Rows : shortcode[k] # NoRow =>
           shortcode[k].tenant \in Tenants /\ shortcode[k].number \in Numbers
  BY DEF UniqueInv, TypeInv, TypeOK, Row
<1>1. ASSUME NEW r \in Requests, commitUpdate(r) PROVE UniqueActive'
  <2> DEFINE t == req[r].tenant
  <2>1. t \in Tenants /\ status' = [status EXCEPT ![t] = req[r].to] /\ UNCHANGED shortcode
    BY <1>0, <1>1, Busy DEF commitUpdate, Idle
  <2>2. CASE req[r].to # "active" \/ status[t] = "active"
    <3>1. \A k \in Rows : Active(k)' => Active(k)
      BY <1>0, <2>1, <2>2 DEF Active, TypeInv, TypeOK
    <3> QED BY <1>0, <2>1, <3>1 DEF UniqueActive
  <2>3. CASE req[r].to = "active" /\ status[t] # "active"
    <3>1. \A mine, theirs \in Rows :
            IsRowOf(mine, t) /\ HeldByActive(theirs, shortcode[mine].number) => IsRowOf(theirs, t)
      BY <1>1, <2>3 DEF UniqueInv, StillFree, commitUpdate, ActivationTaken
    <3>2. \A k \in Rows : Active(k)' => Active(k) \/ IsRowOf(k, t)
      BY <1>0, <2>1 DEF Active, IsRowOf, TypeInv, TypeOK
    <3>3. ASSUME NEW k \in Rows, NEW l \in Rows, Active(k)', Active(l)',
                 shortcode'[k].number = shortcode'[l].number
          PROVE  shortcode'[k].tenant = shortcode'[l].tenant
      <4>1. CASE IsRowOf(k, t) /\ IsRowOf(l, t)
        BY <2>1, <4>1 DEF IsRowOf
      <4>2. CASE IsRowOf(k, t) /\ Active(l)
        BY <2>1, <3>1, <3>3, <4>2 DEF IsRowOf, Active, HeldByActive
      <4>3. CASE Active(k) /\ IsRowOf(l, t)
        BY <2>1, <3>1, <3>3, <4>3 DEF IsRowOf, Active, HeldByActive
      <4>4. CASE Active(k) /\ Active(l)
        BY <1>0, <2>1, <3>3, <4>4 DEF UniqueActive
      <4> QED BY <3>2, <3>3, <4>1, <4>2, <4>3, <4>4
    <3> QED BY <3>3 DEF UniqueActive
  <2> QED BY <2>2, <2>3
<1>2. CASE \A r \in Requests : ~ commitUpdate(r)
  <2>1. \A t \in Tenants : status'[t] = "active" <=> status[t] = "active"
    BY <1>0, <1>2, ActiveStays
  <2>2. CASE UNCHANGED shortcode
    BY <1>0, <2>1, <2>2 DEF UniqueActive, Active
  <2>3. ASSUME NEW k \in Rows, removeShortcode(k) PROVE UniqueActive'
    <3>1. \A l \in Rows : shortcode'[l] = IF l = k THEN NoRow ELSE shortcode[l]
      BY <1>0, <2>3 DEF removeShortcode, TypeInv, TypeOK
    <3> QED BY <1>0, <2>1, <3>1 DEF UniqueActive, Active
  <2>4. ASSUME NEW k \in Rows,
               shortcode'[k] # NoRow => shortcode'[k] \in Row,
               \A l \in Rows \ {k} :
                 /\ shortcode'[l] # NoRow => shortcode[l] # NoRow
                 /\ shortcode[l] # NoRow =>
                      /\ shortcode'[l].tenant = shortcode[l].tenant
                      /\ shortcode'[l].number = shortcode[l].number,
               \/ ~ ShortcodeTaken(k, shortcode'[k].tenant, shortcode'[k].number)
               \/ /\ shortcode[k] # NoRow
                  /\ shortcode'[k].tenant = shortcode[k].tenant
                  /\ shortcode'[k].number = shortcode[k].number
        PROVE  UniqueActive'
    <3>1. ASSUME NEW l \in Rows \ {k}, Active(l)'
          PROVE  /\ Active(l)
                 /\ shortcode'[l].tenant = shortcode[l].tenant
                 /\ shortcode'[l].number = shortcode[l].number
      BY <1>0, <2>1, <2>4, <3>1 DEF Active
    <3>2. ASSUME NEW l \in Rows \ {k}, Active(l)', Active(k)',
                 shortcode'[l].number = shortcode'[k].number
          PROVE  shortcode'[l].tenant = shortcode'[k].tenant
      <4>1. shortcode'[k] \in Row /\ status[shortcode'[k].tenant] = "active"
        BY <2>1, <2>4, <3>2 DEF Active, Row
      <4>2. HeldByActive(l, shortcode'[k].number)
        BY <3>1, <3>2 DEF Active, HeldByActive
      <4>3. ShortcodeTaken(k, shortcode'[k].tenant, shortcode'[k].number)
        BY <4>1, <4>2 DEF ShortcodeTaken
      <4>4. Active(k) /\ shortcode[k].number = shortcode[l].number
        BY <2>4, <3>1, <3>2, <4>1, <4>3 DEF Active
      <4> QED BY <1>0, <2>4, <3>1, <3>2, <4>3, <4>4 DEF UniqueActive
    <3>3. ASSUME NEW l \in Rows \ {k}, NEW m \in Rows \ {k}, Active(l)', Active(m)',
                 shortcode'[l].number = shortcode'[m].number
          PROVE  shortcode'[l].tenant = shortcode'[m].tenant
      BY <1>0, <3>1, <3>3 DEF UniqueActive
    <3> QED BY <3>2, <3>3 DEF UniqueActive
  <2> QED BY <1>0, <2>2, <2>3, <2>4, ShortcodesStay, OneRowWritten
<1> QED BY <1>1, <1>2

\* what the activation trigger looks at does not grow unless rows are written or a
\* status change commits
LEMMA TakenBefore ==
  ASSUME TypeInv, Next, \A r \in Requests : ~ commitUpdate(r),
         UNCHANGED shortcode \/ \E k \in Rows : removeShortcode(k),
         NEW t \in Tenants, ActivationTaken(t)'
  PROVE  ActivationTaken(t)
<1>1. \A u \in Tenants : status'[u] = "active" <=> status[u] = "active"
  BY ActiveStays
<1>2. \A k \in Rows : shortcode'[k] # NoRow => shortcode'[k] = shortcode[k]
  BY DEF removeShortcode, TypeInv, TypeOK
<1>3. \A k \in Rows : shortcode[k] # NoRow => shortcode[k].tenant \in Tenants
  BY DEF TypeInv, TypeOK, Row
<1>4. PICK mine \in Rows, theirs \in Rows :
        /\ shortcode'[mine] # NoRow /\ shortcode'[mine].tenant = t
        /\ shortcode'[theirs] # NoRow /\ shortcode'[theirs].number = shortcode'[mine].number
        /\ status'[shortcode'[theirs].tenant] = "active"
        /\ shortcode'[theirs].tenant # t
  BY DEF ActivationTaken, IsRowOf, HeldByActive
<1>5. status'[t] # "active"
  BY DEF ActivationTaken
<1>6. IsRowOf(mine, t) /\ HeldByActive(theirs, shortcode[mine].number) /\ ~ IsRowOf(theirs, t)
  BY <1>1, <1>2, <1>3, <1>4 DEF IsRowOf, HeldByActive
<1> QED BY <1>1, <1>5, <1>6 DEF ActivationTaken

LEMMA FreeStep ==
  ASSUME UniqueInv, Next, "overlap" \notin Faults
  PROVE  StillFree'
<1>0. TypeInv
  BY DEF UniqueInv
<1>1. ASSUME NEW r \in Requests, req'[r].stage = "commit", req'[r].to = "active",
             NEW t \in Tenants, req'[r].tenant = t
      PROVE  ~ ActivationTaken(t)'
  <2>1. CASE req'[r] = req[r]
    <3>1. ~ ActivationTaken(t)
      BY <1>1, <2>1 DEF UniqueInv, StillFree
    <3>2. ASSUME NEW s \in Requests, commitUpdate(s) PROVE FALSE
      <4>1. s = r
        BY <1>1, <2>1, <3>2 DEF UniqueInv, OneOpen, commitUpdate
      <4>2. req'[r] = Idle \/ req'[r] = [stage |-> "lookup", tenant |-> req[r].tenant]
        BY <1>0, <3>2, <4>1 DEF commitUpdate, GoesOn, TypeInv, TypeOK
      <4> QED BY <1>1, <4>2 DEF Idle
    <3>3. ~ NoneOpen
      BY <1>1, <2>1 DEF NoneOpen, May
    <3>4. UNCHANGED shortcode \/ \E k \in Rows : removeShortcode(k)
      BY <1>0, <3>3, ShortcodesStay, OneRowWritten
    <3> QED BY <1>0, <3>1, <3>2, <3>4, TakenBefore
  <2>2. CASE beginUpdate(r)
    <3>1. req[r] \in StatusRequest
      BY <1>0, <2>2, RequestShape DEF beginUpdate, TypeInv, TypeOK
    <3>2. /\ [req[r] EXCEPT !.stage = "commit"].tenant = req[r].tenant
          /\ [req[r] EXCEPT !.stage = "commit"].to = req[r].to
      BY <3>1, RequestsMade
    <3>3. req'[r] # Idle
      BY <1>1 DEF Idle
    <3>4. req'[r] = [req[r] EXCEPT !.stage = "commit"]
          /\ ~ (req[r].to = "active" /\ ActivationTaken(req[r].tenant))
      BY <1>0, <2>2, <3>3 DEF beginUpdate, Ends, GoesOn, TypeInv, TypeOK
    <3>5. ~ ActivationTaken(t)
      BY <1>1, <3>2, <3>4
    <3>6. UNCHANGED <<status, shortcode>>
      BY <2>2 DEF beginUpdate, tenancy
    <3> QED BY <3>5, <3>6 DEF ActivationTaken, IsRowOf, HeldByActive
  <2> QED BY <1>0, <1>1, <2>1, <2>2, CommitsOpen
<1>2. \A r \in Requests : req'[r].stage = "commit" => req'[r].tenant \in Tenants
  <2>1. TypeInv'
    BY <1>0, NextType
  <2> QED BY <2>1, RequestShape DEF TypeInv, TypeOK, StatusRequest
<1> QED BY <1>1, <1>2 DEF StillFree, ActivationTaken, IsRowOf, HeldByActive

\* If every transaction that may make two active tenants hold one number begins
\* after the status change before it has committed, none does, in whatever order
\* tenants are activated and shortcodes are added, edited and removed: the two
\* triggers together see every way to get there.
THEOREM ActiveShortcodesAreUnique ==
  ASSUME "overlap" \notin Faults
  PROVE  Spec => []ActiveShortcodeUnique
<1>1. Init => UniqueInv
  BY InitType DEF Init, UniqueInv, UniqueActive, OneOpen, StillFree, Active, Idle
<1>2. UniqueInv /\ [Next]_vars => UniqueInv'
  <2>1. UniqueInv /\ UNCHANGED vars => UniqueInv'
    BY NextType DEF vars, tenancy, UniqueInv, UniqueActive, OneOpen, StillFree, Active,
         ActivationTaken, IsRowOf, HeldByActive
  <2>2. UniqueInv /\ Next => UniqueInv'
    BY NextType, UniqueStep, OpenStep, FreeStep DEF UniqueInv
  <2> QED BY <2>1, <2>2
<1>3. UniqueInv => ActiveShortcodeUnique
  BY DEF UniqueInv, UniqueActive, Active, ActiveShortcodeUnique, matches, HeldByActive
<1> QED BY <1>1, <1>2, <1>3, PTL DEF Spec

-----------------------------------------------------------------------------
(* TenantDelivery: the notifications and the poller that sends them *)

LEMMA TailShifts ==
  ASSUME NEW S, NEW s \in Seq(S), s # <<>>
  PROVE  /\ Tail(s) \in Seq(S)
         /\ Len(s) \in Nat \ {0}
         /\ DOMAIN s = 1 .. Len(s)
         /\ DOMAIN Tail(s) = 1 .. (Len(s) - 1)
         /\ \A i \in DOMAIN Tail(s) : i + 1 \in DOMAIN s /\ Tail(s)[i] = s[i + 1]
         /\ Head(s) = s[1] /\ 1 \in DOMAIN s
         /\ Tail(s) = <<>> <=> Len(s) = 1
<1>1. /\ Head(s) \in S /\ Tail(s) \in Seq(S)
      /\ Len(Tail(s)) = Len(s) - 1
      /\ \A i \in 1 .. Len(Tail(s)) : Tail(s)[i] = s[i + 1]
  BY HeadTailProperties
<1>2. Len(s) \in Nat /\ DOMAIN s = 1 .. Len(s) /\ Len(s) # 0
  BY LenProperties, EmptySeq
<1>3. DOMAIN Tail(s) = 1 .. (Len(s) - 1)
  BY <1>1, LenProperties
<1>4. Head(s) = s[1]
  OBVIOUS
<1>5. Tail(s) = <<>> <=> Len(Tail(s)) = 0
  BY <1>1, EmptySeq
<1> QED BY <1>1, <1>2, <1>3, <1>4, <1>5

\* What is left after one position is taken out of a sequence without repetitions.
LEMMA RemoveAtProperties ==
  ASSUME NEW S, NEW s \in Seq(S), NEW i \in DOMAIN s,
         \A j, k \in DOMAIN s : s[j] = s[k] => j = k
  PROVE  LET t == RemoveAt(s, i)
         IN  /\ t \in Seq(S)
             /\ \A j \in DOMAIN t : t[j] # s[i] /\ \E k \in DOMAIN s : t[j] = s[k]
             /\ \A j, k \in DOMAIN t : t[j] = t[k] => j = k
<1> DEFINE n == Len(s)
           a == SubSeq(s, 1, i - 1)
           b == SubSeq(s, i + 1, n)
           t == RemoveAt(s, i)
<1>1. n \in Nat /\ DOMAIN s = 1 .. n /\ i \in 1 .. n /\ \A j \in 1 .. n : s[j] \in S
  BY LenProperties, ElementOfSeq
<1>2. /\ a \in Seq(S) /\ Len(a) = i - 1
      /\ \A j \in 1 .. i - 1 : a[j] = s[j]
  <2>1. \A j \in 1 .. i - 1 : s[j] \in S
    BY <1>1
  <2>2. /\ a \in Seq(S) /\ Len(a) = IF 1 <= i - 1 THEN (i - 1) - 1 + 1 ELSE 0
        /\ \A j \in 1 .. (i - 1) - 1 + 1 : a[j] = s[1 + j - 1]
    BY <1>1, <2>1, SubSeqProperties
  <2> QED BY <1>1, <2>2
<1>3. /\ b \in Seq(S) /\ Len(b) = n - i
      /\ \A j \in 1 .. n - i : b[j] = s[i + j]
  <2>1. \A j \in i + 1 .. n : s[j] \in S
    BY <1>1
  <2>2. /\ b \in Seq(S) /\ Len(b) = IF i + 1 <= n THEN n - (i + 1) + 1 ELSE 0
        /\ \A j \in 1 .. n - (i + 1) + 1 : b[j] = s[(i + 1) + j - 1]
    BY <1>1, <2>1, SubSeqProperties
  <2> QED BY <1>1, <2>2
<1>4. t = a \o b
  BY DEF RemoveAt
<1> HIDE DEF a, b, t, n
<1>5. /\ t \in Seq(S) /\ Len(t) = n - 1
      /\ \A j \in 1 .. n - 1 : t[j] = IF j <= i - 1 THEN a[j] ELSE b[j - (i - 1)]
  <2>1. /\ a \o b \in Seq(S) /\ Len(a \o b) = Len(a) + Len(b)
        /\ \A j \in 1 .. Len(a) + Len(b) :
             (a \o b)[j] = IF j <= Len(a) THEN a[j] ELSE b[j - Len(a)]
    <3>1. a \in Seq(S) /\ b \in Seq(S)
      BY <1>2, <1>3
    <3> QED BY <3>1, ConcatProperties, Zenon
  <2>2. Len(a) + Len(b) = n - 1
    BY <1>1, <1>2, <1>3
  <2> QED BY <1>2, <1>4, <2>1, <2>2
<1>6. DOMAIN t = 1 .. n - 1
  BY <1>5, LenProperties
<1> DEFINE old(j) == IF j <= i - 1 THEN j ELSE j + 1
<1>7. \A j \in DOMAIN t : old(j) \in DOMAIN s /\ old(j) # i /\ t[j] = s[old(j)]
  <2> SUFFICES ASSUME NEW j \in DOMAIN t
               PROVE  old(j) \in DOMAIN s /\ old(j) # i /\ t[j] = s[old(j)]
    OBVIOUS
  <2>1. CASE j <= i - 1
    BY <1>1, <1>2, <1>5, <1>6, <2>1
  <2>2. CASE ~ j <= i - 1
    <3>1. j - (i - 1) \in 1 .. n - i /\ i + (j - (i - 1)) = j + 1
      BY <1>1, <1>6, <2>2
    <3> QED BY <1>1, <1>3, <1>5, <1>6, <2>2, <3>1
  <2> QED BY <2>1, <2>2
<1>8. \A j, k \in DOMAIN t : old(j) = old(k) => j = k
  BY <1>1, <1>6
<1> HIDE DEF old
<1>9. \A j \in DOMAIN t : t[j] # s[i]
  BY <1>7
<1>10. \A j, k \in DOMAIN t : t[j] = t[k] => j = k
  BY <1>7, <1>8
<1> QED BY <1>5, <1>7, <1>9, <1>10 DEF t

\* The rows of the queue are PENDING, each is in it once, and a poller has a
\* batch of attempts that are left to make, except between two polls.
Queued ==
  /\ \A i \in DOMAIN due : deliveryStatus[due[i]] = "PENDING"
  /\ \A i, j \in DOMAIN due : due[i] = due[j] => i = j

Batched ==
  \A p \in Pollers :
    /\ stage[p] # "idle" => batch[p] # <<>>
    /\ \A i \in DOMAIN batch[p] : batch[p][i].attempts < MAX_ATTEMPTS

LeftToMake ==
  \A d \in Deliveries : deliveryStatus[d] \in {"none", "PENDING"} => attempts[d] < MAX_ATTEMPTS

DeliveryType == DeliveryTypeOK /\ Queued /\ Batched /\ LeftToMake

LEMMA DeliveryInitType ==
  DeliveryInit => DeliveryType
<1>1. \A S : <<>> \in Seq(S) /\ DOMAIN <<>> = {}
  BY EmptySeq
<1> QED BY <1>1, DeliveryAssumption DEF DeliveryInit, DeliveryType, DeliveryTypeOK,
       Queued, Batched, LeftToMake, Secrets, Stages

LEMMA LeavesQueued ==
  ASSUME due \in Seq(Deliveries), Queued, NEW d \in Deliveries, Leaves(d),
         \A e \in Deliveries \ {d} : deliveryStatus'[e] = deliveryStatus[e]
  PROVE  due' \in Seq(Deliveries) /\ Queued'
<1>0. DOMAIN due = 1 .. Len(due) /\ \A i \in DOMAIN due : due[i] \in Deliveries
  BY LenProperties, ElementOfSeq
<1>1. CASE d \notin ToSet(due) /\ UNCHANGED due
  <2>1. \A i \in DOMAIN due : due[i] # d
    BY <1>1 DEF ToSet
  <2> QED BY <1>0, <1>1, <2>1 DEF Queued
<1>2. ASSUME NEW i \in DOMAIN due, due[i] = d, due' = RemoveAt(due, i)
      PROVE  due' \in Seq(Deliveries) /\ Queued'
  <2>1. /\ due' \in Seq(Deliveries)
        /\ \A j \in DOMAIN due' : due'[j] # d /\ \E k \in DOMAIN due : due'[j] = due[k]
        /\ \A j, k \in DOMAIN due' : due'[j] = due'[k] => j = k
    BY <1>2, RemoveAtProperties DEF Queued
  <2> QED BY <1>0, <2>1 DEF Queued
<1> QED BY <1>1, <1>2 DEF Leaves

LEMMA JoinsQueued ==
  ASSUME due \in Seq(Deliveries), Queued, NEW d \in Deliveries, due' = Append(due, d),
         d \notin ToSet(due), deliveryStatus'[d] = "PENDING",
         \A e \in Deliveries \ {d} : deliveryStatus'[e] = deliveryStatus[e]
  PROVE  due' \in Seq(Deliveries) /\ Queued'
<1>1. /\ DOMAIN due = 1 .. Len(due) /\ Len(due) \in Nat
      /\ \A i \in DOMAIN due : due[i] \in Deliveries /\ due[i] # d
  BY LenProperties, ElementOfSeq DEF ToSet
<1>2. /\ due' \in Seq(Deliveries) /\ Len(due') = Len(due) + 1
      /\ \A i \in 1 .. Len(due) : due'[i] = due[i]
      /\ due'[Len(due) + 1] = d
  BY AppendProperties
<1>3. DOMAIN due' = 1 .. Len(due')
  BY <1>2, LenProperties
<1> QED BY <1>1, <1>2, <1>3 DEF Queued

LEMMA PrefixProperties ==
  ASSUME NEW S, NEW s \in Seq(S), NEW n \in Nat, n <= Len(s)
  PROVE  /\ SubSeq(s, 1, n) \in Seq(S)
         /\ DOMAIN SubSeq(s, 1, n) = 1 .. n
         /\ \A i \in 1 .. n : SubSeq(s, 1, n)[i] = s[i] /\ i \in DOMAIN s
<1> DEFINE t == SubSeq(s, 1, n)
<1>1. DOMAIN s = 1 .. Len(s) /\ Len(s) \in Nat /\ \A i \in 1 .. Len(s) : s[i] \in S
  BY LenProperties, ElementOfSeq
<1>2. \A i \in 1 .. n : i \in DOMAIN s /\ s[i] \in S
  BY <1>1
<1>3. /\ t \in Seq(S) /\ Len(t) = IF 1 <= n THEN n - 1 + 1 ELSE 0
      /\ \A i \in 1 .. n - 1 + 1 : t[i] = s[1 + i - 1]
  BY <1>2, SubSeqProperties
<1> HIDE DEF t
<1>4. Len(t) = n /\ \A i \in 1 .. n : t[i] = s[i]
  BY <1>3
<1>5. DOMAIN t = 1 .. n
  BY <1>3, <1>4, LenProperties
<1> QED BY <1>2, <1>3, <1>4, <1>5 DEF t

\* What a poll reads: due rows, each once.
LEMMA ReadyIsDue ==
  ASSUME DeliveryType
  PROVE  LET ready == SubSeq(due, 1, IF Len(due) < BATCH THEN Len(due) ELSE BATCH)
         IN  /\ ready \in Seq(Deliveries)
             /\ \A i \in DOMAIN ready : /\ ready[i] \in Deliveries
                                        /\ deliveryStatus[ready[i]] = "PENDING"
             /\ \A i, j \in DOMAIN ready : ready[i] = ready[j] => i = j
<1> DEFINE n == IF Len(due) < BATCH THEN Len(due) ELSE BATCH
           ready == SubSeq(due, 1, n)
<1>1. due \in Seq(Deliveries) /\ n \in Nat /\ n <= Len(due)
  BY LenProperties, DeliveryAssumption DEF DeliveryType, DeliveryTypeOK
<1>2. \A i \in DOMAIN due : due[i] \in Deliveries
  BY <1>1, LenProperties, ElementOfSeq
<1> HIDE DEF n
<1>3. /\ ready \in Seq(Deliveries) /\ DOMAIN ready = 1 .. n
      /\ \A i \in 1 .. n : ready[i] = due[i] /\ i \in DOMAIN due
  BY <1>1, PrefixProperties
<1> HIDE DEF ready
<1>4. /\ ready \in Seq(Deliveries)
      /\ \A i \in DOMAIN ready : ready[i] \in Deliveries /\ deliveryStatus[ready[i]] = "PENDING"
      /\ \A i, j \in DOMAIN ready : ready[i] = ready[j] => i = j
  BY <1>2, <1>3 DEF DeliveryType, Queued
<1> QED BY <1>4 DEF ready, n

LEMMA CurrentIsFirst ==
  ASSUME DeliveryType, NEW p \in Pollers, stage[p] # "idle"
  PROVE  /\ batch[p] \in Seq(Snapshot) /\ batch[p] # <<>>
         /\ 1 \in DOMAIN batch[p] /\ current(p) = batch[p][1]
         /\ batch[p][1] \in Snapshot /\ batch[p][1].key \in Deliveries
         /\ batch[p][1].attempts \in Nat /\ batch[p][1].attempts < MAX_ATTEMPTS
<1>1. batch[p] \in Seq(Snapshot) /\ batch[p] # <<>>
  BY DEF DeliveryType, DeliveryTypeOK, Batched
<1>2. Head(batch[p]) = batch[p][1] /\ 1 \in DOMAIN batch[p]
  BY <1>1, TailShifts
<1>3. batch[p][1] \in Snapshot
  BY <1>1, <1>2, ElementOfSeq, LenProperties
<1> QED BY <1>1, <1>2, <1>3 DEF DeliveryType, Batched, current, Snapshot

LEMMA StageMoves ==
  ASSUME DeliveryType, NEW p \in Pollers, stage[p] # "idle",
         NEW to \in Stages, to # "idle", Stage(p, to)
  PROVE  /\ stage' \in [Pollers -> Stages] /\ stage'[p] = to
         /\ \A q \in Pollers \ {p} : stage'[q] = stage[q]
         /\ batch' = batch /\ Batched'
  BY DEF Stage, DeliveryType, DeliveryTypeOK, Batched

LEMMA AdvanceMoves ==
  ASSUME DeliveryType, NEW p \in Pollers, stage[p] # "idle", Advance(p)
  PROVE  /\ batch' \in [Pollers -> Seq(Snapshot)]
         /\ stage' \in [Pollers -> Stages] /\ stage'[p] \in {"idle", "attempt"}
         /\ batch'[p] = Tail(batch[p])
         /\ \A q \in Pollers \ {p} : stage'[q] = stage[q] /\ batch'[q] = batch[q]
         /\ Batched'
<1>1. batch[p] \in Seq(Snapshot) /\ batch[p] # <<>>
  BY CurrentIsFirst
<1>2. /\ Tail(batch[p]) \in Seq(Snapshot)
      /\ \A i \in DOMAIN Tail(batch[p]) :
           i + 1 \in DOMAIN batch[p] /\ Tail(batch[p])[i] = batch[p][i + 1]
      /\ Tail(batch[p]) = <<>> <=> Len(batch[p]) = 1
  BY <1>1, TailShifts
<1>3. /\ batch' = [batch EXCEPT ![p] = Tail(batch[p])]
      /\ stage' = [stage EXCEPT ![p] = IF Len(batch[p]) = 1 THEN "idle" ELSE "attempt"]
  BY DEF Advance
<1>4. /\ batch' \in [Pollers -> Seq(Snapshot)] /\ batch'[p] = Tail(batch[p])
      /\ \A q \in Pollers \ {p} : stage'[q] = stage[q] /\ batch'[q] = batch[q]
      /\ stage' \in [Pollers -> Stages]
      /\ stage'[p] = IF Len(batch[p]) = 1 THEN "idle" ELSE "attempt"
  BY <1>2, <1>3 DEF DeliveryType, DeliveryTypeOK, Stages
<1>5. stage'[p] # "idle" => batch'[p] # <<>>
  BY <1>2, <1>4
<1>6. \A i \in DOMAIN batch'[p] : batch'[p][i].attempts < MAX_ATTEMPTS
  BY <1>2, <1>4 DEF DeliveryType, Batched
<1>7. Batched'
  BY <1>4, <1>5, <1>6 DEF DeliveryType, Batched
<1> QED BY <1>4, <1>7

LEMMA AbortMoves ==
  ASSUME DeliveryType, NEW p \in Pollers, Abort(p)
  PROVE  /\ batch' \in [Pollers -> Seq(Snapshot)]
         /\ stage' \in [Pollers -> Stages] /\ stage'[p] = "idle"
         /\ batch'[p] = <<>>
         /\ \A q \in Pollers \ {p} : stage'[q] = stage[q] /\ batch'[q] = batch[q]
         /\ Batched'
<1>1. <<>> \in Seq(Snapshot) /\ DOMAIN <<>> = {}
  BY EmptySeq
<1> QED BY <1>1 DEF Abort, DeliveryType, DeliveryTypeOK, Stages, Batched

LEMMA PollType ==
  ASSUME DeliveryType,
         NEW p \in Pollers, pollPendingDeliveries(p)
  PROVE  /\ DeliveryType'
         /\ stage'[p] = "attempt"
         /\ \A i \in DOMAIN batch'[p] :
              /\ batch'[p][i].key \in Deliveries /\ deliveryStatus[batch'[p][i].key] = "PENDING"
              /\ batch'[p][i].attempts = attempts[batch'[p][i].key]
         /\ \A i, j \in DOMAIN batch'[p] : batch'[p][i].key = batch'[p][j].key => i = j
         /\ \A q \in Pollers \ {p} : stage'[q] = stage[q] /\ batch'[q] = batch[q]
<1> DEFINE ready == SubSeq(due, 1, IF Len(due) < BATCH THEN Len(due) ELSE BATCH)
           read == [i \in DOMAIN ready |->
                      [key |-> ready[i], attempts |-> attempts[ready[i]],
                       secret |-> secret[TenantOf[ready[i]]]]]
<1>1. /\ ready \in Seq(Deliveries)
      /\ \A i \in DOMAIN ready : ready[i] \in Deliveries /\ deliveryStatus[ready[i]] = "PENDING"
      /\ \A i, j \in DOMAIN ready : ready[i] = ready[j] => i = j
  BY ReadyIsDue
<1>2. /\ ready # <<>>
      /\ batch' = [batch EXCEPT ![p] = read]
      /\ stage' = [stage EXCEPT ![p] = "attempt"]
      /\ UNCHANGED <<secret, deliveryStatus, attempts, lastError, due, posts, acked, alerted>>
  BY DEF pollPendingDeliveries, rows, outside
<1> HIDE DEF ready
<1>3. DOMAIN ready = 1 .. Len(ready) /\ Len(ready) \in Nat /\ Len(ready) # 0
  BY <1>1, <1>2, LenProperties, EmptySeq
<1>4. \A i \in DOMAIN ready : read[i] \in Snapshot /\ read[i].attempts < MAX_ATTEMPTS
  BY <1>1, DeliveryAssumption
     DEF DeliveryType, DeliveryTypeOK, LeftToMake, Snapshot, Addressees
<1>5. read \in Seq(Snapshot) /\ DOMAIN read = DOMAIN ready
  BY <1>3, <1>4, IsASeq
<1>6. read # <<>>
  <2>1. 1 \in DOMAIN read
    BY <1>3, <1>5
  <2>2. 1 \notin DOMAIN <<>>
    OBVIOUS
  <2> HIDE DEF read
  <2> QED BY <2>1, <2>2
<1>7. /\ batch'[p] = read /\ stage'[p] = "attempt"
      /\ \A q \in Pollers \ {p} : stage'[q] = stage[q] /\ batch'[q] = batch[q]
      /\ batch' \in [Pollers -> Seq(Snapshot)]
      /\ stage' \in [Pollers -> Stages]
  BY <1>2, <1>5 DEF DeliveryType, DeliveryTypeOK, Stages
<1>8. \A i \in DOMAIN ready : read[i].key = ready[i] /\ read[i].attempts = attempts[ready[i]]
  OBVIOUS
<1> HIDE DEF read
<1>9. Batched'
  BY <1>4, <1>5, <1>6, <1>7 DEF DeliveryType, Batched
<1>10. DeliveryTypeOK' /\ Queued' /\ LeftToMake'
  BY <1>2, <1>7 DEF DeliveryType, DeliveryTypeOK, Queued, LeftToMake
<1>11. DeliveryType'
  BY <1>9, <1>10 DEF DeliveryType
<1> QED BY <1>1, <1>5, <1>7, <1>8, <1>11

LEMMA RowsType ==
  ASSUME DeliveryType, NEW d \in Deliveries,
         enqueueWebhookDelivery(d) \/ BecomesDue(d)
  PROVE  DeliveryType'
<1>0. due \in Seq(Deliveries) /\ Queued
  BY DEF DeliveryType, DeliveryTypeOK
<1>1. UNCHANGED <<secret, attempts, lastError, posts, acked, alerted, batch, stage>>
      /\ due' = Append(due, d)
  BY DEF enqueueWebhookDelivery, BecomesDue, outside
<1>2. /\ deliveryStatus' \in [Deliveries -> {"none", "PENDING", "DELIVERED", "FAILED"}]
      /\ deliveryStatus'[d] = "PENDING" /\ deliveryStatus[d] \in {"none", "PENDING"}
      /\ \A e \in Deliveries \ {d} : deliveryStatus'[e] = deliveryStatus[e]
  BY DEF enqueueWebhookDelivery, BecomesDue, DeliveryType, DeliveryTypeOK
<1>3. d \notin ToSet(due)
  BY DEF enqueueWebhookDelivery, BecomesDue, DeliveryType, Queued,
       ToSet
<1>4. due' \in Seq(Deliveries) /\ Queued'
  BY <1>0, <1>1, <1>2, <1>3, JoinsQueued
<1>5. DeliveryTypeOK'
  BY <1>1, <1>2, <1>4 DEF DeliveryType, DeliveryTypeOK
<1>6. Batched' /\ LeftToMake'
  BY <1>1, <1>2 DEF DeliveryType, Batched, LeftToMake
<1> QED BY <1>4, <1>5, <1>6 DEF DeliveryType

LEMMA SecretsType ==
  ASSUME DeliveryType,
         KeyChanges
           \/ \E t \in Addressees : configureWebhook(t) \/ ConfigRemoved(t)
  PROVE  DeliveryType'
<1>1. UNCHANGED <<deliveryStatus, attempts, lastError, due, posts, acked, alerted, batch, stage>>
  BY DEF KeyChanges, configureWebhook, ConfigRemoved,
       rows, outside
<1>2. secret' \in [Addressees -> Secrets]
  BY DEF KeyChanges, configureWebhook, ConfigRemoved,
       DeliveryType, DeliveryTypeOK, Secrets
<1> QED BY <1>1, <1>2 DEF DeliveryType, DeliveryTypeOK, Queued, Batched, LeftToMake

LEMMA giveUpType ==
  ASSUME DeliveryType, NEW p \in Pollers, giveUpUnconfigured(p)
  PROVE  DeliveryType'
<1> DEFINE d == current(p).key
<1>1. d \in Deliveries
  BY CurrentIsFirst DEF giveUpUnconfigured
<1>2. stage[p] = "attempt" /\ UNCHANGED <<secret, attempts, posts, acked, alerted>>
  BY DEF giveUpUnconfigured, outside
<1>3. CASE /\ deliveryStatus' = [deliveryStatus EXCEPT ![d] = "FAILED"]
           /\ lastError' = [lastError EXCEPT ![d] = "unconfigured"]
           /\ Leaves(d)
           /\ Advance(p)
  <2> HIDE DEF d
  <2>1. /\ batch' \in [Pollers -> Seq(Snapshot)]
        /\ stage' \in [Pollers -> Stages] /\ Batched'
    BY <1>2, <1>3, AdvanceMoves
  <2>2. /\ deliveryStatus' \in [Deliveries -> {"none", "PENDING", "DELIVERED", "FAILED"}]
        /\ lastError' \in [Deliveries -> {"none", "failure", "unconfigured"}]
        /\ deliveryStatus'[d] = "FAILED" /\ \A e \in Deliveries \ {d} : deliveryStatus'[e] = deliveryStatus[e]
    BY <1>1, <1>3 DEF DeliveryType, DeliveryTypeOK
  <2>3. due' \in Seq(Deliveries) /\ Queued'
    BY <1>1, <1>3, <2>2, LeavesQueued DEF DeliveryType, DeliveryTypeOK
  <2>4. LeftToMake'
    BY <1>1, <1>2, <2>2 DEF DeliveryType, LeftToMake
  <2> QED BY <1>2, <2>1, <2>2, <2>3, <2>4 DEF DeliveryType, DeliveryTypeOK
<1>4. CASE Abort(p) /\ UNCHANGED <<deliveryStatus, lastError, due>>
  BY <1>2, <1>4, AbortMoves DEF DeliveryType, DeliveryTypeOK, Queued, LeftToMake
<1> QED BY <1>3, <1>4 DEF giveUpUnconfigured

LEMMA PostType ==
  ASSUME DeliveryType, NEW p \in Pollers, post(p)
  PROVE  DeliveryType'
<1> DEFINE d == current(p).key
<1>1. d \in Deliveries /\ stage[p] # "idle"
  BY CurrentIsFirst DEF post
<1>2. /\ UNCHANGED <<secret, deliveryStatus, attempts, lastError, due, alerted>>
      /\ posts' = [posts EXCEPT ![d] = IF @ < MAX_ATTEMPTS THEN @ + 1 ELSE @]
      /\ acked' \subseteq acked \cup {d}
      /\ Stage(p, "ok") \/ Stage(p, "failed")
  BY DEF post, rows
<1> HIDE DEF d
<1>3. posts' \in [Deliveries -> 0 .. MAX_ATTEMPTS] /\ acked' \subseteq Deliveries
  BY <1>1, <1>2, DeliveryAssumption DEF DeliveryType, DeliveryTypeOK
<1>4. stage' \in [Pollers -> Stages] /\ batch' = batch /\ Batched'
  BY <1>1, <1>2, StageMoves DEF Stages
<1> QED BY <1>2, <1>3, <1>4 DEF DeliveryType, DeliveryTypeOK, Queued, LeftToMake

LEMMA markDeliveredType ==
  ASSUME DeliveryType, NEW p \in Pollers, markDelivered(p)
  PROVE  DeliveryType'
<1> DEFINE d == current(p).key
<1>1. d \in Deliveries /\ stage[p] # "idle"
  BY CurrentIsFirst DEF markDelivered
<1>2. UNCHANGED <<secret, attempts, lastError, posts, acked, alerted>>
  BY DEF markDelivered, outside
<1>3. CASE /\ deliveryStatus' = [deliveryStatus EXCEPT ![d] = "DELIVERED"]
           /\ Leaves(d) /\ Advance(p)
  <2> HIDE DEF d
  <2>1. /\ batch' \in [Pollers -> Seq(Snapshot)]
        /\ stage' \in [Pollers -> Stages] /\ Batched'
    BY <1>1, <1>3, AdvanceMoves
  <2>2. /\ deliveryStatus' \in [Deliveries -> {"none", "PENDING", "DELIVERED", "FAILED"}]
        /\ deliveryStatus'[d] = "DELIVERED" /\ \A e \in Deliveries \ {d} : deliveryStatus'[e] = deliveryStatus[e]
    BY <1>1, <1>3 DEF DeliveryType, DeliveryTypeOK
  <2>3. due' \in Seq(Deliveries) /\ Queued'
    BY <1>1, <1>3, <2>2, LeavesQueued DEF DeliveryType, DeliveryTypeOK
  <2>4. LeftToMake'
    BY <1>1, <1>2, <2>2 DEF DeliveryType, LeftToMake
  <2> QED BY <1>2, <2>1, <2>2, <2>3, <2>4 DEF DeliveryType, DeliveryTypeOK
<1>4. CASE Stage(p, "failed") /\ UNCHANGED <<deliveryStatus, due>>
  <2>1. stage' \in [Pollers -> Stages] /\ batch' = batch /\ Batched'
    BY <1>1, <1>4, StageMoves DEF Stages
  <2> QED BY <1>2, <1>4, <2>1 DEF DeliveryType, DeliveryTypeOK, Queued, LeftToMake
<1> QED BY <1>3, <1>4 DEF markDelivered

LEMMA recordFailureType ==
  ASSUME DeliveryType,
         NEW p \in Pollers, recordFailure(p)
  PROVE  DeliveryType'
<1> DEFINE d == current(p).key
           counted == current(p).attempts + 1
<1>1. d \in Deliveries /\ stage[p] # "idle" /\ counted \in 1 .. MAX_ATTEMPTS
  BY CurrentIsFirst, DeliveryAssumption DEF recordFailure
<1>2. UNCHANGED <<secret, posts, acked, alerted>>
  BY DEF recordFailure, outside
<1>3. CASE /\ attempts' = [attempts EXCEPT ![d] = counted]
           /\ lastError' = [lastError EXCEPT ![d] = "failure"]
           /\ Leaves(d)
           /\ IF counted >= MAX_ATTEMPTS
              THEN deliveryStatus' = [deliveryStatus EXCEPT ![d] = "FAILED"] /\ Stage(p, "alert")
              ELSE UNCHANGED deliveryStatus /\ Advance(p)
  <2> HIDE DEF d, counted
  <2>1. /\ batch' \in [Pollers -> Seq(Snapshot)]
        /\ stage' \in [Pollers -> Stages] /\ Batched'
    <3>1. CASE Stage(p, "alert")
      BY <1>1, <3>1, StageMoves DEF Stages, DeliveryType, DeliveryTypeOK
    <3>2. CASE Advance(p)
      BY <1>1, <3>2, AdvanceMoves
    <3> QED BY <1>3, <3>1, <3>2
  <2>2. /\ deliveryStatus' \in [Deliveries -> {"none", "PENDING", "DELIVERED", "FAILED"}]
        /\ \A e \in Deliveries \ {d} : deliveryStatus'[e] = deliveryStatus[e] /\ attempts'[e] = attempts[e]
        /\ attempts' \in [Deliveries -> 0 .. MAX_ATTEMPTS] /\ attempts'[d] = counted
        /\ lastError' \in [Deliveries -> {"none", "failure", "unconfigured"}]
        /\ counted < MAX_ATTEMPTS \/ deliveryStatus'[d] = "FAILED"
    <3>1. counted \in 0 .. MAX_ATTEMPTS /\ (counted < MAX_ATTEMPTS \/ counted >= MAX_ATTEMPTS)
      BY <1>1, DeliveryAssumption
    <3> QED BY <1>1, <1>3, <3>1 DEF DeliveryType, DeliveryTypeOK
  <2>3. due' \in Seq(Deliveries) /\ Queued'
    BY <1>1, <1>3, <2>2, LeavesQueued DEF DeliveryType, DeliveryTypeOK
  <2>4. LeftToMake'
    BY <1>1, <2>2 DEF DeliveryType, LeftToMake
  <2> QED BY <1>2, <2>1, <2>2, <2>3, <2>4 DEF DeliveryType, DeliveryTypeOK
<1>4. CASE Abort(p) /\ UNCHANGED rows
  BY <1>2, <1>4, AbortMoves
     DEF rows, DeliveryType, DeliveryTypeOK, Queued, LeftToMake
<1> QED BY <1>3, <1>4 DEF recordFailure

LEMMA SendAlertType ==
  ASSUME DeliveryType, NEW p \in Pollers, sendAlert(p)
  PROVE  DeliveryType'
<1>1. current(p).key \in Deliveries
  BY CurrentIsFirst DEF sendAlert
<1>2. alerted' \in [Deliveries -> Nat]
  BY <1>1 DEF sendAlert, DeliveryType, DeliveryTypeOK
<1> QED BY <1>2, AdvanceMoves
           DEF sendAlert, rows, DeliveryType, DeliveryTypeOK, Queued, LeftToMake

LEMMA DeliveryNextType ==
  ASSUME DeliveryType, [DeliveryNext]_deliveryVars
  PROVE  DeliveryType'
<1>1. CASE UNCHANGED deliveryVars
  BY <1>1 DEF deliveryVars, rows, outside, DeliveryType, DeliveryTypeOK,
       Queued, Batched, LeftToMake
<1>2. ASSUME NEW p \in Pollers, decrypt(p) \/ PollDies(p)
      PROVE  DeliveryType'
  BY <1>2, AbortMoves DEF decrypt, PollDies, rows, outside,
       DeliveryType, DeliveryTypeOK, Queued, LeftToMake
<1>3. ASSUME NEW p \in Pollers, pollPendingDeliveries(p)
                                  \/ attemptDelivery(p) \/ PollDies(p)
      PROVE  DeliveryType'
  BY <1>2, <1>3, PollType, giveUpType, PostType, markDeliveredType, recordFailureType,
     SendAlertType DEF attemptDelivery
<1> QED BY <1>1, <1>3, RowsType, SecretsType DEF DeliveryNext

\* Every column of a notification and of a poller's copy stays in its range, for
\* any number of processes: no attempt is counted beyond MAX_ATTEMPTS, though it
\* is counted from the copy.
THEOREM DeliveryTypeCorrect ==
  DeliverySpec => []DeliveryTypeOK
<1>1. DeliveryType => DeliveryTypeOK
  BY DEF DeliveryType
<1>2. DeliveryType /\ [DeliveryNext]_deliveryVars => DeliveryType'
  BY DeliveryNextType
<1> QED BY <1>1, <1>2, DeliveryInitType, PTL DEF DeliverySpec

-----------------------------------------------------------------------------
(* Any number of processes poll, and overwrite each other's columns *)

Key(p, i) == batch[p][i].key

Counted == \A d \in Deliveries : attempts[d] <= posts[d]

\* What a poller has in its hands it has from POSTs that were sent: the attempts
\* of its copies, the one that has just failed, and the acknowledgement.
Backed(p) ==
  /\ \A i \in DOMAIN batch[p] : batch[p][i].attempts <= posts[Key(p, i)]
  /\ stage[p] \in {"ok", "failed"} => batch[p][1].attempts < posts[Key(p, 1)]
  /\ stage[p] = "ok" => Key(p, 1) \in acked

BackedInv == DeliveryType /\ Counted /\ \A p \in Pollers : Backed(p)

LEMMA EntryType ==
  ASSUME DeliveryType, NEW p \in Pollers, NEW i \in DOMAIN batch[p]
  PROVE  Key(p, i) \in Deliveries /\ batch[p][i].attempts \in Nat
<1>1. batch[p] \in Seq(Snapshot)
  BY DEF DeliveryType, DeliveryTypeOK
<1>2. batch[p][i] \in Snapshot
  BY <1>1, ElementOfSeq, LenProperties
<1> QED BY <1>2 DEF Snapshot, Key

LEMMA CurrentIsBacked ==
  ASSUME BackedInv, NEW p \in Pollers, stage[p] # "idle"
  PROVE  /\ current(p).key = Key(p, 1) /\ Key(p, 1) \in Deliveries
         /\ current(p).attempts = batch[p][1].attempts /\ 1 \in DOMAIN batch[p]
         /\ batch[p][1].attempts \in Nat /\ batch[p][1].attempts < MAX_ATTEMPTS
         /\ Backed(p)
  BY CurrentIsFirst DEF BackedInv, Key

\* POSTs and acknowledgements are never taken back, so what another poller does
\* leaves a poller backed.
LEMMA StaysBacked ==
  ASSUME BackedInv, DeliveryType', Counted', NEW p \in Pollers, Backed(p)',
         \A d \in Deliveries : posts[d] <= posts'[d], acked \subseteq acked',
         \A q \in Pollers \ {p} : batch'[q] = batch[q] /\ stage'[q] = stage[q]
  PROVE  BackedInv'
<1> SUFFICES ASSUME NEW q \in Pollers, q # p PROVE Backed(q)'
  BY DEF BackedInv
<1>1. batch'[q] = batch[q] /\ stage'[q] = stage[q] /\ Backed(q)
  BY DEF BackedInv
<1>2. \A d \in Deliveries : posts[d] \in Nat /\ posts'[d] \in Nat /\ posts[d] <= posts'[d]
  BY DEF BackedInv, DeliveryType, DeliveryTypeOK
<1>3. \A i \in DOMAIN batch[q] : Key(q, i) \in Deliveries /\ batch[q][i].attempts \in Nat
  BY EntryType DEF BackedInv
<1>4. stage[q] # "idle" => 1 \in DOMAIN batch[q]
  BY CurrentIsFirst DEF BackedInv
<1>5. \A i \in DOMAIN batch[q] : batch[q][i].attempts <= posts'[Key(q, i)]
  BY <1>1, <1>2, <1>3 DEF Backed
<1>6. stage[q] \in {"ok", "failed"} => batch[q][1].attempts < posts'[Key(q, 1)]
  BY <1>1, <1>2, <1>3, <1>4 DEF Backed
<1> QED BY <1>1, <1>5, <1>6 DEF Backed, Key

LEMMA AdvanceBacked ==
  ASSUME BackedInv, NEW p \in Pollers, stage[p] # "idle", Advance(p), UNCHANGED posts
  PROVE  Backed(p)'
<1>1. DeliveryType /\ Backed(p)
  BY DEF BackedInv
<1>2. batch[p] \in Seq(Snapshot) /\ batch[p] # <<>>
  BY <1>1, CurrentIsFirst
<1>3. \A i \in DOMAIN Tail(batch[p]) :
        i + 1 \in DOMAIN batch[p] /\ Tail(batch[p])[i] = batch[p][i + 1]
  BY <1>2, TailShifts
<1>4. batch'[p] = Tail(batch[p]) /\ stage'[p] \in {"idle", "attempt"}
  BY <1>1, AdvanceMoves
<1> QED BY <1>1, <1>3, <1>4 DEF Backed, Key

LEMMA AbortBacked ==
  ASSUME DeliveryType, NEW p \in Pollers, Abort(p)
  PROVE  Backed(p)'
<1>1. batch'[p] = <<>> /\ stage'[p] = "idle"
  BY AbortMoves
<1>2. DOMAIN <<>> = {}
  OBVIOUS
<1> QED BY <1>1, <1>2 DEF Backed

\* A step that sends nothing and counts nothing.
LEMMA QuietBacked ==
  ASSUME BackedInv, DeliveryType', NEW p \in Pollers, stage[p] # "idle",
         UNCHANGED <<attempts, posts, acked>>,
         Advance(p) \/ Abort(p)
  PROVE  BackedInv'
<1>1. Backed(p)'
  BY AdvanceBacked, AbortBacked DEF BackedInv
<1>2. \A q \in Pollers \ {p} : batch'[q] = batch[q] /\ stage'[q] = stage[q]
  BY AdvanceMoves, AbortMoves DEF BackedInv
<1>3. Counted' /\ \A d \in Deliveries : posts[d] <= posts'[d]
  BY DEF BackedInv, Counted, DeliveryType, DeliveryTypeOK
<1> QED BY <1>1, <1>2, <1>3, StaysBacked

LEMMA PostBacked ==
  ASSUME BackedInv, NEW p \in Pollers, post(p)
  PROVE  BackedInv'
<1> DEFINE d == Key(p, 1)
<1>1. /\ d \in Deliveries /\ stage[p] = "attempt" /\ current(p).key = d
      /\ batch[p][1].attempts \in Nat /\ batch[p][1].attempts < MAX_ATTEMPTS
      /\ batch[p][1].attempts <= posts[d]
  BY CurrentIsBacked DEF post, Backed
<1>2. /\ UNCHANGED attempts
      /\ posts' = [posts EXCEPT ![d] = IF @ < MAX_ATTEMPTS THEN @ + 1 ELSE @]
      /\ \/ acked' = acked \cup {d} /\ Stage(p, "ok")
         \/ UNCHANGED acked /\ Stage(p, "failed")
  BY <1>1 DEF post, rows
<1>3. DeliveryType' /\ DeliveryType
  BY PostType DEF BackedInv
<1>4. /\ batch' = batch /\ stage'[p] \in {"ok", "failed"}
      /\ \A q \in Pollers \ {p} : stage'[q] = stage[q]
      /\ stage'[p] = "ok" => d \in acked'
      /\ acked \subseteq acked'
  BY <1>1, <1>2, <1>3, StageMoves DEF Stages
<1> HIDE DEF d
<1>5. MAX_ATTEMPTS \in Nat /\ \A e \in Deliveries : posts[e] \in 0 .. MAX_ATTEMPTS
  BY <1>3, DeliveryAssumption DEF DeliveryType, DeliveryTypeOK
<1>6. /\ posts'[d] = (IF posts[d] < MAX_ATTEMPTS THEN posts[d] + 1 ELSE posts[d])
      /\ \A e \in Deliveries \ {d} : posts'[e] = posts[e]
  BY <1>1, <1>2, <1>3 DEF DeliveryType, DeliveryTypeOK
<1>7. batch[p][1].attempts < posts'[d]
  BY <1>1, <1>5, <1>6
<1>8. \A e \in Deliveries : posts[e] \in Nat /\ posts'[e] \in Nat /\ posts[e] <= posts'[e]
  BY <1>5, <1>6
<1>9. \A i \in DOMAIN batch[p] : batch[p][i].attempts <= posts'[Key(p, i)]
  <2>1. \A i \in DOMAIN batch[p] :
          /\ Key(p, i) \in Deliveries /\ batch[p][i].attempts \in Nat
          /\ batch[p][i].attempts <= posts[Key(p, i)]
    BY <1>3, EntryType DEF BackedInv, Backed
  <2> QED BY <1>8, <2>1
<1>10. Backed(p)'
  BY <1>4, <1>7, <1>9 DEF Backed, Key, d
<1>11. Counted'
  <2>1. \A e \in Deliveries : attempts[e] \in Nat /\ attempts[e] <= posts[e]
    BY <1>3 DEF BackedInv, Counted, DeliveryType, DeliveryTypeOK
  <2> QED BY <1>2, <1>8, <2>1 DEF Counted
<1> QED BY <1>3, <1>4, <1>8, <1>10, <1>11, StaysBacked

LEMMA recordFailureBacked ==
  ASSUME BackedInv, NEW p \in Pollers, recordFailure(p)
  PROVE  BackedInv'
<1> DEFINE d == Key(p, 1)
           counted == batch[p][1].attempts + 1
<1>1. /\ d \in Deliveries /\ stage[p] = "failed"
      /\ current(p).key = d /\ current(p).attempts = batch[p][1].attempts
      /\ batch[p][1].attempts \in Nat /\ batch[p][1].attempts < posts[d]
  BY CurrentIsBacked DEF recordFailure, Backed
<1>2. DeliveryType' /\ DeliveryType /\ UNCHANGED <<posts, acked>>
  BY recordFailureType DEF BackedInv, recordFailure, outside
<1>3. \A e \in Deliveries : posts[e] \in Nat /\ posts[e] <= posts'[e]
  BY <1>2 DEF DeliveryType, DeliveryTypeOK
<1>4. CASE /\ attempts' = [attempts EXCEPT ![d] = counted]
           /\ Stage(p, "alert") \/ Advance(p)
  <2>1. Counted'
    <3>1. counted <= posts[d]
      BY <1>1, <1>3
    <3> HIDE DEF d, counted
    <3>2. attempts'[d] = counted /\ \A e \in Deliveries \ {d} : attempts'[e] = attempts[e]
      BY <1>1, <1>2, <1>4 DEF DeliveryType, DeliveryTypeOK
    <3> QED BY <1>2, <3>1, <3>2 DEF BackedInv, Counted
  <2>2. CASE Stage(p, "alert")
    <3>1. /\ batch' = batch /\ stage'[p] = "alert"
          /\ \A q \in Pollers \ {p} : stage'[q] = stage[q]
      BY <1>1, <1>2, <2>2, StageMoves DEF Stages
    <3>2. Backed(p)'
      BY <1>2, <3>1 DEF BackedInv, Backed, Key
    <3> QED BY <1>2, <1>3, <2>1, <3>1, <3>2, StaysBacked
  <2>3. CASE Advance(p)
    <3>1. Backed(p)'
      BY <1>1, <1>2, <2>3, AdvanceBacked
    <3>2. \A q \in Pollers \ {p} : batch'[q] = batch[q] /\ stage'[q] = stage[q]
      BY <1>1, <1>2, <2>3, AdvanceMoves
    <3> QED BY <1>2, <1>3, <2>1, <3>1, <3>2, StaysBacked
  <2> QED BY <1>4, <2>2, <2>3
<1>5. CASE Abort(p) /\ UNCHANGED rows
  BY <1>1, <1>2, <1>5, QuietBacked DEF rows
<1> QED BY <1>1, <1>4, <1>5 DEF recordFailure

LEMMA DeliveryNextBacked ==
  ASSUME BackedInv, [DeliveryNext]_deliveryVars
  PROVE  BackedInv'
<1>0. DeliveryType' /\ DeliveryType
  BY DeliveryNextType DEF BackedInv
<1>1. CASE UNCHANGED <<attempts, posts, acked, batch, stage>>
  BY <1>0, <1>1 DEF BackedInv, Counted, Backed, Key
<1>2. ASSUME NEW t \in Addressees, configureWebhook(t) \/ ConfigRemoved(t)
      PROVE  UNCHANGED <<attempts, posts, acked, batch, stage>>
  BY <1>2 DEF configureWebhook, ConfigRemoved, rows, outside
<1>3. KeyChanges => UNCHANGED <<attempts, posts, acked, batch, stage>>
  BY DEF KeyChanges, rows, outside
<1>4. ASSUME NEW d \in Deliveries, enqueueWebhookDelivery(d) \/ BecomesDue(d)
      PROVE  UNCHANGED <<attempts, posts, acked, batch, stage>>
  BY <1>4 DEF enqueueWebhookDelivery, BecomesDue, outside
<1>5. ASSUME NEW p \in Pollers, pollPendingDeliveries(p) PROVE BackedInv'
  <2>1. UNCHANGED <<attempts, posts, acked>>
    BY <1>5 DEF pollPendingDeliveries, rows, outside
  <2>2. /\ stage'[p] = "attempt"
        /\ \A i \in DOMAIN batch'[p] : /\ batch'[p][i].key \in Deliveries
                                       /\ batch'[p][i].attempts = attempts[batch'[p][i].key]
        /\ \A q \in Pollers \ {p} : stage'[q] = stage[q] /\ batch'[q] = batch[q]
    BY <1>0, <1>5, PollType
  <2>3. Backed(p)'
    BY <2>1, <2>2 DEF BackedInv, Counted, Backed, Key
  <2>4. Counted' /\ \A d \in Deliveries : posts[d] <= posts'[d]
    BY <1>0, <2>1 DEF BackedInv, Counted, DeliveryType, DeliveryTypeOK
  <2> QED BY <1>0, <2>1, <2>2, <2>3, <2>4, StaysBacked
<1>6. ASSUME NEW p \in Pollers,
             giveUpUnconfigured(p) \/ decrypt(p) \/ PollDies(p) \/ sendAlert(p)
      PROVE  BackedInv'
  <2>1. /\ stage[p] # "idle" /\ UNCHANGED <<attempts, posts, acked>>
        /\ Advance(p) \/ Abort(p)
    BY <1>6 DEF giveUpUnconfigured, decrypt, PollDies, sendAlert, rows, outside
  <2> QED BY <1>0, <2>1, QuietBacked
<1>7. ASSUME NEW p \in Pollers, markDelivered(p) PROVE BackedInv'
  <2>1. stage[p] = "ok" /\ UNCHANGED <<attempts, posts, acked>>
    BY <1>7 DEF markDelivered, outside
  <2>2. CASE Stage(p, "failed")
    <3>1. /\ batch' = batch /\ stage'[p] = "failed"
          /\ \A q \in Pollers \ {p} : stage'[q] = stage[q]
      BY <1>0, <2>1, <2>2, StageMoves DEF Stages
    <3>2. Backed(p)'
      BY <2>1, <3>1 DEF BackedInv, Backed, Key
    <3>3. Counted' /\ \A d \in Deliveries : posts[d] <= posts'[d]
      BY <1>0, <2>1 DEF BackedInv, Counted, DeliveryType, DeliveryTypeOK
    <3> QED BY <1>0, <2>1, <3>1, <3>2, <3>3, StaysBacked
  <2>3. CASE Advance(p)
    BY <1>0, <2>1, <2>3, QuietBacked
  <2> QED BY <1>7, <2>2, <2>3 DEF markDelivered
<1>8. UNCHANGED deliveryVars => UNCHANGED <<attempts, posts, acked, batch, stage>>
  BY DEF deliveryVars, rows, outside
<1> QED BY <1>1, <1>2, <1>3, <1>4, <1>5, <1>6, <1>7, <1>8, PostBacked, recordFailureBacked
        DEF DeliveryNext, attemptDelivery

\* The two outcomes of a notification, and why a poller may write them.
LEMMA ConclusionStep ==
  ASSUME BackedInv, DeliveryNext, NEW d \in Deliveries, deliveryStatus'[d] # deliveryStatus[d]
  PROVE  /\ deliveryStatus'[d] = "DELIVERED" => d \in acked
         /\ deliveryStatus'[d] = "FAILED" =>
              posts[d] = MAX_ATTEMPTS \/ lastError'[d] = "unconfigured"
<1> USE DEF BackedInv, DeliveryType, DeliveryTypeOK
<1>1. ASSUME NEW e \in Deliveries, enqueueWebhookDelivery(e)
      PROVE  deliveryStatus'[d] = "PENDING"
  BY <1>1 DEF enqueueWebhookDelivery
<1>2. ASSUME NEW p \in Pollers, giveUpUnconfigured(p)
      PROVE  deliveryStatus'[d] = "FAILED" /\ lastError'[d] = "unconfigured"
  BY <1>2, CurrentIsBacked DEF giveUpUnconfigured
<1>3. ASSUME NEW p \in Pollers, markDelivered(p)
      PROVE  deliveryStatus'[d] = "DELIVERED" /\ d \in acked
  <2>1. stage[p] = "ok" /\ current(p).key \in Deliveries /\ current(p).key \in acked
    BY <1>3, CurrentIsBacked DEF markDelivered, Backed
  <2> QED BY <1>3, <2>1 DEF markDelivered
<1>4. ASSUME NEW p \in Pollers, recordFailure(p)
      PROVE  deliveryStatus'[d] = "FAILED" /\ posts[d] = MAX_ATTEMPTS
  <2> DEFINE k == current(p).key
  <2>1. /\ k \in Deliveries /\ current(p).attempts \in Nat
        /\ current(p).attempts < posts[k]
    BY <1>4, CurrentIsBacked DEF recordFailure, Backed
  <2>2. posts[k] \in 0 .. MAX_ATTEMPTS /\ MAX_ATTEMPTS \in Nat
    BY <2>1, DeliveryAssumption
  <2>3. /\ deliveryStatus' = [deliveryStatus EXCEPT ![k] = "FAILED"]
        /\ current(p).attempts + 1 >= MAX_ATTEMPTS
    BY <1>4 DEF recordFailure, rows
  <2>4. posts[k] = MAX_ATTEMPTS
    BY <2>1, <2>2, <2>3
  <2> HIDE DEF k
  <2>5. d = k /\ deliveryStatus'[k] = "FAILED"
    BY <2>1, <2>3
  <2> QED BY <2>4, <2>5
<1>5. ASSUME NEW t \in Addressees, configureWebhook(t) \/ ConfigRemoved(t)
      PROVE  UNCHANGED deliveryStatus
  BY <1>5 DEF configureWebhook, ConfigRemoved, rows
<1>6. KeyChanges => UNCHANGED deliveryStatus
  BY DEF KeyChanges, rows
<1>7. ASSUME NEW p \in Pollers,
             pollPendingDeliveries(p) \/ decrypt(p) \/ post(p) \/ sendAlert(p) \/ PollDies(p)
      PROVE  UNCHANGED deliveryStatus
  BY <1>7 DEF pollPendingDeliveries, decrypt, post, sendAlert, PollDies, rows
<1>8. ASSUME NEW e \in Deliveries, BecomesDue(e) PROVE UNCHANGED deliveryStatus
  BY <1>8 DEF BecomesDue
<1> QED BY <1>1, <1>2, <1>3, <1>4, <1>5, <1>6, <1>7, <1>8 DEF DeliveryNext, attemptDelivery

\* However many processes poll, claim nothing, and overwrite what the others
\* wrote: DELIVERED is only ever written for what the tenant's server
\* acknowledged, FAILED only after MAX_ATTEMPTS POSTs or without a webhook.
THEOREM ConclusionsAreEarned == DeliverySpec => ConclusionIsEarned
<1> DEFINE Earned == \A d \in Deliveries : deliveryStatus'[d] # deliveryStatus[d] =>
                       /\ deliveryStatus'[d] = "DELIVERED" => d \in acked
                       /\ deliveryStatus'[d] = "FAILED" =>
                            posts[d] = MAX_ATTEMPTS \/ lastError'[d] = "unconfigured"
<1>1. DeliveryInit => BackedInv
  <2> SUFFICES ASSUME DeliveryInit PROVE BackedInv
    OBVIOUS
  <2>1. \A p \in Pollers : batch[p] = <<>> /\ stage[p] = "idle" /\ DOMAIN <<>> = {}
    BY DEF DeliveryInit
  <2> QED BY <2>1, DeliveryInitType DEF DeliveryInit, BackedInv, Counted, Backed
<1>2. BackedInv /\ [DeliveryNext]_deliveryVars => BackedInv' /\ [Earned]_deliveryVars
  BY DeliveryNextBacked, ConclusionStep
<1> HIDE DEF Earned
<1>3. DeliverySpec => [][Earned]_deliveryVars
  BY <1>1, <1>2, PTL DEF DeliverySpec
<1> QED BY <1>3 DEF Earned, ConclusionIsEarned

-----------------------------------------------------------------------------
(* One process polls: nothing else writes the rows of its batch *)

Fresh(p) ==
  /\ \A i, j \in DOMAIN batch[p] : Key(p, i) = Key(p, j) => i = j
  /\ \A i \in DOMAIN batch[p] :
       /\ deliveryStatus[Key(p, i)] = "PENDING" \/ (i = 1 /\ stage[p] = "alert")
       /\ batch[p][i].attempts <= posts[Key(p, i)]
  /\ stage[p] \in {"ok", "failed"} => batch[p][1].attempts < posts[Key(p, 1)]
  /\ stage[p] = "ok" => Key(p, 1) \in acked
  /\ stage[p] = "alert" => deliveryStatus[Key(p, 1)] = "FAILED" /\ alerted[Key(p, 1)] = 0

Untold == \A d \in Deliveries : deliveryStatus[d] \in {"none", "PENDING"} => alerted[d] = 0

Told == StatusIsEarned /\ GivenUpAlertedOnce

DeliveryInv == DeliveryType /\ (\A p \in Pollers : Fresh(p)) /\ Counted /\ Untold /\ Told

LEMMA DeliveryInitInv ==
  DeliveryInit => DeliveryInv
<1> SUFFICES ASSUME DeliveryInit PROVE DeliveryInv
  OBVIOUS
<1>1. DOMAIN <<>> = {}
  OBVIOUS
<1>2. \A p \in Pollers : batch[p] = <<>> /\ stage[p] = "idle"
  BY DEF DeliveryInit
<1>3. \A p \in Pollers : Fresh(p)
  BY <1>1, <1>2 DEF Fresh
<1>4. Counted /\ Untold /\ Told
  BY DEF DeliveryInit, Counted, Untold, Told, StatusIsEarned,
       GivenUpAlertedOnce
<1> QED BY <1>3, <1>4, DeliveryInitType DEF DeliveryInv

LEMMA CurrentIsFresh ==
  ASSUME DeliveryInv, NEW p \in Pollers, stage[p] # "idle"
  PROVE  /\ current(p).key = Key(p, 1) /\ Key(p, 1) \in Deliveries
         /\ current(p).attempts = batch[p][1].attempts /\ 1 \in DOMAIN batch[p]
         /\ stage[p] # "alert" => /\ deliveryStatus[Key(p, 1)] = "PENDING"
                                  /\ alerted[Key(p, 1)] = 0
         /\ \A i \in DOMAIN batch[p] : i # 1 => Key(p, i) # Key(p, 1)
<1>1. /\ 1 \in DOMAIN batch[p] /\ current(p) = batch[p][1]
      /\ batch[p][1].key \in Deliveries
  BY CurrentIsFirst DEF DeliveryInv
<1>2. Fresh(p) /\ Untold
  BY DEF DeliveryInv
<1> QED BY <1>1, <1>2 DEF Key, Fresh, Untold

\* The row of the current notification alone is written before the batch moves on.
LEMMA AdvanceFresh ==
  ASSUME DeliveryInv, NEW p \in Pollers, stage[p] # "idle", Advance(p),
         UNCHANGED posts,
         \A d \in Deliveries \ {Key(p, 1)} : deliveryStatus'[d] = deliveryStatus[d]
  PROVE  Fresh(p)'
<1>0. DeliveryType
  BY DEF DeliveryInv
<1>1. /\ batch[p] \in Seq(Snapshot) /\ batch[p] # <<>>
      /\ \A i \in DOMAIN batch[p] : i # 1 => Key(p, i) # Key(p, 1)
  BY <1>0, CurrentIsFirst, CurrentIsFresh
<1>2. /\ DOMAIN Tail(batch[p]) = 1 .. (Len(batch[p]) - 1)
      /\ Len(batch[p]) \in Nat \ {0}
      /\ \A i \in DOMAIN Tail(batch[p]) :
           i + 1 \in DOMAIN batch[p] /\ Tail(batch[p])[i] = batch[p][i + 1]
  BY <1>1, TailShifts
<1>3. batch'[p] = Tail(batch[p]) /\ stage'[p] \in {"idle", "attempt"}
  BY <1>0, AdvanceMoves
<1>4. \A i \in DOMAIN batch'[p] :
        /\ i \in Nat /\ i + 1 # 1 /\ i + 1 \in DOMAIN batch[p]
        /\ batch'[p][i] = batch[p][i + 1]
  BY <1>2, <1>3
<1>5. \A i, j \in DOMAIN batch'[p] : batch'[p][i].key = batch'[p][j].key => i = j
  <2> SUFFICES ASSUME NEW i \in DOMAIN batch'[p], NEW j \in DOMAIN batch'[p],
                      batch'[p][i].key = batch'[p][j].key
               PROVE  i = j
    OBVIOUS
  <2>1. i + 1 = j + 1
    BY <1>4 DEF DeliveryInv, Fresh, Key
  <2> QED BY <1>4, <2>1
<1>6. \A i \in DOMAIN batch'[p] :
        /\ deliveryStatus'[batch'[p][i].key] = "PENDING"
        /\ batch'[p][i].attempts <= posts'[batch'[p][i].key]
  <2> SUFFICES ASSUME NEW i \in DOMAIN batch'[p]
               PROVE  /\ deliveryStatus'[batch'[p][i].key] = "PENDING"
                      /\ batch'[p][i].attempts <= posts'[batch'[p][i].key]
    OBVIOUS
  <2>1. Key(p, i + 1) \in Deliveries \ {Key(p, 1)} /\ batch'[p][i].key = Key(p, i + 1)
    BY <1>0, <1>1, <1>4, EntryType DEF Key
  <2>2. deliveryStatus[Key(p, i + 1)] = "PENDING" /\ batch[p][i + 1].attempts <= posts[Key(p, i + 1)]
    BY <1>4 DEF DeliveryInv, Fresh
  <2> QED BY <1>4, <2>1, <2>2
<1> QED BY <1>3, <1>5, <1>6 DEF Fresh, Key

LEMMA AbortFresh ==
  ASSUME DeliveryInv, NEW p \in Pollers, Abort(p)
  PROVE  Fresh(p)'
<1>1. batch'[p] = <<>> /\ stage'[p] = "idle" /\ DOMAIN <<>> = {}
  BY AbortMoves DEF DeliveryInv
<1> QED BY <1>1 DEF Fresh

\* A step that leaves the batches alone.
LEMMA BesideInv ==
  ASSUME DeliveryInv,
         KeyChanges
           \/ (\E t \in Addressees : configureWebhook(t) \/ ConfigRemoved(t))
           \/ \E d \in Deliveries : enqueueWebhookDelivery(d) \/ BecomesDue(d)
  PROVE  DeliveryInv'
<1>1. UNCHANGED <<attempts, lastError, posts, acked, alerted, batch, stage>>
  BY DEF KeyChanges, configureWebhook, ConfigRemoved,
       enqueueWebhookDelivery, BecomesDue, rows, outside
<1>2. DeliveryType'
  BY RowsType, SecretsType DEF DeliveryInv
<1>3. UNCHANGED deliveryStatus
        \/ \E d \in Deliveries : deliveryStatus[d] = "none" /\ deliveryStatus' = [deliveryStatus EXCEPT ![d] = "PENDING"]
  BY DEF KeyChanges, configureWebhook, ConfigRemoved,
       enqueueWebhookDelivery, BecomesDue, rows
<1>4. CASE UNCHANGED deliveryStatus
  BY <1>1, <1>2, <1>4 DEF DeliveryInv, Fresh, Key, Counted, Untold, Told,
       StatusIsEarned, GivenUpAlertedOnce
<1>5. ASSUME NEW d \in Deliveries, deliveryStatus[d] = "none",
             deliveryStatus' = [deliveryStatus EXCEPT ![d] = "PENDING"]
      PROVE  DeliveryInv'
  <2>1. /\ deliveryStatus'[d] = "PENDING"
        /\ \A e \in Deliveries : e # d => deliveryStatus'[e] = deliveryStatus[e]
    BY <1>5 DEF DeliveryInv, DeliveryType, DeliveryTypeOK
  <2>2. ASSUME NEW p \in Pollers PROVE Fresh(p)'
    <3>1. \A i \in DOMAIN batch[p] : Key(p, i) \in Deliveries
      BY EntryType DEF DeliveryInv
    <3>2. Fresh(p)
      BY DEF DeliveryInv
    <3>3. stage[p] = "alert" => 1 \in DOMAIN batch[p]
      BY CurrentIsFirst DEF DeliveryInv
    <3> QED BY <1>1, <1>5, <2>1, <3>1, <3>2, <3>3 DEF Fresh, Key
  <2>3. Counted' /\ Untold' /\ Told'
    BY <1>1, <1>5, <2>1 DEF DeliveryInv, Counted, Untold, Told,
         StatusIsEarned, GivenUpAlertedOnce
  <2> QED BY <1>2, <2>2, <2>3 DEF DeliveryInv
<1> QED BY <1>3, <1>4, <1>5

LEMMA PollInv ==
  ASSUME DeliveryInv,
         NEW p \in Pollers, \A q \in Pollers : q = p, pollPendingDeliveries(p)
  PROVE  DeliveryInv'
<1>1. UNCHANGED <<deliveryStatus, attempts, lastError, posts, acked, alerted>>
  BY DEF pollPendingDeliveries, rows, outside
<1>2. /\ DeliveryType' /\ stage'[p] = "attempt"
      /\ \A i \in DOMAIN batch'[p] :
           /\ batch'[p][i].key \in Deliveries /\ deliveryStatus[batch'[p][i].key] = "PENDING"
           /\ batch'[p][i].attempts = attempts[batch'[p][i].key]
      /\ \A i, j \in DOMAIN batch'[p] : batch'[p][i].key = batch'[p][j].key => i = j
  BY PollType DEF DeliveryInv
<1>3. Fresh(p)'
  BY <1>1, <1>2 DEF DeliveryInv, Counted, Fresh, Key
<1> QED BY <1>1, <1>2, <1>3 DEF DeliveryInv, Counted, Untold, Told,
       StatusIsEarned, GivenUpAlertedOnce

LEMMA giveUpInv ==
  ASSUME DeliveryInv, NEW p \in Pollers, \A q \in Pollers : q = p,
         giveUpUnconfigured(p)
  PROVE  DeliveryInv'
<1> DEFINE d == Key(p, 1)
<1>1. /\ d \in Deliveries /\ stage[p] # "idle" /\ current(p).key = d
      /\ deliveryStatus[d] = "PENDING" /\ alerted[d] = 0
  BY CurrentIsFresh DEF giveUpUnconfigured
<1>2. UNCHANGED <<attempts, posts, acked, alerted>>
  BY DEF giveUpUnconfigured, outside
<1>3. DeliveryType'
  BY giveUpType DEF DeliveryInv
<1> HIDE DEF d
<1>4. CASE /\ deliveryStatus' = [deliveryStatus EXCEPT ![d] = "FAILED"]
           /\ lastError' = [lastError EXCEPT ![d] = "unconfigured"]
           /\ Advance(p)
  <2>1. /\ deliveryStatus'[d] = "FAILED" /\ lastError'[d] = "unconfigured"
        /\ \A e \in Deliveries \ {d} : deliveryStatus'[e] = deliveryStatus[e] /\ lastError'[e] = lastError[e]
    BY <1>1, <1>4 DEF DeliveryInv, DeliveryType, DeliveryTypeOK
  <2>2. Fresh(p)'
    BY <1>1, <1>2, <1>4, <2>1, AdvanceFresh DEF d
  <2>3. Counted' /\ Untold' /\ Told'
    BY <1>1, <1>2, <2>1 DEF DeliveryInv, Counted, Untold, Told,
         StatusIsEarned, GivenUpAlertedOnce
  <2> QED BY <1>3, <2>2, <2>3 DEF DeliveryInv
<1>5. CASE Abort(p) /\ UNCHANGED <<deliveryStatus, lastError>>
  BY <1>2, <1>3, <1>5, AbortFresh DEF DeliveryInv, Counted, Untold, Told,
     StatusIsEarned, GivenUpAlertedOnce
<1> QED BY <1>1, <1>4, <1>5 DEF giveUpUnconfigured

LEMMA PostInv ==
  ASSUME DeliveryInv,
         NEW p \in Pollers, \A q \in Pollers : q = p, post(p)
  PROVE  DeliveryInv'
<1> DEFINE d == Key(p, 1)
<1>1. /\ d \in Deliveries /\ stage[p] = "attempt" /\ current(p).key = d
      /\ deliveryStatus[d] = "PENDING" /\ 1 \in DOMAIN batch[p]
  BY CurrentIsFresh DEF post
<1>2. /\ UNCHANGED <<deliveryStatus, attempts, lastError, alerted>>
      /\ posts' = [posts EXCEPT ![d] = IF @ < MAX_ATTEMPTS THEN @ + 1 ELSE @]
      /\ \/ acked' = acked \cup {d} /\ Stage(p, "ok")
         \/ UNCHANGED acked /\ Stage(p, "failed")
  BY <1>1 DEF post, rows
<1>3. DeliveryType' /\ DeliveryType
  BY PostType DEF DeliveryInv
<1>4. /\ batch' = batch /\ stage'[p] \in {"ok", "failed"}
      /\ stage'[p] = "ok" => d \in acked'
      /\ acked \subseteq acked'
  BY <1>1, <1>2, <1>3, StageMoves DEF Stages
<1>5. /\ batch[p][1].attempts \in Nat /\ batch[p][1].attempts < MAX_ATTEMPTS
      /\ batch[p][1].attempts <= posts[d] /\ posts[d] \in 0 .. MAX_ATTEMPTS
      /\ MAX_ATTEMPTS \in Nat
  BY <1>1, <1>3, CurrentIsFirst, DeliveryAssumption
     DEF DeliveryInv, Fresh, DeliveryTypeOK, DeliveryType
<1> HIDE DEF d
<1>6. /\ posts'[d] = (IF posts[d] < MAX_ATTEMPTS THEN posts[d] + 1 ELSE posts[d])
      /\ \A e \in Deliveries \ {d} : posts'[e] = posts[e]
  BY <1>1, <1>2, <1>3 DEF DeliveryType, DeliveryTypeOK
<1>7. batch[p][1].attempts < posts'[d]
  BY <1>5, <1>6
<1>8. \A e \in Deliveries : posts[e] \in Nat /\ posts[e] <= posts'[e]
                             /\ (posts[e] = MAX_ATTEMPTS => posts'[e] = MAX_ATTEMPTS)
  <2>1. \A e \in Deliveries : posts[e] \in Nat
    BY <1>3, <1>5 DEF DeliveryType, DeliveryTypeOK
  <2> QED BY <1>5, <1>6, <2>1
<1>9. Fresh(p)'
  <2>1. ASSUME NEW i \in DOMAIN batch[p]
        PROVE  /\ deliveryStatus[Key(p, i)] = "PENDING"
               /\ batch[p][i].attempts <= posts'[Key(p, i)]
    <3>1. /\ Key(p, i) \in Deliveries /\ batch[p][i].attempts \in Nat
          /\ batch[p][i].attempts <= posts[Key(p, i)]
          /\ deliveryStatus[Key(p, i)] = "PENDING"
      BY <1>1, <1>3, EntryType DEF DeliveryInv, Fresh
    <3>2. posts'[Key(p, i)] \in Nat
      BY <1>3, <3>1 DEF DeliveryType, DeliveryTypeOK
    <3> QED BY <1>8, <3>1, <3>2
  <2>2. \A i, j \in DOMAIN batch[p] : Key(p, i) = Key(p, j) => i = j
    BY DEF DeliveryInv, Fresh
  <2> QED BY <1>2, <1>4, <1>7, <2>1, <2>2 DEF Fresh, Key, d
<1>10. Counted'
  <2>1. \A e \in Deliveries : attempts[e] \in Nat /\ posts'[e] \in Nat
    BY <1>3 DEF DeliveryType, DeliveryTypeOK
  <2> QED BY <1>2, <1>8, <2>1 DEF DeliveryInv, Counted
<1>11. Untold' /\ Told'
  BY <1>2, <1>4, <1>8 DEF DeliveryInv, Untold, Told,
     StatusIsEarned, GivenUpAlertedOnce
<1> QED BY <1>3, <1>9, <1>10, <1>11 DEF DeliveryInv

LEMMA markDeliveredInv ==
  ASSUME DeliveryInv, NEW p \in Pollers, \A q \in Pollers : q = p, markDelivered(p)
  PROVE  DeliveryInv'
<1> DEFINE d == Key(p, 1)
<1>1. /\ d \in Deliveries /\ stage[p] = "ok" /\ current(p).key = d
      /\ deliveryStatus[d] = "PENDING" /\ alerted[d] = 0 /\ d \in acked
  BY CurrentIsFresh DEF markDelivered, DeliveryInv, Fresh
<1>2. UNCHANGED <<attempts, lastError, posts, acked, alerted>>
  BY DEF markDelivered, outside
<1>3. DeliveryType' /\ DeliveryType
  BY markDeliveredType DEF DeliveryInv
<1> HIDE DEF d
<1>4. CASE deliveryStatus' = [deliveryStatus EXCEPT ![d] = "DELIVERED"] /\ Advance(p)
  <2>1. deliveryStatus'[d] = "DELIVERED" /\ \A e \in Deliveries \ {d} : deliveryStatus'[e] = deliveryStatus[e]
    BY <1>1, <1>3, <1>4 DEF DeliveryType, DeliveryTypeOK
  <2>2. Fresh(p)'
    BY <1>1, <1>2, <1>4, <2>1, AdvanceFresh DEF d
  <2>3. Counted' /\ Untold' /\ Told'
    BY <1>1, <1>2, <2>1 DEF DeliveryInv, Counted, Untold, Told,
         StatusIsEarned, GivenUpAlertedOnce
  <2> QED BY <1>3, <2>2, <2>3 DEF DeliveryInv
<1>5. CASE Stage(p, "failed") /\ UNCHANGED deliveryStatus
  <2>1. batch' = batch /\ stage'[p] = "failed"
    BY <1>1, <1>3, <1>5, StageMoves DEF Stages
  <2>2. Fresh(p)'
    BY <1>1, <1>2, <1>5, <2>1 DEF DeliveryInv, Fresh, Key
  <2>3. Counted' /\ Untold' /\ Told'
    BY <1>2, <1>5 DEF DeliveryInv, Counted, Untold, Told,
         StatusIsEarned, GivenUpAlertedOnce
  <2> QED BY <1>3, <2>2, <2>3 DEF DeliveryInv
<1> QED BY <1>1, <1>4, <1>5 DEF markDelivered

LEMMA recordFailureInv ==
  ASSUME DeliveryInv,
         NEW p \in Pollers, \A q \in Pollers : q = p, recordFailure(p)
  PROVE  DeliveryInv'
<1> DEFINE d == Key(p, 1)
           counted == batch[p][1].attempts + 1
<1>1. /\ d \in Deliveries /\ stage[p] = "failed" /\ 1 \in DOMAIN batch[p]
      /\ current(p).key = d
      /\ current(p).attempts = batch[p][1].attempts
      /\ deliveryStatus[d] = "PENDING" /\ alerted[d] = 0
      /\ \A i \in DOMAIN batch[p] : i # 1 => Key(p, i) # d
  BY CurrentIsFresh DEF recordFailure
<1>2. UNCHANGED <<posts, acked, alerted>>
  BY DEF recordFailure, outside
<1>3. DeliveryType' /\ DeliveryType
  BY recordFailureType DEF DeliveryInv
<1>4. /\ counted \in 1 .. MAX_ATTEMPTS /\ counted <= posts[d]
      /\ posts[d] \in 0 .. MAX_ATTEMPTS /\ MAX_ATTEMPTS \in Nat
  <2>1. batch[p][1].attempts \in Nat /\ batch[p][1].attempts < MAX_ATTEMPTS
    BY <1>1, <1>3, CurrentIsFirst
  <2>2. batch[p][1].attempts < posts[d] /\ posts[d] \in 0 .. MAX_ATTEMPTS
    BY <1>1, <1>3 DEF DeliveryInv, Fresh, DeliveryType, DeliveryTypeOK
  <2> QED BY <2>1, <2>2, DeliveryAssumption
<1>5. \/ /\ attempts' = [attempts EXCEPT ![d] = counted]
         /\ lastError' = [lastError EXCEPT ![d] = "failure"]
         /\ IF counted >= MAX_ATTEMPTS
            THEN deliveryStatus' = [deliveryStatus EXCEPT ![d] = "FAILED"] /\ Stage(p, "alert")
            ELSE UNCHANGED deliveryStatus /\ Advance(p)
      \/ Abort(p) /\ UNCHANGED <<deliveryStatus, attempts, lastError>>
  BY <1>1 DEF recordFailure, rows
<1> HIDE DEF d, counted
<1>6. CASE /\ attempts' = [attempts EXCEPT ![d] = counted]
           /\ lastError' = [lastError EXCEPT ![d] = "failure"]
           /\ IF counted >= MAX_ATTEMPTS
              THEN deliveryStatus' = [deliveryStatus EXCEPT ![d] = "FAILED"] /\ Stage(p, "alert")
              ELSE UNCHANGED deliveryStatus /\ Advance(p)
  <2>1. /\ attempts'[d] = counted
        /\ \A e \in Deliveries \ {d} : /\ attempts'[e] = attempts[e]
                                       /\ lastError'[e] = lastError[e]
                                       /\ deliveryStatus'[e] = deliveryStatus[e]
    BY <1>1, <1>3, <1>6 DEF DeliveryType, DeliveryTypeOK
  <2>2. Counted'
    BY <1>2, <1>4, <2>1 DEF DeliveryInv, Counted
  <2>3. CASE /\ counted >= MAX_ATTEMPTS
             /\ deliveryStatus' = [deliveryStatus EXCEPT ![d] = "FAILED"] /\ Stage(p, "alert")
    <3>1. batch' = batch /\ stage'[p] = "alert" /\ deliveryStatus'[d] = "FAILED"
      BY <1>1, <1>3, <2>3, StageMoves DEF Stages, DeliveryType, DeliveryTypeOK
    <3>2. posts[d] = MAX_ATTEMPTS
      BY <1>4, <2>3
    <3>3. \A i \in DOMAIN batch[p] : i # 1 => deliveryStatus'[Key(p, i)] = "PENDING"
      <4>1. \A i \in DOMAIN batch[p] : i # 1 =>
              Key(p, i) \in Deliveries \ {d} /\ deliveryStatus[Key(p, i)] = "PENDING"
        BY <1>1, <1>3, EntryType DEF DeliveryInv, Fresh
      <4> QED BY <2>1, <4>1
    <3>4. Fresh(p)'
      BY <1>1, <1>2, <3>1, <3>3 DEF DeliveryInv, Fresh, Key, d
    <3>5. Untold' /\ Told'
      BY <1>1, <1>2, <2>1, <3>1, <3>2 DEF DeliveryInv, Untold, Told,
           StatusIsEarned, GivenUpAlertedOnce
    <3> QED BY <1>3, <2>2, <3>4, <3>5 DEF DeliveryInv
  <2>4. CASE UNCHANGED deliveryStatus /\ Advance(p)
    <3>1. Fresh(p)'
      BY <1>1, <1>2, <2>4, AdvanceFresh DEF d
    <3>2. Untold' /\ Told'
      BY <1>1, <1>2, <2>1, <2>4 DEF DeliveryInv, Untold, Told,
           StatusIsEarned, GivenUpAlertedOnce
    <3> QED BY <1>3, <2>2, <3>1, <3>2 DEF DeliveryInv
  <2> QED BY <1>6, <2>3, <2>4
<1>7. CASE Abort(p) /\ UNCHANGED <<deliveryStatus, attempts, lastError>>
  BY <1>2, <1>3, <1>7, AbortFresh DEF DeliveryInv, Counted, Untold, Told,
     StatusIsEarned, GivenUpAlertedOnce
<1> QED BY <1>5, <1>6, <1>7

LEMMA SendAlertInv ==
  ASSUME DeliveryInv, NEW p \in Pollers, \A q \in Pollers : q = p, sendAlert(p)
  PROVE  DeliveryInv'
<1> DEFINE d == Key(p, 1)
<1>1. /\ d \in Deliveries /\ stage[p] = "alert" /\ current(p).key = d
      /\ deliveryStatus[d] = "FAILED" /\ alerted[d] = 0
  BY CurrentIsFresh DEF sendAlert, DeliveryInv, Fresh
<1>2. /\ UNCHANGED <<deliveryStatus, attempts, lastError, posts, acked>>
      /\ alerted' = [alerted EXCEPT ![d] = @ + 1] /\ Advance(p)
  BY <1>1 DEF sendAlert, rows
<1>3. DeliveryType' /\ DeliveryType
  BY SendAlertType DEF DeliveryInv
<1>4. Fresh(p)'
  BY <1>1, <1>2, AdvanceFresh
<1> HIDE DEF d
<1>5. alerted'[d] = 1 /\ \A e \in Deliveries \ {d} : alerted'[e] = alerted[e]
  BY <1>1, <1>2, <1>3 DEF DeliveryType, DeliveryTypeOK
<1>6. Counted' /\ Untold' /\ Told'
  BY <1>1, <1>2, <1>5 DEF DeliveryInv, Counted, Untold, Told,
       StatusIsEarned, GivenUpAlertedOnce
<1> QED BY <1>3, <1>4, <1>6 DEF DeliveryInv

LEMMA DeliveryNextInv ==
  ASSUME \A p, q \in Pollers : p = q,
         DeliveryInv, [DeliveryNext]_deliveryVars
  PROVE  DeliveryInv'
<1>1. CASE UNCHANGED deliveryVars
  <2>1. DeliveryType'
    BY <1>1, DeliveryNextType DEF DeliveryInv
  <2> QED BY <1>1, <2>1 DEF deliveryVars, rows, outside, DeliveryInv, Fresh,
        Key, Counted, Untold, Told, StatusIsEarned, GivenUpAlertedOnce
<1>2. ASSUME NEW p \in Pollers, decrypt(p) \/ PollDies(p)
      PROVE  DeliveryInv'
  <2>1. /\ UNCHANGED <<deliveryStatus, attempts, lastError, posts, acked, alerted>>
        /\ Abort(p)
    BY <1>2 DEF decrypt, PollDies, rows, outside
  <2>2. DeliveryType'
    BY <1>2, DeliveryNextType DEF DeliveryInv, DeliveryNext, attemptDelivery
  <2> QED BY <2>1, <2>2, AbortFresh DEF DeliveryInv, Counted, Untold, Told,
        StatusIsEarned, GivenUpAlertedOnce
<1>3. ASSUME NEW p \in Pollers, pollPendingDeliveries(p)
                                  \/ attemptDelivery(p) \/ PollDies(p)
      PROVE  DeliveryInv'
  BY <1>2, <1>3, PollInv, giveUpInv, PostInv, markDeliveredInv, recordFailureInv,
     SendAlertInv DEF attemptDelivery
<1> QED BY <1>1, <1>3, BesideInv DEF DeliveryNext

\* With one process polling, DELIVERED is written only for what the tenant's
\* server acknowledged, and FAILED only after MAX_ATTEMPTS POSTs or with the note
\* that there is no webhook: whatever fails, and whenever a poll dies.
THEOREM DeliveryStatusIsEarned ==
  ASSUME \A p, q \in Pollers : p = q
  PROVE  DeliverySpec => []StatusIsEarned
<1>1. DeliveryInv => StatusIsEarned
  BY DEF DeliveryInv, Told
<1>2. DeliveryInv /\ [DeliveryNext]_deliveryVars => DeliveryInv'
  BY DeliveryNextInv
<1> QED BY <1>1, <1>2, DeliveryInitInv, PTL DEF DeliverySpec

\* With one process polling, the team is told at most once that a notification
\* was given up, and only of one whose row says FAILED.
THEOREM GivenUpIsAlertedOnce ==
  ASSUME \A p, q \in Pollers : p = q
  PROVE  DeliverySpec => []GivenUpAlertedOnce
<1>1. DeliveryInv => GivenUpAlertedOnce
  BY DEF DeliveryInv, Told
<1>2. DeliveryInv /\ [DeliveryNext]_deliveryVars => DeliveryInv'
  BY DeliveryNextInv
<1> QED BY <1>1, <1>2, DeliveryInitInv, PTL DEF DeliverySpec

\* With one process polling, a notification that is DELIVERED or FAILED is not
\* posted again, though the poller takes it from a copy of the rows.
THEOREM ConcludedIsPostedNoMore ==
  ASSUME \A p, q \in Pollers : p = q
  PROVE  DeliverySpec => []ConcludedIsNotSentAgain
<1>1. DeliveryInv => ConcludedIsNotSentAgain
  BY CurrentIsFresh DEF DeliveryInv, ConcludedIsNotSentAgain, Concluded
<1>2. DeliveryInv /\ [DeliveryNext]_deliveryVars => DeliveryInv'
  BY DeliveryNextInv
<1> QED BY <1>1, <1>2, DeliveryInitInv, PTL DEF DeliverySpec

=============================================================================
