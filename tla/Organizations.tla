----------------------------- MODULE Organizations -----------------------------
(***************************************************************************)
(* Organizations and their members: who may enter, who may change whom     *)
(* (application/organizations.py, application/memberships.py,              *)
(* presentation/deps.py).                                                  *)
(*                                                                         *)
(* A request authenticates its user, reads the membership that authorizes  *)
(* it, reads what it is about to change, decides, and commits an UPDATE of *)
(* the columns that differed from a second read.  Each read is a step: no  *)
(* row is locked before the COMMIT.  A slot that is "off" is a thread the  *)
(* pool of the instance does not have.                                     *)
(***************************************************************************)
EXTENDS Naturals, FiniteSets

CONSTANTS
  Organization,  \* organization ids
  User,          \* users
  Operator,      \* the users with the platform role of operator
  DisabledUser,  \* the users whose account is disabled
  Slug,          \* normalized slugs
  Slot,          \* threads that serve requests
  MaxVersion,    \* bound: an organization is updated below this version only
  None

ASSUME OrganizationsAssumption ==
  /\ Operator \subseteq User /\ DisabledUser \subseteq User
  /\ MaxVersion \in Nat
  /\ None \notin User \cup Organization \cup Slug
       \cup {"create_organization", "update_organization", "create_membership",
             "update_membership"}

VARIABLES
  organizations,  \* committed organizations rows
  memberships,    \* committed memberships rows, by organization and user
  tx              \* the request each slot is running

vars == <<organizations, memberships, tx>>

-----------------------------------------------------------------------------
(* Permissions (domain/permissions.py)                                     *)

Role == {"viewer", "analyst", "admin"}
MembershipStatus == {"active", "disabled"}
OrganizationStatus == {"active", "archived"}

Viewer == {"read_analysis", "export", "use_ai"}
Analyst == Viewer \cup {"import", "manage_versions", "create_scenarios",
                        "manage_dimensions"}
Admin == Analyst \cup {"manage_members", "manage_organization"}

ROLE_PERMISSIONS == [viewer |-> Viewer, analyst |-> Analyst, admin |-> Admin]

(* Mutant of has_permission: analysts are let through too.                 *)
has_permission_analyst(role, permission) == role \in {"analyst", "admin"}

has_permission(role, permission) == permission \in ROLE_PERMISSIONS[role]

-----------------------------------------------------------------------------
(* Rows                                                                    *)

MembershipRow == [role: Role, status: MembershipStatus]
NoMembership == [role |-> "viewer", status |-> "absent"]

OrganizationRow == [slug: Slug, status: OrganizationStatus, version: Nat \ {0}]
NoOrganization == [slug |-> None, status |-> "absent", version |-> 0]

is_active(m) == m.status = "active"
IsAdmin(m) == is_active(m) /\ m.role = "admin"

(* SELECT ... WHERE role = 'admin' AND status = 'active'.                  *)
list_active_admins(o) == {u \in User : IsAdmin(memberships[o][u])}

(* Mutant of membership_with_updates: a status that is not given is lost.  *)
membership_overwritten(m, role, status) ==
  [role |-> IF role = None THEN m.role ELSE role, status |-> status]

(* PATCH fields that are not given leave the value.                        *)
membership_with_updates(m, role, status) ==
  [role   |-> IF role = None THEN m.role ELSE role,
   status |-> IF status = None THEN m.status ELSE status]

(* Mutant of organization_with_updates: the counter is left alone.         *)
organization_uncounted(row, status) ==
  [row EXCEPT !.status = IF status = None THEN @ ELSE status]

organization_with_updates(row, status) ==
  [row EXCEPT !.status = IF status = None THEN @ ELSE status,
              !.version = @ + 1]

(* The columns in which `save' finds a difference, and the UPDATE of them. *)
Changed(row, new) == {c \in DOMAIN new : row[c] # new[c]}
Updated(row, new, cols) ==
  [c \in DOMAIN row |-> IF c \in cols THEN new[c] ELSE row[c]]

(* The row level security policy organizations_select.                     *)
Sees(u, o) == memberships[o][u] # NoMembership

-----------------------------------------------------------------------------
(* Requests                                                                *)

Op == {"create_organization", "update_organization", "create_membership",
       "update_membership"}

Tx == [pc: {"off", "idle", "context", "admins", "save", "commit"},
       op: Op \cup {None},
       user: User \cup {None},           \* who asks
       organization: Organization \cup {None},
       target: User \cup {None},         \* whose membership is changed
       role: Role \cup {None},           \* of the user, as read on entry
       relied: SUBSET User,              \* the other administrators it saw
       seen: MembershipRow \cup OrganizationRow \cup {NoMembership},
       work: MembershipRow \cup OrganizationRow \cup {NoMembership},
       cols: SUBSET {"role", "status", "slug", "version"}]

Idle == [pc |-> "idle", op |-> None, user |-> None, organization |-> None,
         target |-> None, role |-> None, relied |-> {}, seen |-> NoMembership,
         work |-> NoMembership, cols |-> {}]
Off == [Idle EXCEPT !.pc = "off"]

Init ==
  /\ organizations = [o \in Organization |-> NoOrganization]
  /\ memberships = [o \in Organization |-> [u \in User |-> NoMembership]]
  /\ \E pool \in (SUBSET Slot) \ {{}} :
       tx = [s \in Slot |-> IF s \in pool THEN Idle ELSE Off]

(* One thread: no two requests overlap.                                    *)
Sequential == \E s \in Slot : \A s2 \in Slot \ {s} : tx[s2].pc = "off"

authenticate(u) == u \notin DisabledUser

(* POST /organizations: the id is new, the slug is free as far as row      *)
(* level security lets the user see.                                       *)
CreateOrganization(s, u, o, slug) ==
  /\ tx[s].pc = "idle" /\ authenticate(u)
  /\ u \notin Operator
  /\ organizations[o] = NoOrganization
  /\ \A s2 \in Slot : tx[s2].organization # o
  /\ \A p \in Organization : Sees(u, p) => organizations[p].slug # slug
  /\ tx' = [tx EXCEPT ![s] =
              [Idle EXCEPT !.pc = "commit", !.op = "create_organization",
                           !.user = u, !.organization = o, !.target = u,
                           !.work = [slug |-> slug, status |-> "active",
                                     version |-> 1]]]
  /\ UNCHANGED <<organizations, memberships>>

(* get_current_user and get_tenant_context.                                *)
Enter(s, u, o, op, t) ==
  /\ tx[s].pc = "idle" /\ authenticate(u)
  /\ organizations[o] # NoOrganization
  /\ is_active(memberships[o][u])
  /\ tx' = [tx EXCEPT ![s] =
              [Idle EXCEPT !.pc = "context", !.op = op, !.user = u, !.target = t,
                           !.organization = o, !.role = memberships[o][u].role]]
  /\ UNCHANGED <<organizations, memberships>>

CreateMembership(s, role) ==
  LET r == tx[s] IN
  /\ r.pc = "context" /\ r.op = "create_membership"
  /\ has_permission(r.role, "manage_members")
  /\ memberships[r.organization][r.target] = NoMembership
  /\ tx' = [tx EXCEPT ![s].pc = "commit",
                      ![s].work = [role |-> role, status |-> "active"]]
  /\ UNCHANGED <<organizations, memberships>>

(* The first read of `update': the membership to be changed.               *)
ReadMembership(s) ==
  LET r == tx[s] IN
  /\ r.pc = "context" /\ r.op = "update_membership"
  /\ has_permission(r.role, "manage_members")
  /\ memberships[r.organization][r.target] # NoMembership
  /\ tx' = [tx EXCEPT ![s].pc = "admins",
                      ![s].seen = memberships[r.organization][r.target]]
  /\ UNCHANGED <<organizations, memberships>>

(* Mutant of RequireActiveAdminRemains: the one being changed counts.      *)
RequireAnyAdmin(s, role, status) ==
  LET r == tx[s] IN
  /\ r.pc = "admins"
  /\ list_active_admins(r.organization) # {}
  /\ tx' = [tx EXCEPT
              ![s].pc = "save",
              ![s].relied = list_active_admins(r.organization) \ {r.target},
              ![s].work = membership_with_updates(r.seen, role, status)]
  /\ UNCHANGED <<organizations, memberships>>

(* require_active_admin_remains on a second query, with_updates on the     *)
(* object of the first.                                                    *)
RequireActiveAdminRemains(s, role, status) ==
  LET r == tx[s]
      next == membership_with_updates(r.seen, role, status)
      others == list_active_admins(r.organization) \ {r.target}
  IN /\ r.pc = "admins"
     /\ others # {} \/ IsAdmin(next)
     /\ tx' = [tx EXCEPT ![s].pc = "save", ![s].relied = others,
                         ![s].work = next]
     /\ UNCHANGED <<organizations, memberships>>

SaveMembership(s) ==
  LET r == tx[s] IN
  /\ r.pc = "save" /\ r.op = "update_membership"
  /\ tx' = [tx EXCEPT ![s].pc = "commit",
              ![s].cols = Changed(memberships[r.organization][r.target], r.work)]
  /\ UNCHANGED <<organizations, memberships>>

(* PATCH /organizations/{id}: the version the caller names is the one read. *)
ReadOrganization(s, status) ==
  LET r == tx[s]  row == organizations[r.organization] IN
  /\ r.pc = "context" /\ r.op = "update_organization"
  /\ has_permission(r.role, "manage_organization")
  /\ row.version < MaxVersion
  /\ tx' = [tx EXCEPT ![s].pc = "save", ![s].seen = row,
                      ![s].work = organization_with_updates(row, status)]
  /\ UNCHANGED <<organizations, memberships>>

SaveOrganization(s) ==
  LET r == tx[s] IN
  /\ r.pc = "save" /\ r.op = "update_organization"
  /\ tx' = [tx EXCEPT ![s].pc = "commit",
              ![s].cols = Changed(organizations[r.organization], r.work)]
  /\ UNCHANGED <<organizations, memberships>>

(* The end of get_db_session: the flush, which unique constraints may      *)
(* refuse, and the COMMIT.                                                 *)
CommitOrganization(s) ==
  LET r == tx[s] IN
  /\ r.pc = "commit" /\ r.op = "create_organization"
  /\ \A p \in Organization : organizations[p].slug # r.work.slug
  /\ organizations' = [organizations EXCEPT ![r.organization] = r.work]
  /\ memberships' = [memberships EXCEPT ![r.organization][r.user] =
                       [role |-> "admin", status |-> "active"]]
  /\ tx' = [tx EXCEPT ![s] = Idle]

CommitMembership(s) ==
  LET r == tx[s]  row == memberships[r.organization][r.target] IN
  /\ r.pc = "commit" /\ r.op \in {"create_membership", "update_membership"}
  /\ r.op = "create_membership" => row = NoMembership
  /\ memberships' = [memberships EXCEPT ![r.organization][r.target] =
                       IF r.op = "create_membership" THEN r.work
                       ELSE Updated(row, r.work, r.cols)]
  /\ tx' = [tx EXCEPT ![s] = Idle]
  /\ UNCHANGED organizations

CommitUpdate(s) ==
  LET r == tx[s] IN
  /\ r.pc = "commit" /\ r.op = "update_organization"
  /\ organizations' = [organizations EXCEPT ![r.organization] =
                         Updated(@, r.work, r.cols)]
  /\ tx' = [tx EXCEPT ![s] = Idle]
  /\ UNCHANGED memberships

(* A refused request, an IntegrityError, the death of the process.         *)
Rollback(s) ==
  /\ tx[s].pc \notin {"off", "idle"}
  /\ tx' = [tx EXCEPT ![s] = Idle]
  /\ UNCHANGED <<organizations, memberships>>

Start(s) ==
  \E u \in User, o \in Organization :
    \/ \E slug \in Slug : CreateOrganization(s, u, o, slug)
    \/ \E t \in User : \/ Enter(s, u, o, "create_membership", t)
                       \/ Enter(s, u, o, "update_membership", t)
    \/ Enter(s, u, o, "update_organization", None)

Decide(s) ==
  \/ \E role \in Role : CreateMembership(s, role)
  \/ ReadMembership(s)
  \/ \E role \in Role \cup {None}, status \in MembershipStatus \cup {None} :
       RequireActiveAdminRemains(s, role, status)
  \/ \E status \in OrganizationStatus \cup {None} : ReadOrganization(s, status)

Finish(s) ==
  \/ SaveMembership(s) \/ SaveOrganization(s)
  \/ CommitOrganization(s) \/ CommitMembership(s) \/ CommitUpdate(s)
  \/ Rollback(s)

Next == \E s \in Slot : Start(s) \/ Decide(s) \/ Finish(s)

Spec == Init /\ [][Next]_vars

-----------------------------------------------------------------------------
(* Properties                                                              *)

(* Rows and requests have the shape of their tables and of the handlers.   *)
TypeOK ==
  /\ organizations \in [Organization -> OrganizationRow \cup {NoOrganization}]
  /\ memberships \in
       [Organization -> [User -> MembershipRow \cup {NoMembership}]]
  /\ tx \in [Slot -> Tx]

HasAdmin(o) == list_active_admins(o) # {}

(* The slot s commits what it has prepared for the organization o.         *)
Commits(s, o) ==
  tx[s].pc = "commit" /\ tx'[s] = Idle /\ tx[s].organization = o

(* No sequence of invitations, promotions, demotions and deactivations     *)
(* leaves an organization without an active administrator                  *)
(* (require_active_admin_remains).  Overlapping requests may, but only if  *)
(* the one that commits relied on another administrator who ceased to be   *)
(* one between its check and its commit: a single stale read of            *)
(* list_active_admins is what it takes.                                    *)
AdminLossNeedsOverlap ==
  [][\A o \in Organization :
       HasAdmin(o) /\ ~HasAdmin(o)' =>
         \E s \in Slot : /\ Commits(s, o) /\ tx[s].relied # {}
                         /\ tx[s].relied \cap list_active_admins(o) = {}]_vars

(* Members and settings of an organization are changed only by a request   *)
(* whose user was an administrator of that very organization when          *)
(* get_tenant_context read the membership, and, while requests do not      *)
(* overlap, still is an active one at the commit, several reads later.  So *)
(* a member demoted meanwhile is the only other who can get a change       *)
(* through, with the one request that was under way.                       *)
ChangedByAdminOnEntry ==
  [][\A o \in Organization :
       organizations[o] # NoOrganization
       /\ (memberships[o] # memberships'[o] \/ organizations[o] # organizations'[o])
       => \E s \in Slot : /\ Commits(s, o) /\ tx[s].role = "admin"
                          /\ Sequential => tx[s].user \in list_active_admins(o)]_vars

(* The number an update was to write is another's by now: it is not the    *)
(* next one of the row, or `save' found it in the row and left it out.     *)
NumberTaken(r) ==
  /\ r.op = "update_organization" /\ r.work.version = r.seen.version + 1
  /\ \/ r.seen.version # organizations[r.organization].version
     \/ "version" \notin r.cols

(* The version an organization shows counts its changes one by one, so the *)
(* expected version of a caller who read before a change is refused after  *)
(* it (ConcurrencyError).  A change goes uncounted only by an update that  *)
(* another one, committed since its first read, took the number from.      *)
OrganizationVersionCounts ==
  [][\A o \in Organization :
       organizations[o] # organizations'[o] =>
         \/ organizations'[o].version = organizations[o].version + 1
         \/ ~Sequential /\ \E s \in Slot : Commits(s, o) /\ NumberTaken(tx[s])]_vars

(* An organization keeps an active administrator whatever runs at the same *)
(* time: "La organizaci\'on debe conservar al menos un administrador       *)
(* activo" (domain/organization.py, require_active_admin_remains).         *)
OrganizationKeepsAdmin ==
  \A o \in Organization : organizations[o] # NoOrganization => HasAdmin(o)

-----------------------------------------------------------------------------
(* The inductive invariant behind the three action properties              *)

(* The steps past the permission check of a request on an organization.    *)
Entered == {"update_organization", "create_membership", "update_membership"}
Allowed == {"admins", "save", "commit"}
Prepared == {"save", "commit"}

(* What the step a request has reached says of its record.                 *)
RequestShape(r) ==
  /\ r.pc \in {"off", "idle"} <=> r.op = None
  /\ r.op # None => r.user \in User /\ r.organization \in Organization
  /\ r.op \in {"create_membership", "update_membership"} => r.target \in User
  /\ r.op \in Entered => r.role \in Role
  /\ r.op \in Entered /\ r.pc \in Allowed => r.role = "admin"
  /\ r.pc = "admins" => r.op = "update_membership" /\ r.seen \in MembershipRow
  /\ r.op = "create_organization" => r.pc = "commit" /\ r.work \in OrganizationRow
                                     /\ r.work.version = 1
  /\ r.op = "update_organization" /\ r.pc \in Prepared =>
       /\ r.seen \in OrganizationRow /\ r.work \in OrganizationRow
       /\ r.work.version = r.seen.version + 1
  /\ r.op = "create_membership" /\ r.pc = "commit" => r.work \in MembershipRow
  /\ r.op = "update_membership" /\ r.pc \in Prepared =>
       /\ r.work \in MembershipRow
       /\ r.target \notin r.relied
       /\ r.relied # {} \/ IsAdmin(r.work)

(* What a request has found is never deleted.                              *)
RowsStay(r) ==
  /\ r.op \in Entered => organizations[r.organization] \in OrganizationRow
  /\ r.op = "update_membership" /\ r.pc \in Allowed =>
       memberships[r.organization][r.target] \in MembershipRow

(* The id of an organization being created is nobody else's.               *)
NewIds ==
  \A s \in Slot : tx[s].op = "create_organization" =>
    /\ organizations[tx[s].organization] = NoOrganization
    /\ \A s2 \in Slot \ {s} : tx[s2].organization # tx[s].organization

(* What one thread has read is what is there.                              *)
FreshRequest(r) ==
  /\ r.op \in Entered =>
       /\ is_active(memberships[r.organization][r.user])
       /\ memberships[r.organization][r.user].role = r.role
  /\ r.op = "update_membership" /\ r.pc \in Prepared =>
       r.relied = list_active_admins(r.organization) \ {r.target}
  /\ r.op = "update_organization" /\ r.pc \in Prepared =>
       r.work.version = organizations[r.organization].version + 1
  /\ r.op = "update_organization" /\ r.pc = "commit" => "version" \in r.cols

IInv ==
  /\ TypeOK
  /\ \A s \in Slot : RequestShape(tx[s]) /\ RowsStay(tx[s])
  /\ NewIds
  /\ Sequential => \A s \in Slot : FreshRequest(tx[s])
=============================================================================
