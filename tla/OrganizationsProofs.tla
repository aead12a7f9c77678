-------------------------- MODULE OrganizationsProofs --------------------------
(***************************************************************************)
(* Proofs about Organizations for every set of organizations, users, slugs *)
(* and threads.  A request that reads and decides only changes the record  *)
(* of its slot (Moves); what it leaves there is the invariant's business.  *)
(* Three commits write the rows the others read.                           *)
(***************************************************************************)
EXTENDS Organizations, TLAPS

-----------------------------------------------------------------------------
(* Operators                                                               *)

(* Only administrators manage members and settings.                        *)
LEMMA OnlyAdminsManage ==
  ASSUME NEW role \in Role,
         has_permission(role, "manage_members")
           \/ has_permission(role, "manage_organization")
  PROVE  role = "admin"
BY DEF has_permission, ROLE_PERMISSIONS, Role, Viewer, Analyst, Admin

(* No row of a table is the absent one.                                    *)
LEMMA Absent ==
  /\ NoMembership \notin MembershipRow
  /\ NoOrganization \notin OrganizationRow
  /\ \A m \in MembershipRow \cup {NoMembership} : is_active(m) => m \in MembershipRow
BY DEF NoMembership, NoOrganization, MembershipRow, OrganizationRow, MembershipStatus,
       OrganizationStatus, is_active

LEMMA UpdatesType ==
  /\ \A m \in MembershipRow, role \in Role \cup {None},
        status \in MembershipStatus \cup {None} :
       membership_with_updates(m, role, status) \in MembershipRow
  /\ \A row \in OrganizationRow, status \in OrganizationStatus \cup {None} :
       /\ organization_with_updates(row, status) \in OrganizationRow
       /\ organization_with_updates(row, status).version = row.version + 1
<1>1. ASSUME NEW m \in MembershipRow, NEW role \in Role \cup {None},
             NEW status \in MembershipStatus \cup {None}
      PROVE  membership_with_updates(m, role, status) \in MembershipRow
  BY DEF membership_with_updates, MembershipRow
<1>2. ASSUME NEW row \in OrganizationRow, NEW status \in OrganizationStatus \cup {None}
      PROVE  /\ organization_with_updates(row, status) \in OrganizationRow
             /\ organization_with_updates(row, status).version = row.version + 1
  <2>1. PICK st \in OrganizationStatus :
          organization_with_updates(row, status) =
            [row EXCEPT !.status = st, !.version = row.version + 1]
    BY DEF organization_with_updates, OrganizationRow
  <2>2. row.version \in Nat /\ row.version + 1 \in Nat \ {0}
    BY DEF OrganizationRow
  <2> QED
    BY <2>1, <2>2 DEF OrganizationRow
<1> QED
  BY <1>1, <1>2

(* An UPDATE of some columns leaves a row, and an administrator if both    *)
(* the row and the object were one.                                        *)
LEMMA UpdatedMembership ==
  ASSUME NEW row \in MembershipRow, NEW new \in MembershipRow, NEW cols
  PROVE  /\ Updated(row, new, cols) \in MembershipRow
         /\ IsAdmin(row) /\ IsAdmin(new) => IsAdmin(Updated(row, new, cols))
BY DEF Updated, MembershipRow, IsAdmin, is_active

LEMMA UpdatedOrganization ==
  ASSUME NEW row \in OrganizationRow, NEW new \in OrganizationRow, NEW cols
  PROVE  /\ Updated(row, new, cols) \in OrganizationRow
         /\ "version" \in cols => Updated(row, new, cols).version = new.version
BY DEF Updated, OrganizationRow

LEMMA ChangedColumns ==
  /\ \A row, new \in MembershipRow :
       Changed(row, new) \in SUBSET {"role", "status", "slug", "version"}
  /\ \A row, new \in OrganizationRow :
       /\ Changed(row, new) \in SUBSET {"role", "status", "slug", "version"}
       /\ row.version # new.version => "version" \in Changed(row, new)
BY DEF Changed, MembershipRow, OrganizationRow

-----------------------------------------------------------------------------
(* Requests                                                                *)

(* What the invariant says of one slot.                                    *)
LEMMA Request ==
  ASSUME IInv, NEW s \in Slot
  PROVE  /\ tx[s] \in Tx /\ RequestShape(tx[s]) /\ RowsStay(tx[s])
         /\ Sequential => FreshRequest(tx[s])
         /\ organizations \in [Organization -> OrganizationRow \cup {NoOrganization}]
         /\ memberships \in
              [Organization -> [User -> MembershipRow \cup {NoMembership}]]
BY DEF IInv, TypeOK

(* The slot s comes to hold t, and no row changes.                         *)
Moves(s, t) ==
  /\ t \in Tx /\ tx[s].pc # "off" /\ t.pc # "off"
  /\ tx' = [tx EXCEPT ![s] = t]
  /\ UNCHANGED <<organizations, memberships>>
  /\ RequestShape(t) /\ RowsStay(t)
  /\ t.op = "create_organization" =>
       /\ organizations[t.organization] = NoOrganization
       /\ \A s2 \in Slot \ {s} : tx[s2].organization # t.organization
  /\ \A s2 \in Slot \ {s} :
       tx[s2].op = "create_organization" => t.organization # tx[s2].organization
  /\ Sequential => FreshRequest(t)

(* A slot that is on stays on, so which threads exist does not change.     *)
LEMMA SamePool ==
  ASSUME TypeOK, NEW s \in Slot, NEW t \in Tx, tx[s].pc # "off", t.pc # "off",
         tx' = [tx EXCEPT ![s] = t]
  PROVE  /\ tx' \in [Slot -> Tx] /\ tx'[s] = t
         /\ \A s2 \in Slot \ {s} : tx'[s2] = tx[s2]
         /\ Sequential' => /\ Sequential
                           /\ \A s2 \in Slot \ {s} : tx[s2].pc = "off"
BY DEF TypeOK, Sequential

(* A slot that is off holds no request, so it is fresh whatever is there.  *)
LEMMA OffIsFresh ==
  ASSUME NEW r, RequestShape(r), r.pc = "off"
  PROVE  FreshRequest(r) /\ FreshRequest(r)'
BY OrganizationsAssumption DEF RequestShape, FreshRequest, Entered

LEMMA MovesInv ==
  ASSUME IInv, NEW s \in Slot, NEW t, Moves(s, t)
  PROVE  IInv'
<1>1. /\ tx' \in [Slot -> Tx] /\ tx'[s] = t
      /\ \A s2 \in Slot \ {s} : tx'[s2] = tx[s2]
      /\ Sequential' => Sequential
  BY SamePool DEF IInv, Moves
<1>2. TypeOK'
  BY <1>1 DEF IInv, TypeOK, Moves
<1>3. ASSUME NEW s2 \in Slot
      PROVE  /\ RequestShape(tx'[s2]) /\ RowsStay(tx'[s2])
             /\ Sequential => FreshRequest(tx'[s2])
  BY <1>1 DEF IInv, Moves
<1>4. \A s2 \in Slot : RequestShape(tx[s2])' /\ RowsStay(tx[s2])'
  BY <1>3 DEF Moves, RequestShape, RowsStay
<1>5. NewIds'
  BY <1>1 DEF IInv, NewIds, Moves
<1>6. Sequential' => \A s2 \in Slot : FreshRequest(tx[s2])'
  BY <1>1, <1>3 DEF Moves, FreshRequest, list_active_admins
<1> QED
  BY <1>2, <1>4, <1>5, <1>6 DEF IInv

(* A request that goes on keeps what it has done so far.                   *)
LEMMA GoesOn ==
  ASSUME IInv, NEW s \in Slot, NEW t \in Tx, tx[s].op \in Entered,
         t.op = tx[s].op, t.organization = tx[s].organization,
         t.pc # "off", RequestShape(t), RowsStay(t), Sequential => FreshRequest(t),
         tx' = [tx EXCEPT ![s] = t], UNCHANGED <<organizations, memberships>>
  PROVE  Moves(s, t)
<1>1. tx[s].pc # "off" /\ t.op # "create_organization"
  BY Request, OrganizationsAssumption DEF RequestShape, Entered
<1>2. \A s2 \in Slot \ {s} :
        tx[s2].op = "create_organization" => t.organization # tx[s2].organization
  BY DEF IInv, NewIds
<1> QED
  BY <1>1, <1>2 DEF Moves

LEMMA IdleFacts ==
  /\ Idle \in Tx /\ Idle.pc = "idle" /\ Idle.op = None /\ Idle.organization = None
  /\ RequestShape(Idle) /\ RowsStay(Idle) /\ FreshRequest(Idle)
<1>1. Idle \in Tx
  BY DEF Idle, Tx
<1>2. Idle.pc = "idle" /\ Idle.op = None /\ Idle.organization = None
  BY DEF Idle
<1>3. RequestShape(Idle) /\ RowsStay(Idle) /\ FreshRequest(Idle)
  BY <1>2, OrganizationsAssumption
     DEF RequestShape, RowsStay, FreshRequest, Entered, Allowed, Prepared
<1> QED
  BY <1>1, <1>2, <1>3

LEMMA RollbackMoves ==
  ASSUME IInv, NEW s \in Slot, Rollback(s)
  PROVE  Moves(s, Idle)
<1>1. \A s2 \in Slot \ {s} :
        tx[s2].op = "create_organization" => Idle.organization # tx[s2].organization
  BY Request, IdleFacts, OrganizationsAssumption DEF RequestShape
<1> QED
  BY <1>1, IdleFacts, OrganizationsAssumption DEF Rollback, Moves

LEMMA CreateMoves ==
  ASSUME IInv, NEW s \in Slot, NEW u \in User, NEW o \in Organization, NEW slug \in Slug,
         CreateOrganization(s, u, o, slug)
  PROVE  \E t : Moves(s, t)
<1> DEFINE row == [slug |-> slug, status |-> "active", version |-> 1]
           t == [Idle EXCEPT !.pc = "commit", !.op = "create_organization",
                             !.user = u, !.organization = o, !.target = u, !.work = row]
<1>1. row \in OrganizationRow /\ row.version = 1
  BY DEF OrganizationRow, OrganizationStatus
<1> HIDE DEF row
<1>2. t \in Tx
  BY <1>1, IdleFacts DEF Tx, Op
<1>3. /\ t.pc = "commit" /\ t.op = "create_organization" /\ t.user = u
      /\ t.organization = o /\ t.work = row
  BY DEF Idle
<1>4. tx' = [tx EXCEPT ![s] = t]
  BY DEF CreateOrganization, row
<1> HIDE DEF t
<1>5. RequestShape(t) /\ RowsStay(t) /\ FreshRequest(t)
  BY <1>1, <1>3, OrganizationsAssumption
     DEF RequestShape, RowsStay, FreshRequest, Entered, Allowed, Prepared
<1>6. /\ tx[s].pc # "off" /\ organizations[o] = NoOrganization
      /\ \A s2 \in Slot : tx[s2].organization # o
      /\ UNCHANGED <<organizations, memberships>>
  BY DEF CreateOrganization
<1>7. Moves(s, t)
  BY <1>2, <1>3, <1>4, <1>5, <1>6 DEF Moves
<1> QED
  BY <1>7

(* The membership read on entry is the one of the user who asks.           *)
LEMMA EnterMoves ==
  ASSUME IInv, NEW s \in Slot, NEW u \in User, NEW o \in Organization,
         NEW op \in Entered, NEW target \in User \cup {None},
         op # "update_organization" => target \in User,
         Enter(s, u, o, op, target)
  PROVE  \E t : Moves(s, t)
<1> DEFINE role == memberships[o][u].role
           t == [Idle EXCEPT !.pc = "context", !.op = op, !.user = u, !.target = target,
                             !.organization = o, !.role = role]
<1>1. memberships[o][u] \in MembershipRow /\ organizations[o] \in OrganizationRow
  BY Request, Absent DEF Enter
<1>2. role \in Role
  BY <1>1 DEF MembershipRow
<1>3. t \in Tx
  BY <1>2, IdleFacts DEF Tx, Op, Entered
<1>4. /\ t.pc = "context" /\ t.op = op /\ t.user = u /\ t.target = target
      /\ t.organization = o /\ t.role = role
  BY DEF Idle
<1>5. tx' = [tx EXCEPT ![s] = t]
  BY DEF Enter
<1>6. /\ tx[s].pc # "off" /\ is_active(memberships[o][u])
      /\ organizations[o] # NoOrganization
      /\ UNCHANGED <<organizations, memberships>>
  BY DEF Enter
<1> HIDE DEF t
<1>7. RequestShape(t) /\ RowsStay(t) /\ FreshRequest(t)
  BY <1>1, <1>2, <1>4, <1>6, OrganizationsAssumption
     DEF RequestShape, RowsStay, FreshRequest, Entered, Allowed, Prepared
<1>8. \A s2 \in Slot \ {s} :
        tx[s2].op = "create_organization" => t.organization # tx[s2].organization
  BY <1>4, <1>6 DEF IInv, NewIds
<1>9. t.op # "create_organization"
  BY <1>4 DEF Entered
<1>10. Moves(s, t)
  BY <1>3, <1>4, <1>5, <1>6, <1>7, <1>8, <1>9 DEF Moves
<1> QED
  BY <1>10

LEMMA StartMoves ==
  ASSUME IInv, NEW s \in Slot, Start(s)
  PROVE  \E t : Moves(s, t)
BY CreateMoves, EnterMoves DEF Start, Entered

LEMMA CreateMembershipMoves ==
  ASSUME IInv, NEW s \in Slot, NEW role \in Role, CreateMembership(s, role)
  PROVE  \E t : Moves(s, t)
<1> DEFINE r == tx[s]
           t == [r EXCEPT !.pc = "commit", !.work = [role |-> role, status |-> "active"]]
<1>1. /\ r \in Tx /\ RequestShape(r) /\ RowsStay(r)
      /\ Sequential => FreshRequest(r)
  BY Request
<1>2. /\ r.pc = "context" /\ r.op = "create_membership"
      /\ has_permission(r.role, "manage_members")
      /\ UNCHANGED <<organizations, memberships>>
  BY DEF CreateMembership
<1>3. [role |-> role, status |-> "active"] \in MembershipRow
  BY DEF MembershipRow, MembershipStatus
<1>4. /\ t \in Tx /\ t.pc = "commit" /\ t.op = r.op /\ t.user = r.user
      /\ t.organization = r.organization /\ t.target = r.target /\ t.role = r.role
      /\ t.work \in MembershipRow
  BY <1>1, <1>3 DEF Tx
<1>5. tx' = [tx EXCEPT ![s] = t]
  BY <1>1 DEF CreateMembership, Tx
<1>6. r.role = "admin"
  BY <1>1, <1>2, OnlyAdminsManage DEF RequestShape, Entered
<1> HIDE DEF t
<1>7. /\ RequestShape(t) /\ RowsStay(t)
      /\ Sequential => FreshRequest(t)
  BY <1>1, <1>2, <1>4, <1>6, OrganizationsAssumption
     DEF RequestShape, RowsStay, FreshRequest, Entered, Allowed, Prepared
<1>8. Moves(s, t)
  BY <1>2, <1>4, <1>5, <1>7, GoesOn DEF Entered
<1> QED
  BY <1>8

LEMMA ReadMembershipMoves ==
  ASSUME IInv, NEW s \in Slot, ReadMembership(s)
  PROVE  \E t : Moves(s, t)
<1> DEFINE r == tx[s]
           row == memberships[r.organization][r.target]
           t == [r EXCEPT !.pc = "admins", !.seen = row]
<1>1. /\ r \in Tx /\ RequestShape(r) /\ RowsStay(r)
      /\ Sequential => FreshRequest(r)
  BY Request
<1>2. /\ r.pc = "context" /\ r.op = "update_membership" /\ row # NoMembership
      /\ has_permission(r.role, "manage_members")
      /\ UNCHANGED <<organizations, memberships>>
  BY DEF ReadMembership
<1>3. row \in MembershipRow
  BY <1>1, <1>2, Request, OrganizationsAssumption DEF RequestShape
<1>4. /\ t \in Tx /\ t.pc = "admins" /\ t.op = r.op /\ t.user = r.user
      /\ t.organization = r.organization /\ t.target = r.target /\ t.role = r.role
      /\ t.seen = row
  BY <1>1, <1>3 DEF Tx
<1>5. tx' = [tx EXCEPT ![s] = t]
  BY <1>1 DEF ReadMembership, Tx
<1>6. r.role = "admin"
  BY <1>1, <1>2, OnlyAdminsManage DEF RequestShape, Entered
<1> HIDE DEF t
<1>7. /\ RequestShape(t) /\ RowsStay(t)
      /\ Sequential => FreshRequest(t)
  BY <1>1, <1>2, <1>3, <1>4, <1>6, OrganizationsAssumption
     DEF RequestShape, RowsStay, FreshRequest, Entered, Allowed, Prepared
<1>8. Moves(s, t)
  BY <1>2, <1>4, <1>5, <1>7, GoesOn DEF Entered
<1> QED
  BY <1>8

(* Either somebody else is an administrator or the one changed stays one.  *)
LEMMA RequireMoves ==
  ASSUME IInv, NEW s \in Slot, NEW role \in Role \cup {None},
         NEW status \in MembershipStatus \cup {None},
         RequireActiveAdminRemains(s, role, status)
  PROVE  \E t : Moves(s, t)
<1> DEFINE r == tx[s]
           next == membership_with_updates(r.seen, role, status)
           others == list_active_admins(r.organization) \ {r.target}
           t == [r EXCEPT !.pc = "save", !.relied = others, !.work = next]
<1>1. /\ r \in Tx /\ RequestShape(r) /\ RowsStay(r)
      /\ Sequential => FreshRequest(r)
  BY Request
<1>2. /\ r.pc = "admins"
      /\ others # {} \/ IsAdmin(next)
      /\ UNCHANGED <<organizations, memberships>>
  BY DEF RequireActiveAdminRemains
<1>3. r.op = "update_membership" /\ r.seen \in MembershipRow /\ next \in MembershipRow
  BY <1>1, <1>2, UpdatesType DEF RequestShape
<1>4. others \in SUBSET User
  BY DEF list_active_admins
<1>5. tx' = [tx EXCEPT ![s] = t]
  BY <1>1 DEF RequireActiveAdminRemains, Tx
<1> HIDE DEF next, others
<1>6. /\ t \in Tx /\ t.pc = "save" /\ t.op = r.op /\ t.user = r.user
      /\ t.organization = r.organization /\ t.target = r.target /\ t.role = r.role
      /\ t.relied = others /\ t.work = next
  BY <1>1, <1>3, <1>4 DEF Tx
<1> HIDE DEF t
<1>7. /\ RequestShape(t) /\ RowsStay(t)
      /\ Sequential => FreshRequest(t)
  BY <1>1, <1>2, <1>3, <1>6, OrganizationsAssumption
     DEF RequestShape, RowsStay, FreshRequest, Entered, Allowed, Prepared, others
<1>8. r.pc = "admins" /\ UNCHANGED <<organizations, memberships>>
  BY <1>2
<1>9. Moves(s, t)
  BY <1>3, <1>5, <1>6, <1>7, <1>8, GoesOn DEF Entered
<1> QED
  BY <1>9

LEMMA ReadOrganizationMoves ==
  ASSUME IInv, NEW s \in Slot, NEW status \in OrganizationStatus \cup {None},
         ReadOrganization(s, status)
  PROVE  \E t : Moves(s, t)
<1> DEFINE r == tx[s]
           row == organizations[r.organization]
           new == organization_with_updates(row, status)
           t == [r EXCEPT !.pc = "save", !.seen = row, !.work = new]
<1>1. /\ r \in Tx /\ RequestShape(r) /\ RowsStay(r)
      /\ Sequential => FreshRequest(r)
  BY Request
<1>2. /\ r.pc = "context" /\ r.op = "update_organization"
      /\ has_permission(r.role, "manage_organization")
      /\ UNCHANGED <<organizations, memberships>>
  BY DEF ReadOrganization
<1>3. /\ row \in OrganizationRow /\ new \in OrganizationRow
      /\ new.version = row.version + 1
  BY <1>1, <1>2, UpdatesType DEF RowsStay, Entered
<1>4. tx' = [tx EXCEPT ![s] = t]
  BY <1>1 DEF ReadOrganization, Tx
<1> HIDE DEF new
<1>5. /\ t \in Tx /\ t.pc = "save" /\ t.op = r.op /\ t.user = r.user
      /\ t.organization = r.organization /\ t.target = r.target /\ t.role = r.role
      /\ t.seen = row /\ t.work = new
  BY <1>1, <1>3 DEF Tx
<1>6. r.role = "admin"
  BY <1>1, <1>2, OnlyAdminsManage DEF RequestShape, Entered
<1> HIDE DEF t
<1>7. /\ RequestShape(t) /\ RowsStay(t)
      /\ Sequential => FreshRequest(t)
  BY <1>1, <1>2, <1>3, <1>5, <1>6, OrganizationsAssumption
     DEF RequestShape, RowsStay, FreshRequest, Entered, Allowed, Prepared
<1>8. Moves(s, t)
  BY <1>2, <1>4, <1>5, <1>7, GoesOn DEF Entered
<1> QED
  BY <1>8

(* The second read of the row: its difference from the object is what the  *)
(* COMMIT will write.                                                      *)
LEMMA SaveMoves ==
  ASSUME IInv, NEW s \in Slot, SaveMembership(s) \/ SaveOrganization(s)
  PROVE  \E t : Moves(s, t)
<1> DEFINE r == tx[s]
           row == IF r.op = "update_membership" THEN memberships[r.organization][r.target]
                  ELSE organizations[r.organization]
           cols == Changed(row, r.work)
           t == [r EXCEPT !.pc = "commit", !.cols = cols]
<1>1. /\ r \in Tx /\ RequestShape(r) /\ RowsStay(r)
      /\ Sequential => FreshRequest(r)
  BY Request
<1>2. /\ r.pc = "save" /\ r.op \in {"update_membership", "update_organization"}
      /\ UNCHANGED <<organizations, memberships>>
  BY DEF SaveMembership, SaveOrganization
<1>3. tx' = [tx EXCEPT ![s] = t]
  BY <1>1, <1>2 DEF SaveMembership, SaveOrganization, Tx
<1>4. \/ row \in MembershipRow /\ r.work \in MembershipRow
      \/ row \in OrganizationRow /\ r.work \in OrganizationRow
  BY <1>1, <1>2 DEF RequestShape, RowsStay, Allowed, Prepared, Entered
<1>5. cols \in SUBSET {"role", "status", "slug", "version"}
  BY <1>4, ChangedColumns
<1>6. Sequential /\ r.op = "update_organization" => "version" \in cols
  <2>1. r.op = "update_organization" =>
          r.work \in OrganizationRow /\ organizations[r.organization] \in OrganizationRow
    BY <1>1, <1>2 DEF RequestShape, RowsStay, Entered, Prepared
  <2>2. Sequential /\ r.op = "update_organization" => r.work.version = row.version + 1
    BY <1>1, <1>2 DEF FreshRequest, Prepared
  <2>3. \A o \in OrganizationRow : o.version \in Nat
    BY DEF OrganizationRow
  <2>4. r.op = "update_organization" => row = organizations[r.organization]
    OBVIOUS
  <2> QED
    BY <2>1, <2>2, <2>3, <2>4, ChangedColumns
<1> HIDE DEF cols, row
<1>7. /\ t \in Tx /\ t.pc = "commit" /\ t.op = r.op /\ t.user = r.user
      /\ t.organization = r.organization /\ t.target = r.target /\ t.role = r.role
      /\ t.relied = r.relied /\ t.seen = r.seen /\ t.work = r.work /\ t.cols = cols
  BY <1>1, <1>5 DEF Tx
<1> HIDE DEF t
<1>8. /\ RequestShape(t) /\ RowsStay(t)
      /\ Sequential => FreshRequest(t)
  BY <1>1, <1>2, <1>6, <1>7, OrganizationsAssumption
     DEF RequestShape, RowsStay, FreshRequest, Entered, Allowed, Prepared
<1>9. Moves(s, t)
  BY <1>2, <1>3, <1>7, <1>8, GoesOn DEF Entered
<1> QED
  BY <1>9

-----------------------------------------------------------------------------
(* Commits                                                                 *)

(* A commit that takes no row away.  One thread alone is then idle, so     *)
(* nothing it has read is left to be stale.                                *)
LEMMA CommitsInv ==
  ASSUME IInv, NEW s \in Slot, tx[s].pc = "commit", tx' = [tx EXCEPT ![s] = Idle],
         organizations' \in [Organization -> OrganizationRow \cup {NoOrganization}],
         memberships' \in [Organization -> [User -> MembershipRow \cup {NoMembership}]],
         \A o \in Organization :
           organizations[o] \in OrganizationRow => organizations'[o] \in OrganizationRow,
         \A o \in Organization, u \in User :
           memberships[o][u] \in MembershipRow => memberships'[o][u] \in MembershipRow,
         \A o \in Organization :
           organizations'[o] = organizations[o] \/ o = tx[s].organization
  PROVE  IInv'
<1>1. /\ tx' \in [Slot -> Tx] /\ tx'[s] = Idle
      /\ \A s2 \in Slot \ {s} : tx'[s2] = tx[s2]
      /\ Sequential' => \A s2 \in Slot \ {s} : tx[s2].pc = "off"
  BY SamePool, IdleFacts DEF IInv
<1>2. TypeOK'
  BY <1>1 DEF TypeOK
<1>3. \A s2 \in Slot : RequestShape(tx'[s2])
  BY <1>1, IdleFacts DEF IInv
<1>4. \A s2 \in Slot : RequestShape(tx[s2])'
  BY <1>3 DEF RequestShape
<1>5. ASSUME NEW s2 \in Slot
      PROVE  RowsStay(tx[s2])'
  <2>1. CASE s2 = s
    BY <1>1, <2>1, IdleFacts, OrganizationsAssumption DEF RowsStay, Entered
  <2>2. CASE s2 # s
    <3>1. RequestShape(tx[s2]) /\ RowsStay(tx[s2]) /\ tx'[s2] = tx[s2]
      BY <1>1, <2>2, Request
    <3> QED
      BY <3>1, OrganizationsAssumption DEF RequestShape, RowsStay, Entered
  <2> QED
    BY <2>1, <2>2
<1>6. NewIds'
  <2> SUFFICES ASSUME NEW s2 \in Slot, tx'[s2].op = "create_organization"
               PROVE  /\ organizations'[tx'[s2].organization] = NoOrganization
                      /\ \A s3 \in Slot \ {s2} :
                           tx'[s3].organization # tx'[s2].organization
    BY DEF NewIds
  <2>1. s2 # s /\ tx'[s2] = tx[s2]
    BY <1>1, IdleFacts, OrganizationsAssumption
  <2>2. /\ organizations[tx[s2].organization] = NoOrganization
        /\ \A s3 \in Slot \ {s2} : tx[s3].organization # tx[s2].organization
    BY <2>1 DEF IInv, NewIds
  <2>3. tx[s2].organization \in Organization
    BY <2>1, Request, OrganizationsAssumption DEF RequestShape
  <2>4. Idle.organization # tx[s2].organization
    BY <2>3, IdleFacts, OrganizationsAssumption
  <2> QED
    BY <1>1, <2>1, <2>2, <2>3, <2>4
<1>7. ASSUME Sequential', NEW s2 \in Slot
      PROVE  FreshRequest(tx[s2])'
  <2>1. tx'[s2].op \notin Entered
    BY <1>1, <1>7, IdleFacts, Request, OrganizationsAssumption DEF RequestShape, Entered
  <2> QED
    BY <2>1 DEF FreshRequest, Entered
<1> QED
  BY <1>2, <1>4, <1>5, <1>6, <1>7 DEF IInv

(* What a membership UPDATE writes is a row of both its sides.             *)
LEMMA MembershipWritten ==
  ASSUME IInv, NEW s \in Slot, CommitMembership(s)
  PROVE  LET o == tx[s].organization
             u == tx[s].target
         IN  /\ o \in Organization /\ u \in User
             /\ tx[s].pc = "commit" /\ tx'[s] = Idle
             /\ tx' = [tx EXCEPT ![s] = Idle]
             /\ memberships' = [memberships EXCEPT ![o][u] = memberships'[o][u]]
             /\ memberships'[o][u] \in MembershipRow
             /\ UNCHANGED organizations
             /\ tx[s].op = "update_membership" =>
                  /\ memberships[o][u] \in MembershipRow
                  /\ memberships'[o][u] = Updated(memberships[o][u], tx[s].work, tx[s].cols)
             /\ tx[s].op # "update_membership" => memberships[o][u] = NoMembership
<1> DEFINE r == tx[s]
           o == r.organization
           u == r.target
           row == memberships[o][u]
           new == IF r.op = "create_membership" THEN r.work
                  ELSE Updated(row, r.work, r.cols)
<1>1. /\ RequestShape(r) /\ RowsStay(r)
      /\ memberships \in [Organization -> [User -> MembershipRow \cup {NoMembership}]]
      /\ tx \in [Slot -> Tx]
  BY Request DEF IInv, TypeOK
<1>2. /\ r.pc = "commit" /\ r.op \in {"create_membership", "update_membership"}
      /\ r.op = "create_membership" => row = NoMembership
      /\ memberships' = [memberships EXCEPT ![o][u] = new]
      /\ tx' = [tx EXCEPT ![s] = Idle]
      /\ UNCHANGED organizations
  BY DEF CommitMembership
<1>3. o \in Organization /\ u \in User /\ r.work \in MembershipRow
  BY <1>1, <1>2, OrganizationsAssumption DEF RequestShape, Prepared
<1>4. r.op = "update_membership" => row \in MembershipRow
  BY <1>1, <1>2 DEF RowsStay, Allowed
<1>5. new \in MembershipRow
  BY <1>2, <1>3, <1>4, UpdatedMembership
<1>6. memberships'[o][u] = new
  BY <1>1, <1>2, <1>3
<1>7. tx'[s] = Idle
  BY <1>1, <1>2
<1> QED
  BY <1>2, <1>3, <1>4, <1>5, <1>6, <1>7

(* Writing one membership keeps the table and every row of it.             *)
LEMMA OneMembershipWritten ==
  ASSUME NEW f \in [Organization -> [User -> MembershipRow \cup {NoMembership}]],
         NEW g, NEW o \in Organization, NEW u \in User, NEW row \in MembershipRow,
         g = [f EXCEPT ![o] = [f[o] EXCEPT ![u] = row]]
  PROVE  /\ g \in [Organization -> [User -> MembershipRow \cup {NoMembership}]]
         /\ \A p \in Organization, v \in User :
              f[p][v] \in MembershipRow => g[p][v] \in MembershipRow
<1>1. f[o] \in [User -> MembershipRow \cup {NoMembership}]
  OBVIOUS
<1> DEFINE h == [f[o] EXCEPT ![u] = row]
<1>2. /\ h \in [User -> MembershipRow \cup {NoMembership}]
      /\ \A v \in User : f[o][v] \in MembershipRow => h[v] \in MembershipRow
  BY <1>1
<1> HIDE DEF h
<1>3. g = [f EXCEPT ![o] = h]
  BY DEF h
<1>4. g[o] = h /\ \A p \in Organization \ {o} : g[p] = f[p]
  BY <1>3
<1>5. g \in [Organization -> [User -> MembershipRow \cup {NoMembership}]]
  BY <1>2, <1>3
<1> QED
  BY <1>2, <1>4, <1>5

LEMMA CommitMembershipInv ==
  ASSUME IInv, NEW s \in Slot, CommitMembership(s)
  PROVE  IInv'
<1> DEFINE o == tx[s].organization
           u == tx[s].target
<1>1. /\ o \in Organization /\ u \in User /\ tx[s].pc = "commit"
      /\ tx' = [tx EXCEPT ![s] = Idle]
      /\ memberships' = [memberships EXCEPT ![o][u] = memberships'[o][u]]
      /\ memberships'[o][u] \in MembershipRow
      /\ UNCHANGED organizations
  BY MembershipWritten
<1>2. /\ memberships \in [Organization -> [User -> MembershipRow \cup {NoMembership}]]
      /\ organizations \in [Organization -> OrganizationRow \cup {NoOrganization}]
  BY Request
<1>3. /\ memberships' \in [Organization -> [User -> MembershipRow \cup {NoMembership}]]
      /\ \A p \in Organization, v \in User :
           memberships[p][v] \in MembershipRow => memberships'[p][v] \in MembershipRow
  <2> DEFINE row == memberships'[o][u]
  <2>1. row \in MembershipRow /\ memberships' = [memberships EXCEPT ![o] = [memberships[o] EXCEPT ![u] = row]]
    BY <1>1, <1>2
  <2> HIDE DEF row
  <2> QED
    BY <1>1, <1>2, <2>1, OneMembershipWritten
<1> QED
  BY <1>1, <1>2, <1>3, CommitsInv

LEMMA UpdateWritten ==
  ASSUME IInv, NEW s \in Slot, CommitUpdate(s)
  PROVE  LET o == tx[s].organization
         IN  /\ o \in Organization
             /\ tx[s].pc = "commit" /\ tx[s].op = "update_organization"
             /\ tx' = [tx EXCEPT ![s] = Idle]
             /\ organizations[o] \in OrganizationRow /\ tx[s].work \in OrganizationRow
             /\ organizations' = [organizations EXCEPT ![o] =
                                    Updated(organizations[o], tx[s].work, tx[s].cols)]
             /\ Updated(organizations[o], tx[s].work, tx[s].cols) \in OrganizationRow
             /\ UNCHANGED memberships
<1>1. RequestShape(tx[s]) /\ RowsStay(tx[s])
  BY Request
<1>2. tx[s].pc = "commit" /\ tx[s].op = "update_organization"
  BY DEF CommitUpdate
<1>3. /\ tx[s].organization \in Organization /\ tx[s].work \in OrganizationRow
      /\ organizations[tx[s].organization] \in OrganizationRow
  BY <1>1, <1>2, OrganizationsAssumption DEF RequestShape, RowsStay, Prepared, Entered
<1>4. Updated(organizations[tx[s].organization], tx[s].work, tx[s].cols) \in OrganizationRow
  BY <1>3, UpdatedOrganization
<1> QED
  BY <1>2, <1>3, <1>4 DEF CommitUpdate

LEMMA CommitUpdateInv ==
  ASSUME IInv, NEW s \in Slot, CommitUpdate(s)
  PROVE  IInv'
<1> DEFINE o == tx[s].organization
           new == Updated(organizations[o], tx[s].work, tx[s].cols)
<1>1. /\ o \in Organization /\ tx[s].pc = "commit" /\ tx' = [tx EXCEPT ![s] = Idle]
      /\ organizations' = [organizations EXCEPT ![o] = new]
      /\ new \in OrganizationRow /\ UNCHANGED memberships
  BY UpdateWritten
<1>2. /\ memberships \in [Organization -> [User -> MembershipRow \cup {NoMembership}]]
      /\ organizations \in [Organization -> OrganizationRow \cup {NoOrganization}]
  BY Request
<1> HIDE DEF new
<1> QED
  BY <1>1, <1>2, CommitsInv

(* A new organization comes with its administrator.                        *)
LEMMA OrganizationWritten ==
  ASSUME IInv, NEW s \in Slot, CommitOrganization(s)
  PROVE  LET o == tx[s].organization
             u == tx[s].user
             m == [role |-> "admin", status |-> "active"]
         IN  /\ o \in Organization /\ u \in User
             /\ tx[s].pc = "commit" /\ tx' = [tx EXCEPT ![s] = Idle]
             /\ organizations[o] = NoOrganization /\ tx[s].work.version = 1
             /\ organizations' = [organizations EXCEPT ![o] = tx[s].work]
             /\ tx[s].work \in OrganizationRow
             /\ memberships' = [memberships EXCEPT ![o][u] = m]
             /\ m \in MembershipRow /\ IsAdmin(m)
<1>1. RequestShape(tx[s]) /\ NewIds
  BY Request DEF IInv
<1>2. tx[s].pc = "commit" /\ tx[s].op = "create_organization"
  BY DEF CommitOrganization
<1>3. /\ tx[s].organization \in Organization /\ tx[s].user \in User
      /\ tx[s].work \in OrganizationRow /\ tx[s].work.version = 1
      /\ organizations[tx[s].organization] = NoOrganization
  BY <1>1, <1>2, OrganizationsAssumption DEF RequestShape, NewIds
<1>4. /\ [role |-> "admin", status |-> "active"] \in MembershipRow
      /\ IsAdmin([role |-> "admin", status |-> "active"])
  BY DEF MembershipRow, Role, MembershipStatus, IsAdmin, is_active
<1> QED
  BY <1>2, <1>3, <1>4 DEF CommitOrganization

LEMMA CommitOrganizationInv ==
  ASSUME IInv, NEW s \in Slot, CommitOrganization(s)
  PROVE  IInv'
<1> DEFINE o == tx[s].organization
           u == tx[s].user
           m == [role |-> "admin", status |-> "active"]
<1>1. /\ o \in Organization /\ u \in User /\ tx[s].pc = "commit"
      /\ tx' = [tx EXCEPT ![s] = Idle]
      /\ organizations' = [organizations EXCEPT ![o] = tx[s].work]
      /\ tx[s].work \in OrganizationRow
      /\ memberships' = [memberships EXCEPT ![o][u] = m]
      /\ m \in MembershipRow
  BY OrganizationWritten
<1>2. /\ memberships \in [Organization -> [User -> MembershipRow \cup {NoMembership}]]
      /\ organizations \in [Organization -> OrganizationRow \cup {NoOrganization}]
  BY Request
<1> HIDE DEF m
<1>3. /\ memberships' \in [Organization -> [User -> MembershipRow \cup {NoMembership}]]
      /\ \A p \in Organization, v \in User :
           memberships[p][v] \in MembershipRow => memberships'[p][v] \in MembershipRow
  <2>1. memberships' = [memberships EXCEPT ![o] = [memberships[o] EXCEPT ![u] = m]]
    BY <1>1, <1>2
  <2> QED
    BY <1>1, <1>2, <2>1, OneMembershipWritten
<1> QED
  BY <1>1, <1>2, <1>3, CommitsInv

-----------------------------------------------------------------------------
(* The invariant                                                           *)

LEMMA InitInv == Init => IInv
<1> SUFFICES ASSUME Init PROVE IInv
  OBVIOUS
<1>1. Off \in Tx /\ Off.pc = "off" /\ Off.op = None
  BY IdleFacts DEF Off, Idle, Tx
<1>2. \A s \in Slot : tx[s] \in {Idle, Off}
  BY DEF Init
<1>3. TypeOK
  BY <1>1, IdleFacts DEF Init, TypeOK
<1>4. \A s \in Slot : tx[s].pc \in {"off", "idle"} /\ tx[s].op = None
  BY <1>1, <1>2, IdleFacts
<1>5. \A s \in Slot : RequestShape(tx[s]) /\ RowsStay(tx[s]) /\ FreshRequest(tx[s])
  BY <1>4, OrganizationsAssumption
     DEF RequestShape, RowsStay, FreshRequest, Entered, Allowed, Prepared
<1>6. NewIds
  BY <1>4, OrganizationsAssumption DEF NewIds
<1> QED
  BY <1>3, <1>5, <1>6 DEF IInv

LEMMA DecideMoves ==
  ASSUME IInv, NEW s \in Slot, Start(s) \/ Decide(s) \/ SaveMembership(s)
                                 \/ SaveOrganization(s) \/ Rollback(s)
  PROVE  \E t : Moves(s, t)
BY StartMoves, CreateMembershipMoves, ReadMembershipMoves, RequireMoves,
   ReadOrganizationMoves, SaveMoves, RollbackMoves DEF Decide

LEMMA StepInv == IInv /\ [Next]_vars => IInv'
<1> SUFFICES ASSUME IInv, [Next]_vars PROVE IInv'
  OBVIOUS
<1>1. CASE UNCHANGED vars
  BY <1>1 DEF vars, IInv, TypeOK, RequestShape, RowsStay, NewIds, Sequential,
              FreshRequest, list_active_admins
<1>2. CASE Next
  <2>1. PICK s \in Slot : Start(s) \/ Decide(s) \/ Finish(s)
    BY <1>2 DEF Next
  <2>2. CASE Start(s) \/ Decide(s) \/ SaveMembership(s) \/ SaveOrganization(s) \/ Rollback(s)
    BY <2>2, DecideMoves, MovesInv
  <2> QED
    BY <2>1, <2>2, CommitOrganizationInv, CommitMembershipInv, CommitUpdateInv DEF Finish
<1> QED
  BY <1>1, <1>2

(* The invariant holds of every state: what a request has found stays,     *)
(* who decides is an administrator, and one thread reads what is there.    *)
THEOREM Invariance == Spec => []IInv
BY InitInv, StepInv, PTL DEF Spec

(* Rows and requests keep their shape, whatever unique constraint, refusal *)
(* or crash ends a request.                                                *)
THEOREM TypeCorrect == Spec => []TypeOK
<1>1. IInv => TypeOK
  BY DEF IInv
<1> QED
  BY <1>1, Invariance, PTL

(* Rows are written by the three commits alone.                            *)
LEMMA Writers ==
  ASSUME IInv, [Next]_vars
  PROVE  \/ UNCHANGED <<organizations, memberships>>
         \/ \E s \in Slot : CommitOrganization(s) \/ CommitMembership(s) \/ CommitUpdate(s)
<1>1. ASSUME NEW s \in Slot, Start(s) \/ Decide(s) \/ SaveMembership(s)
                               \/ SaveOrganization(s) \/ Rollback(s)
      PROVE  UNCHANGED <<organizations, memberships>>
  BY <1>1, DecideMoves DEF Moves
<1> QED
  BY <1>1 DEF Next, Finish, vars

-----------------------------------------------------------------------------
(* The last administrator                                                  *)

(* Who else is an administrator does not depend on the row written.        *)
LEMMA LossStep ==
  ASSUME IInv, [Next]_vars, NEW o \in Organization, HasAdmin(o), ~HasAdmin(o)'
  PROVE  \E s \in Slot : /\ tx[s].pc = "commit" /\ tx'[s] = Idle
                         /\ tx[s].op = "update_membership"
                         /\ tx[s].organization = o
                         /\ tx[s].relied # {}
                         /\ tx[s].relied \cap list_active_admins(o) = {}
<1>1. /\ memberships \in [Organization -> [User -> MembershipRow \cup {NoMembership}]]
      /\ \E u \in User : IsAdmin(memberships[o][u])
      /\ \A u \in User : ~IsAdmin(memberships'[o][u])
  BY DEF HasAdmin, list_active_admins, IInv, TypeOK
<1>2. PICK s \in Slot : CommitOrganization(s) \/ CommitMembership(s)
  BY <1>1, Writers DEF CommitUpdate
<1>3. ~CommitOrganization(s)
  <2> SUFFICES ASSUME CommitOrganization(s) PROVE FALSE
    OBVIOUS
  <2> DEFINE m == [role |-> "admin", status |-> "active"]
  <2>1. /\ tx[s].organization \in Organization /\ tx[s].user \in User
        /\ memberships' = [memberships EXCEPT ![tx[s].organization][tx[s].user] = m]
        /\ IsAdmin(m)
    BY OrganizationWritten
  <2> HIDE DEF m
  <2> QED
    BY <1>1, <2>1
<1> DEFINE p == tx[s].organization
           u == tx[s].target
<1>4. /\ p \in Organization /\ u \in User /\ tx[s].pc = "commit" /\ tx'[s] = Idle
      /\ memberships' = [memberships EXCEPT ![p][u] = memberships'[p][u]]
      /\ tx[s].op # "update_membership" => memberships[p][u] = NoMembership
      /\ tx[s].op = "update_membership" =>
           /\ memberships[p][u] \in MembershipRow
           /\ memberships'[p][u] = Updated(memberships[p][u], tx[s].work, tx[s].cols)
  BY <1>2, <1>3, MembershipWritten
<1>5. /\ o = p /\ IsAdmin(memberships[p][u]) /\ ~IsAdmin(memberships'[p][u])
      /\ \A v \in User : IsAdmin(memberships[o][v]) => v = u
  BY <1>1, <1>4
<1>6. tx[s].op = "update_membership"
  BY <1>4, <1>5 DEF NoMembership, IsAdmin, is_active
<1>7. /\ tx[s].work \in MembershipRow
      /\ u \notin tx[s].relied
      /\ tx[s].relied # {} \/ IsAdmin(tx[s].work)
  BY <1>4, <1>6, Request DEF RequestShape, Prepared
<1>8. tx[s].relied # {}
  BY <1>4, <1>5, <1>6, <1>7, UpdatedMembership
<1>9. tx[s].relied \cap list_active_admins(o) = {}
  BY <1>5, <1>7 DEF list_active_admins
<1> QED
  BY <1>4, <1>5, <1>6, <1>8, <1>9

(* No history of invitations, promotions, demotions and deactivations, of  *)
(* any number of users and requests, takes an organization's last          *)
(* administrator but through a commit that relied on administrators of     *)
(* whom none is left (require_active_admin_remains).                       *)
THEOREM LossNeedsStaleAdmins == Spec => AdminLossNeedsOverlap
<1> DEFINE LossIsStale ==
      \A o \in Organization :
        HasAdmin(o) /\ ~HasAdmin(o)' =>
          \E s \in Slot : /\ Commits(s, o) /\ tx[s].relied # {}
                          /\ tx[s].relied \cap list_active_admins(o) = {}
<1>1. IInv /\ [Next]_vars => LossIsStale
  BY LossStep DEF Commits
<1> HIDE DEF LossIsStale
<1>2. Spec => [][LossIsStale]_vars
  BY <1>1, Invariance, PTL DEF Spec
<1> QED
  BY <1>2, PTL DEF LossIsStale, AdminLossNeedsOverlap

(* Who sees nobody else's changes in between is the thread that runs alone.*)
LEMMA AloneStays == IInv /\ [Next]_vars => (Sequential' => Sequential)
<1> SUFFICES ASSUME IInv, [Next]_vars, NEW s \in Slot, tx'[s].pc = "off"
             PROVE  tx[s].pc = "off"
  BY DEF Sequential
<1>1. ASSUME NEW s2 \in Slot, Start(s2) \/ Decide(s2) \/ Finish(s2)
      PROVE  \E t : t.pc # "off" /\ tx' = [tx EXCEPT ![s2] = t]
  <2>1. CASE \E t : Moves(s2, t)
    BY <2>1 DEF Moves
  <2>2. CASE CommitOrganization(s2) \/ CommitMembership(s2) \/ CommitUpdate(s2)
    BY <2>2, OrganizationWritten, MembershipWritten, UpdateWritten, IdleFacts
  <2> QED
    BY <1>1, <2>1, <2>2, DecideMoves DEF Finish
<1>2. tx \in [Slot -> Tx]
  BY DEF IInv, TypeOK
<1> QED
  BY <1>1, <1>2 DEF Next, vars

(* While one thread serves, every organization there is has an active      *)
(* administrator, through any history of requests and failures: the domain *)
(* rule holds as it is written, and an overlap is what breaks it.          *)
THEOREM AloneKeepsAdmin == Spec => [](Sequential => OrganizationKeepsAdmin)
<1> DEFINE Alone == Sequential => OrganizationKeepsAdmin
<1>1. Init => Alone
  BY DEF Init, OrganizationKeepsAdmin
<1>2. IInv /\ Alone /\ [Next]_vars => Alone'
  <2> SUFFICES ASSUME IInv, [Next]_vars, Sequential', Sequential, OrganizationKeepsAdmin,
                      NEW o \in Organization, organizations'[o] # NoOrganization
               PROVE  HasAdmin(o)'
    BY AloneStays DEF OrganizationKeepsAdmin
  <2>1. CASE organizations[o] # NoOrganization
    <3> SUFFICES ASSUME ~HasAdmin(o)' PROVE FALSE
      OBVIOUS
    <3>1. HasAdmin(o)
      BY <2>1 DEF OrganizationKeepsAdmin
    <3>2. PICK s \in Slot : /\ tx[s].pc = "commit" /\ tx[s].op = "update_membership"
                            /\ tx[s].organization = o
                            /\ tx[s].relied # {}
                            /\ tx[s].relied \cap list_active_admins(o) = {}
      BY <3>1, LossStep
    <3>3. tx[s].relied = list_active_admins(o) \ {tx[s].target}
      BY <3>2, Request DEF FreshRequest, Prepared
    <3> QED
      BY <3>2, <3>3
  <2>2. CASE organizations[o] = NoOrganization
    <3>1. PICK s \in Slot : CommitOrganization(s)
      <4>1. PICK s \in Slot : CommitOrganization(s) \/ CommitUpdate(s)
        BY <2>2, Writers DEF CommitMembership
      <4>2. ~CommitUpdate(s)
        <5> SUFFICES ASSUME CommitUpdate(s) PROVE FALSE
          OBVIOUS
        <5> DEFINE new == Updated(organizations[tx[s].organization], tx[s].work, tx[s].cols)
        <5>1. /\ organizations[tx[s].organization] \in OrganizationRow
              /\ organizations' = [organizations EXCEPT ![tx[s].organization] = new]
          BY UpdateWritten
        <5> HIDE DEF new
        <5> QED
          BY <2>2, <5>1, Absent, Request
      <4> QED
        BY <4>1, <4>2
    <3> DEFINE m == [role |-> "admin", status |-> "active"]
               u == tx[s].user
    <3>2. /\ u \in User /\ IsAdmin(m)
          /\ memberships' = [memberships EXCEPT ![tx[s].organization][u] = m]
          /\ organizations' = [organizations EXCEPT ![tx[s].organization] = tx[s].work]
      BY <3>1, OrganizationWritten
    <3> HIDE DEF m
    <3>3. /\ tx[s].organization = o
          /\ memberships'[o][u] = m
      BY <2>2, <3>2, Request
    <3> QED
      BY <3>2, <3>3 DEF HasAdmin, list_active_admins
  <2> QED
    BY <2>1, <2>2
<1> QED
  BY <1>1, <1>2, Invariance, PTL DEF Spec

-----------------------------------------------------------------------------
(* Authorization and versions                                              *)

(* The slot that changes an organization is the one that commits.          *)
LEMMA ChangerCommits ==
  ASSUME IInv, [Next]_vars, NEW o \in Organization,
         memberships[o] # memberships'[o] \/ organizations[o] # organizations'[o]
  PROVE  \E s \in Slot :
           /\ CommitOrganization(s) \/ CommitMembership(s) \/ CommitUpdate(s)
           /\ Commits(s, o)
<1>1. PICK s \in Slot : CommitOrganization(s) \/ CommitMembership(s) \/ CommitUpdate(s)
  BY Writers
<1>2. /\ memberships \in [Organization -> [User -> MembershipRow \cup {NoMembership}]]
      /\ organizations \in [Organization -> OrganizationRow \cup {NoOrganization}]
      /\ tx \in [Slot -> Tx]
  BY Request DEF IInv, TypeOK
<1>3. \A p \in Organization \ {tx[s].organization} :
        memberships'[p] = memberships[p] /\ organizations'[p] = organizations[p]
  BY <1>1, <1>2 DEF CommitOrganization, CommitMembership, CommitUpdate
<1>4. tx[s].pc = "commit" /\ tx'[s] = Idle
  BY <1>1, <1>2 DEF CommitOrganization, CommitMembership, CommitUpdate
<1> QED
  BY <1>1, <1>3, <1>4 DEF Commits

(* Every change of a member or a setting is by a request whose user was an *)
(* administrator when get_tenant_context read the membership, however many *)
(* requests overlap, and while none do still is one at the commit.         *)
THEOREM AdminsChange == Spec => ChangedByAdminOnEntry
<1> DEFINE ByAdmin ==
      \A o \in Organization :
        organizations[o] # NoOrganization
        /\ (memberships[o] # memberships'[o] \/ organizations[o] # organizations'[o])
        => \E s \in Slot : /\ Commits(s, o) /\ tx[s].role = "admin"
                           /\ Sequential => tx[s].user \in list_active_admins(o)
<1>1. ASSUME IInv, [Next]_vars, NEW o \in Organization,
             organizations[o] # NoOrganization,
             memberships[o] # memberships'[o] \/ organizations[o] # organizations'[o]
      PROVE  \E s \in Slot : /\ Commits(s, o) /\ tx[s].role = "admin"
                             /\ Sequential => tx[s].user \in list_active_admins(o)
  <2>1. PICK s \in Slot :
          /\ CommitOrganization(s) \/ CommitMembership(s) \/ CommitUpdate(s)
          /\ Commits(s, o)
    BY <1>1, ChangerCommits
  <2>2. /\ RequestShape(tx[s])
        /\ Sequential => FreshRequest(tx[s])
    BY <1>1, Request
  <2>3. tx[s].organization = o /\ tx[s].pc = "commit"
    BY <2>1 DEF Commits
  <2>4. ~CommitOrganization(s)
    BY <1>1, <2>3, OrganizationWritten
  <2>5. tx[s].op \in Entered
    BY <2>1, <2>4 DEF CommitMembership, CommitUpdate, Entered
  <2>6. tx[s].user \in User /\ tx[s].role = "admin"
    BY <2>2, <2>3, <2>5, OrganizationsAssumption DEF RequestShape, Entered, Allowed
  <2>7. Sequential => tx[s].user \in list_active_admins(o)
    BY <2>2, <2>3, <2>5, <2>6 DEF FreshRequest, list_active_admins, IsAdmin
  <2> QED
    BY <2>1, <2>6, <2>7
<1>2. IInv /\ [Next]_vars => ByAdmin
  BY <1>1
<1> HIDE DEF ByAdmin
<1>3. Spec => [][ByAdmin]_vars
  BY <1>2, Invariance, PTL DEF Spec
<1> QED
  BY <1>3, PTL DEF ByAdmin, ChangedByAdminOnEntry

(* The changes of an organization are counted one by one, so the version a *)
(* caller names is refused after any later change; the only change left    *)
(* out of the count is one whose number another update took between its    *)
(* first read and its commit (organization_with_updates, the columns of    *)
(* save).                                                                  *)
THEOREM VersionsCount == Spec => OrganizationVersionCounts
<1> DEFINE Counts ==
      \A o \in Organization :
        organizations[o] # organizations'[o] =>
          \/ organizations'[o].version = organizations[o].version + 1
          \/ ~Sequential /\ \E s \in Slot : Commits(s, o) /\ NumberTaken(tx[s])
<1>1. ASSUME IInv, [Next]_vars, NEW o \in Organization,
             organizations[o] # organizations'[o]
      PROVE  \/ organizations'[o].version = organizations[o].version + 1
             \/ ~Sequential /\ \E s \in Slot : Commits(s, o) /\ NumberTaken(tx[s])
  <2>1. PICK s \in Slot :
          /\ CommitOrganization(s) \/ CommitMembership(s) \/ CommitUpdate(s)
          /\ Commits(s, o)
    BY <1>1, ChangerCommits
  <2>2. organizations \in [Organization -> OrganizationRow \cup {NoOrganization}]
    BY <1>1, Request
  <2>3. tx[s].organization = o
    BY <2>1 DEF Commits
  <2>4. ~CommitMembership(s)
    BY <1>1 DEF CommitMembership
  <2>5. CASE CommitOrganization(s)
    <3>1. /\ organizations[o] = NoOrganization
          /\ tx[s].work.version = 1
          /\ organizations' = [organizations EXCEPT ![o] = tx[s].work]
      BY <1>1, <2>3, <2>5, OrganizationWritten
    <3>2. organizations'[o] = tx[s].work
      BY <2>2, <3>1
    <3> QED
      BY <3>1, <3>2 DEF NoOrganization
  <2>6. CASE CommitUpdate(s)
    <3> DEFINE new == Updated(organizations[o], tx[s].work, tx[s].cols)
    <3>1. /\ tx[s].pc = "commit" /\ tx[s].op = "update_organization"
          /\ organizations[o] \in OrganizationRow /\ tx[s].work \in OrganizationRow
          /\ organizations' = [organizations EXCEPT ![o] = new]
      BY <1>1, <2>3, <2>6, UpdateWritten
    <3>2. /\ tx[s].work.version = tx[s].seen.version + 1
          /\ Sequential => /\ "version" \in tx[s].cols
                           /\ tx[s].work.version = organizations[o].version + 1
      BY <1>1, <2>3, <3>1, Request DEF RequestShape, FreshRequest, Prepared
    <3>3. "version" \in tx[s].cols => new.version = tx[s].work.version
      BY <3>1, UpdatedOrganization
    <3> HIDE DEF new
    <3>4. organizations'[o] = new
      BY <2>2, <3>1
    <3>5. CASE "version" \in tx[s].cols /\ tx[s].seen.version = organizations[o].version
      BY <3>2, <3>3, <3>4, <3>5
    <3>6. CASE Sequential
      BY <3>2, <3>3, <3>4, <3>6
    <3>7. CASE /\ ~Sequential
               /\ \/ "version" \notin tx[s].cols
                  \/ tx[s].seen.version # organizations[o].version
      <4>1. NumberTaken(tx[s])
        BY <2>3, <3>1, <3>2, <3>7 DEF NumberTaken
      <4> QED
        BY <2>1, <3>7, <4>1
    <3> QED
      BY <3>5, <3>6, <3>7
  <2> QED
    BY <2>1, <2>4, <2>5, <2>6
<1>2. IInv /\ [Next]_vars => Counts
  BY <1>1
<1> HIDE DEF Counts
<1>3. Spec => [][Counts]_vars
  BY <1>2, Invariance, PTL DEF Spec
<1> QED
  BY <1>3, PTL DEF Counts, OrganizationVersionCounts
=============================================================================
