------------------------------ MODULE Members -------------------------------
(***************************************************************************)
(* The members of one organisation, their roles and their permission       *)
(* overrides, as its admins change them (the member_* and invite_user      *)
(* endpoints of views.py).  A permission override is a delta on the        *)
(* baseline of the member's role.                                          *)
(***************************************************************************)
EXTENDS Requests, FiniteSets

CONSTANTS
  Users, Founder,  \* the people, and the one who set the organisation up
  Roles, Admin,    \* roles, and the role of an Owner/Admin
  Permissions,
  Baseline,        \* Roles -> the permissions of the role
  KeepOverrides    \* keep_permissions_on_role_change, a setting of the organisation

ASSUME RoleAssumption ==
  /\ Founder \in Users /\ Admin \in Roles /\ KeepOverrides \in BOOLEAN
  /\ Baseline \in [Roles -> SUBSET Permissions] /\ Baseline[Admin] = Permissions

VARIABLES
  member,   \* Users -> OrgMembership (in, role) and the account's is_active
  override  \* Users -> Permissions -> UserPermissionOverride

members == <<member, override>>

Nothing == [p \in Permissions |-> "NONE"]

InitMembers ==
  /\ member = [u \in Users |-> [in |-> u = Founder, role |-> Admin, active |-> TRUE]]
  /\ override = [u \in Users |-> Nothing]

(* _active_admin_count, leaving one member out. *)
OtherAdmins(u) ==
  {v \in Users \ {u} : member[v].in /\ member[v].active /\ member[v].role = Admin}
IsAdmin(u) == member[u].in /\ member[u].active /\ member[u].role = Admin

-----------------------------------------------------------------------------
(* Slip: an inactive admin counts as one who remains. *)
GuardChangeInactive(u, role) ==
  /\ member[u].role # role
  /\ (member[u].role = Admin /\ role # Admin) =>
       \E v \in Users \ {u} : member[v].in /\ member[v].role = Admin

(* What member_change_role, member_toggle_active and member_remove check first. *)
GuardChange(u, role) ==
  /\ member[u].role # role
  /\ (member[u].role = Admin /\ role # Admin) => OtherAdmins(u) # {}
GuardToggle(u, actor) ==
  /\ u # actor
  /\ (member[u].active /\ member[u].role = Admin) => OtherAdmins(u) # {}
GuardRemove(u, actor) ==
  /\ u # actor
  /\ member[u].role = Admin => OtherAdmins(u) # {}

(* What an admin may ask: member_permissions with the boxes ticked, or its reset, only
   of members who are not admins. *)
Requested(u, actor) ==
  {[op |-> "ROLE", user |-> u, role |-> role] : role \in {r \in Roles : GuardChange(u, r)}} \cup
  (IF GuardToggle(u, actor) THEN {[op |-> "TOGGLE", user |-> u, active |-> member[u].active]}
   ELSE {}) \cup
  (IF GuardRemove(u, actor) THEN {[op |-> "REMOVE", user |-> u]} ELSE {}) \cup
  (IF member[u].role = Admin THEN {}
   ELSE {[op |-> "TICK", user |-> u, base |-> Baseline[member[u].role], ticked |-> t] :
           t \in SUBSET Permissions})

LoadMember(c, actor, u, r) ==
  /\ req[c] = Idle /\ IsAdmin(actor) /\ member[u].in /\ r \in Requested(u, actor)
  /\ req' = [req EXCEPT ![c] = r]
  /\ Start
  /\ UNCHANGED members

-----------------------------------------------------------------------------
(* An override that says what the baseline says already. *)
Redundant(effect, p, base) ==
  (effect = "GRANT" /\ p \in base) \/ (effect = "REVOKE" /\ p \notin base)

(* The overrides that outlive a change of role. *)
AfterRoleChange(u, role) ==
  IF ~KeepOverrides THEN Nothing
  ELSE [p \in Permissions |->
          IF Redundant(override[u][p], p, Baseline[role]) THEN "NONE" ELSE override[u][p]]

(* member_change_role.  The whole membership is saved, so one removed meanwhile is back. *)
ChangeRole(c) ==
  LET r == req[c]
  IN  /\ r # Idle /\ r.op = "ROLE"
      /\ member' = [member EXCEPT ![r.user].role = r.role, ![r.user].in = TRUE]
      /\ override' = [override EXCEPT ![r.user] = AfterRoleChange(r.user, r.role)]
      /\ req' = [req EXCEPT ![c] = Idle]
      /\ UNCHANGED overlaps

(* member_toggle_active: the account becomes the opposite of what was read. *)
ToggleActive(c) ==
  LET r == req[c]
  IN  /\ r # Idle /\ r.op = "TOGGLE"
      /\ member' = [member EXCEPT ![r.user].active = ~r.active]
      /\ req' = [req EXCEPT ![c] = Idle]
      /\ UNCHANGED <<override, overlaps>>

(* member_remove: the overrides stay in their table. *)
RemoveMember(c) ==
  LET r == req[c]
  IN  /\ r # Idle /\ r.op = "REMOVE"
      /\ member' = [member EXCEPT ![r.user].in = FALSE]
      /\ req' = [req EXCEPT ![c] = Idle]
      /\ UNCHANGED <<override, overlaps>>

(* member_permissions: a box that agrees with the baseline read needs no override. *)
TickPermissions(c) ==
  LET r == req[c]
  IN  /\ r # Idle /\ r.op = "TICK"
      /\ override' = [override EXCEPT ![r.user] =
           [p \in Permissions |-> IF (p \in r.ticked) = (p \in r.base) THEN "NONE"
                                  ELSE IF p \in r.ticked THEN "GRANT" ELSE "REVOKE"]]
      /\ req' = [req EXCEPT ![c] = Idle]
      /\ UNCHANGED <<member, overlaps>>

(* invite_user, and an approved access request: an account that is new. *)
Invite(actor, u, role) ==
  /\ IsAdmin(actor) /\ ~member[u].in /\ override[u] = Nothing /\ member[u].active
  /\ member' = [member EXCEPT ![u] = [in |-> TRUE, role |-> role, active |-> TRUE]]
  /\ Start
  /\ UNCHANGED <<override, req>>

-----------------------------------------------------------------------------
(* Somebody can always administer the organisation: changes of role, deactivations and
   removals, made one at a time, never take away its last active admin. *)
AdminRemains == calm => \E u \in Users : IsAdmin(u)

=============================================================================
