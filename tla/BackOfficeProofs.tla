--------------------------- MODULE BackOfficeProofs ---------------------------
(***************************************************************************)
(* What holds of BackOffice for every set of people, documents, lines,     *)
(* versions, tenants and sites, and for every number of clients, changes   *)
(* and overlapping requests.                                               *)
(*                                                                         *)
(* A step belongs to one desk (OneDesk) and leaves the tables of the       *)
(* others as they are (OtherTables).  An invariant of a desk therefore     *)
(* says what holds while it is at work, and that its tables are as at      *)
(* first while another is.  At the desks whose requests read first and     *)
(* write later it has a part that holds however they race and a part that  *)
(* holds while they come one at a time: then what a pending request read   *)
(* is still so when it writes.                                             *)
(*                                                                         *)
(* The last two parts are about PlanningRuns and StockCorrections, whose   *)
(* requests are of the same kind: specifications of their own, for any     *)
(* needs, orders and documents, and any products and goods.                *)
(***************************************************************************)
EXTENDS BackOffice, PlanningRuns, StockCorrections, SumTheorems, FiniteSetTheorems, TLAPS

(* Every step is a step of its desk, or of no desk. *)
LEMMA OneDesk ==
  Next =>
    /\ desk' = desk
    /\ \/ desk = "documents" /\ NextDocuments
       \/ desk = "members" /\ NextMembers
       \/ desk = "channel" /\ NextChannel
       \/ desk = "planner" /\ NextPlanner
       \/ desk = "books" /\ NextBooks
       \/ desk = "sessions" /\ NextSession
       \/ desk = "exports" /\ NextExports
       \/ desk = "bank" /\ NextBank
       \/ desk = "repairs" /\ NextRepairs
       \/ desk = "forecasts" /\ NextForecasts
<1>1. NextDocuments => desk = "documents" /\ desk' = desk
  BY DEF NextDocuments, Documents
<1>2. NextMembers => desk = "members" /\ desk' = desk
  BY DEF NextMembers, MemberTables
<1>3. NextChannel => desk = "channel" /\ desk' = desk
  BY DEF NextChannel, Channel
<1>4. NextPlanner => desk = "planner" /\ desk' = desk
  BY DEF NextPlanner, Planner
<1>5. NextBooks => desk = "books" /\ desk' = desk
  BY DEF NextBooks, Reporting
<1>6. NextSession => desk = "sessions" /\ desk' = desk
  BY DEF NextSession, Browser
<1>7. NextExports => desk = "exports" /\ desk' = desk
  BY DEF NextExports, Mailing
<1>8. NextBank => desk = "bank" /\ desk' = desk
  BY DEF NextBank, Reconciling
<1>9. NextRepairs => desk = "repairs" /\ desk' = desk
  BY DEF NextRepairs, Repairing
<1>10. NextForecasts => desk = "forecasts" /\ desk' = desk
  BY DEF NextForecasts, Forecasting
<1> QED
  BY <1>1, <1>2, <1>3, <1>4, <1>5, <1>6, <1>7, <1>8, <1>9, <1>10 DEF Next

(* The tables of a desk that is not at work stay as they are. *)
LEMMA OtherTables ==
  ASSUME Next
  PROVE  /\ desk # "documents" => UNCHANGED documents
         /\ desk # "members" => UNCHANGED members
         /\ desk # "sessions" => UNCHANGED sessions
         /\ desk # "bank" => UNCHANGED bank
         /\ desk # "forecasts" => UNCHANGED forecasts
         /\ desk # "channel" => UNCHANGED channel
         /\ desk # "planner" => UNCHANGED replenishment
         /\ desk # "books" => UNCHANGED books
         /\ desk # "exports" => UNCHANGED reporting
         /\ desk # "repairs" => UNCHANGED repairs
<1> DEFINE Others == /\ desk # "documents" => UNCHANGED documents
                     /\ desk # "members" => UNCHANGED members
                     /\ desk # "sessions" => UNCHANGED sessions
                     /\ desk # "bank" => UNCHANGED bank
                     /\ desk # "forecasts" => UNCHANGED forecasts
                     /\ desk # "channel" => UNCHANGED channel
                     /\ desk # "planner" => UNCHANGED replenishment
                     /\ desk # "books" => UNCHANGED books
                     /\ desk # "exports" => UNCHANGED reporting
                     /\ desk # "repairs" => UNCHANGED repairs
<1>1. NextDocuments => Others
  <2>1. Documents => Others
    BY DEF Documents
  <2> HIDE DEF Others
  <2> QED BY <2>1 DEF NextDocuments
<1>2. NextMembers => Others
  <2>1. MemberTables => Others
    BY DEF MemberTables
  <2> HIDE DEF Others
  <2> QED BY <2>1 DEF NextMembers
<1>3. NextChannel => Others
  <2>1. Channel => Others
    BY DEF Channel
  <2> HIDE DEF Others
  <2> QED BY <2>1 DEF NextChannel
<1>4. NextPlanner => Others
  <2>1. Planner => Others
    BY DEF Planner
  <2> HIDE DEF Others
  <2> QED BY <2>1 DEF NextPlanner
<1>5. NextBooks => Others
  <2>1. Reporting => Others
    BY DEF Reporting
  <2> HIDE DEF Others
  <2> QED BY <2>1 DEF NextBooks
<1>6. NextSession => Others
  <2>1. Browser => Others
    BY DEF Browser
  <2> HIDE DEF Others
  <2> QED BY <2>1 DEF NextSession
<1>7. NextExports => Others
  <2>1. Mailing => Others
    BY DEF Mailing
  <2> HIDE DEF Others
  <2> QED BY <2>1 DEF NextExports
<1>8. NextBank => Others
  <2>1. Reconciling => Others
    BY DEF Reconciling
  <2> HIDE DEF Others
  <2> QED BY <2>1 DEF NextBank
<1>9. NextRepairs => Others
  <2>1. Repairing => Others
    BY DEF Repairing
  <2> HIDE DEF Others
  <2> QED BY <2>1 DEF NextRepairs
<1>10. NextForecasts => Others
  <2>1. Forecasting => Others
    BY DEF Forecasting
  <2> HIDE DEF Others
  <2> QED BY <2>1 DEF NextForecasts
<1> QED
  BY <1>1, <1>2, <1>3, <1>4, <1>5, <1>6, <1>7, <1>8, <1>9, <1>10 DEF Next

-----------------------------------------------------------------------------
(* Requests.  While they come one at a time, one at most is under way, and a new one
   finds everybody idle. *)

AllIdle == \A c \in Clients : req[c] = Idle
Alone == \A c, d \in Clients : req[c] # Idle /\ req[d] # Idle => c = d
RequestsOK == req = [c \in Clients |-> req[c]] /\ overlaps \in Nat /\ (calm => Alone)

(* No request is under way to begin with. *)
LEMMA RequestsBegin == InitRequests => RequestsOK /\ AllIdle
BY DEF InitRequests, RequestsOK, Alone, calm, AllIdle

(* A request is read in ... *)
LEMMA RequestLoads ==
  ASSUME RequestsOK, NEW c \in Clients, NEW r, req[c] = Idle, req' = [req EXCEPT ![c] = r], Start
  PROVE  /\ RequestsOK' /\ (calm' => calm /\ AllIdle)
         /\ req'[c] = r /\ \A d \in Clients \ {c} : req'[d] = req[d]
BY DEF RequestsOK, Alone, AllIdle, Start, calm

(* ... and carried out. *)
LEMMA RequestEnds ==
  ASSUME RequestsOK, NEW c \in Clients, req' = [req EXCEPT ![c] = Idle], UNCHANGED overlaps
  PROVE  /\ RequestsOK' /\ (calm' => calm) /\ req'[c] = Idle
         /\ \A d \in Clients \ {c} : req'[d] = req[d] /\ (calm /\ req[c] # Idle => req'[d] = Idle)
BY DEF RequestsOK, Alone, calm

(* Or it is done at once. *)
LEMMA RequestRuns ==
  ASSUME RequestsOK, Start, UNCHANGED req
  PROVE  RequestsOK' /\ (calm' => calm /\ AllIdle)
BY DEF RequestsOK, Alone, AllIdle, Start, calm

-----------------------------------------------------------------------------
(* Members.  While requests come one at a time, what a pending one asks is still what
   its admin may ask, and that admin is there. *)

Membership == [in : BOOLEAN, role : Roles, active : BOOLEAN]
MembersTyped == member \in [Users -> Membership]

StillAsked ==
  \A c \in Clients : req[c] # Idle =>
    \E actor, u \in Users : IsAdmin(actor) /\ member[u].in /\ req[c] \in Requested(u, actor)
AskTyped(r) ==
  /\ r.user \in Users /\ (r.op = "ROLE" => r.role \in Roles)
  /\ r.op = "TOGGLE" => r.active \in BOOLEAN
MembersInv ==
  IF desk = "members"
    THEN /\ MembersTyped /\ RequestsOK /\ (calm => StillAsked) /\ AdminRemains
         /\ \A c \in Clients : req[c] # Idle => AskTyped(req[c])
    ELSE InitMembers

(* What a step does to the members. *)
LEMMA MemberStep ==
  [Next]_vars =>
    /\ desk' = desk
    /\ desk = "members" => NextMembers \/ UNCHANGED <<members, req, overlaps>>
    /\ desk # "members" => UNCHANGED members
BY OneDesk, OtherTables DEF vars, members

(* The founder is an admin from the beginning. *)
LEMMA FounderIsAdmin == InitMembers => MembersTyped /\ AdminRemains
<1> SUFFICES ASSUME InitMembers PROVE MembersTyped /\ AdminRemains
  OBVIOUS
<1>1. Founder \in Users /\ Admin \in Roles
  BY RoleAssumption
<1>2. MembersTyped
  <2>1. \A u \in Users : [in |-> u = Founder, role |-> Admin, active |-> TRUE] \in Membership
    BY <1>1 DEF Membership
  <2> QED BY <2>1 DEF InitMembers, MembersTyped
<1>3. member[Founder] = [in |-> TRUE, role |-> Admin, active |-> TRUE]
  BY <1>1 DEF InitMembers
<1>4. IsAdmin(Founder)
  BY <1>3 DEF IsAdmin
<1> QED BY <1>1, <1>2, <1>4 DEF AdminRemains

(* A request is read when nobody else is at work. *)
LEMMA LoadMemberKeeps ==
  ASSUME MembersInv, desk = "members", NEW c \in Clients, NEW actor \in Users, NEW u \in Users,
         NEW r, r \in Requested(u, actor), LoadMember(c, actor, u, r), desk' = desk
  PROVE  MembersInv'
<1>1. MembersTyped /\ RequestsOK /\ AdminRemains /\ UNCHANGED member
  BY DEF MembersInv, LoadMember, members
<1>2. RequestsOK' /\ (calm' => calm /\ AllIdle) /\ req'[c] = r
      /\ \A d \in Clients \ {c} : req'[d] = req[d]
  BY <1>1, RequestLoads DEF LoadMember
<1>3. MembersTyped' /\ AdminRemains'
  BY <1>1, <1>2 DEF MembersTyped, AdminRemains, IsAdmin
<1>4. Requested(u, actor)' = Requested(u, actor) /\ IsAdmin(actor)' /\ member'[u].in
  BY <1>1 DEF Requested, GuardChange, GuardToggle, GuardRemove, OtherAdmins, IsAdmin, LoadMember
<1>5. calm' => StillAsked'
  BY <1>2, <1>4 DEF StillAsked, AllIdle
<1>6. AskTyped(r)
  <2>1. \A v \in Users : member[v].active \in BOOLEAN
    BY <1>1 DEF MembersTyped, Membership
  <2> QED BY <2>1 DEF AskTyped, Requested
<1>7. \A d \in Clients : req'[d] # Idle => AskTyped(req'[d])
  BY <1>2, <1>6 DEF MembersInv
<1> QED BY <1>2, <1>3, <1>5, <1>7 DEF MembersInv, AskTyped

(* A pending request is carried out. *)
LEMMA MemberRequestKeeps ==
  ASSUME MembersInv, desk = "members", NEW c \in Clients, req[c] # Idle, desk' = desk,
         req' = [req EXCEPT ![c] = Idle], UNCHANGED overlaps, MembersTyped',
         ASSUME calm, NEW actor \in Users, NEW u \in Users, IsAdmin(actor), member[u].in,
                req[c] \in Requested(u, actor)
         PROVE  \E v \in Users : IsAdmin(v)'
  PROVE  MembersInv'
<1>1. RequestsOK' /\ (calm' => calm) /\ req'[c] = Idle
      /\ \A d \in Clients \ {c} : req'[d] = req[d] /\ (calm /\ req[c] # Idle => req'[d] = Idle)
  BY RequestEnds DEF MembersInv
<1>2. calm => StillAsked
  BY DEF MembersInv
<1>3. calm' => StillAsked'
  BY <1>1 DEF StillAsked
<1>4. AdminRemains'
  BY <1>1, <1>2 DEF AdminRemains, StillAsked
<1>5. \A d \in Clients : req'[d] # Idle => AskTyped(req'[d])
  BY <1>1 DEF MembersInv
<1> QED BY <1>1, <1>3, <1>4, <1>5 DEF MembersInv, AskTyped

(* member_change_role: an admin who gives up the role leaves another one. *)
LEMMA ChangeRoleKeeps ==
  ASSUME MembersInv, desk = "members", NEW c \in Clients, ChangeRole(c), desk' = desk
  PROVE  MembersInv'
<1> DEFINE r == req[c]
           m == [member[r.user] EXCEPT !.role = r.role, !.in = TRUE]
<1>1. MembersTyped /\ member[r.user] \in Membership
  BY DEF MembersInv, MembersTyped, AskTyped, ChangeRole
<1>2. m \in Membership /\ r.user \in Users
  BY <1>1 DEF Membership, MembersInv, AskTyped, ChangeRole
<1>3. member' = [member EXCEPT ![r.user] = m]
  BY <1>1 DEF ChangeRole, MembersTyped
<1>4. MembersTyped'
  <2> HIDE DEF m, r
  <2> QED BY <1>1, <1>2, <1>3 DEF MembersTyped
<1>5. ASSUME calm, NEW actor \in Users, NEW u \in Users, IsAdmin(actor), member[u].in,
             req[c] \in Requested(u, actor)
      PROVE  \E v \in Users : IsAdmin(v)'
  <2>1. r.user = u /\ r.role \in Roles /\ GuardChange(u, r.role)
    BY <1>5 DEF Requested, ChangeRole
  <2>2. \A v \in Users \ {u} : IsAdmin(v) => IsAdmin(v)'
    BY <1>1, <1>3, <2>1 DEF IsAdmin, MembersTyped
  <2>3. CASE actor # u
    BY <1>5, <2>2, <2>3
  <2>4. CASE actor = u /\ r.role # Admin
    <3>1. PICK v \in Users \ {u} : member[v].in /\ member[v].active /\ member[v].role = Admin
      BY <1>5, <2>1, <2>4 DEF GuardChange, OtherAdmins, IsAdmin
    <3> QED BY <2>2, <3>1 DEF IsAdmin
  <2>5. CASE actor = u /\ r.role = Admin
    BY <1>5, <2>1, <2>5 DEF GuardChange, IsAdmin
  <2> QED BY <2>3, <2>4, <2>5
<1> QED BY <1>4, <1>5, MemberRequestKeeps DEF ChangeRole

(* member_toggle_active and member_remove are not for one's own account. *)
LEMMA ToggleKeeps ==
  ASSUME MembersInv, desk = "members", NEW c \in Clients, ToggleActive(c), desk' = desk
  PROVE  MembersInv'
<1> DEFINE r == req[c]
           m == [member[r.user] EXCEPT !.active = ~r.active]
<1>1. MembersTyped /\ member[r.user] \in Membership
  BY DEF MembersInv, MembersTyped, AskTyped, ToggleActive
<1>2. m \in Membership /\ r.user \in Users
  BY <1>1 DEF Membership, MembersInv, AskTyped, ToggleActive
<1>3. member' = [member EXCEPT ![r.user] = m]
  BY <1>1 DEF ToggleActive, MembersTyped
<1>4. MembersTyped'
  <2> HIDE DEF m, r
  <2> QED BY <1>1, <1>2, <1>3 DEF MembersTyped
<1>5. ASSUME calm, NEW actor \in Users, NEW u \in Users, IsAdmin(actor), member[u].in,
             req[c] \in Requested(u, actor)
      PROVE  \E v \in Users : IsAdmin(v)'
  <2>1. r.user = u /\ u # actor
    BY <1>5 DEF Requested, GuardToggle, ToggleActive
  <2> QED BY <1>1, <1>3, <1>5, <2>1 DEF IsAdmin, MembersTyped
<1> QED BY <1>4, <1>5, MemberRequestKeeps DEF ToggleActive

(* Removing a member: the last administrator is refused. *)
LEMMA RemoveKeeps ==
  ASSUME MembersInv, desk = "members", NEW c \in Clients, RemoveMember(c), desk' = desk
  PROVE  MembersInv'
<1> DEFINE r == req[c]
           m == [member[r.user] EXCEPT !.in = FALSE]
<1>1. MembersTyped /\ member[r.user] \in Membership
  BY DEF MembersInv, MembersTyped, AskTyped, RemoveMember
<1>2. m \in Membership /\ r.user \in Users
  BY <1>1 DEF Membership, MembersInv, AskTyped, RemoveMember
<1>3. member' = [member EXCEPT ![r.user] = m]
  BY <1>1 DEF RemoveMember, MembersTyped
<1>4. MembersTyped'
  <2> HIDE DEF m, r
  <2> QED BY <1>1, <1>2, <1>3 DEF MembersTyped
<1>5. ASSUME calm, NEW actor \in Users, NEW u \in Users, IsAdmin(actor), member[u].in,
             req[c] \in Requested(u, actor)
      PROVE  \E v \in Users : IsAdmin(v)'
  <2>1. r.user = u /\ u # actor
    BY <1>5 DEF Requested, GuardRemove, RemoveMember
  <2> QED BY <1>1, <1>3, <1>5, <2>1 DEF IsAdmin, MembersTyped
<1> QED BY <1>4, <1>5, MemberRequestKeeps DEF RemoveMember

(* Overrides make no admin and unmake none. *)
LEMMA TickKeeps ==
  ASSUME MembersInv, desk = "members", NEW c \in Clients, TickPermissions(c), desk' = desk
  PROVE  MembersInv'
<1>1. MembersTyped' /\ UNCHANGED member
  BY DEF MembersInv, MembersTyped, TickPermissions
<1>2. ASSUME calm, NEW actor \in Users, NEW u \in Users, IsAdmin(actor), member[u].in,
             req[c] \in Requested(u, actor)
      PROVE  \E v \in Users : IsAdmin(v)'
  BY <1>1, <1>2 DEF IsAdmin
<1> QED BY <1>1, <1>2, MemberRequestKeeps DEF TickPermissions

(* A new account takes nobody's place. *)
LEMMA InviteKeeps ==
  ASSUME MembersInv, desk = "members", NEW actor \in Users, NEW u \in Users, NEW role \in Roles,
         Invite(actor, u, role), desk' = desk
  PROVE  MembersInv'
<1>1. MembersTyped
  BY DEF MembersInv
<1>2. RequestsOK' /\ (calm' => calm /\ AllIdle) /\ UNCHANGED req
  BY RequestRuns DEF MembersInv, Invite
<1>3. MembersTyped'
  <2>1. [in |-> TRUE, role |-> role, active |-> TRUE] \in Membership
    BY DEF Membership
  <2> QED BY <1>1, <2>1 DEF MembersTyped, Invite
<1>4. calm' => StillAsked'
  BY <1>2 DEF StillAsked, AllIdle
<1>5. IsAdmin(actor)' /\ actor # u
  BY <1>1 DEF Invite, IsAdmin, MembersTyped
<1>6. \A d \in Clients : req'[d] # Idle => AskTyped(req'[d])
  BY <1>2 DEF MembersInv
<1> QED BY <1>2, <1>3, <1>4, <1>5, <1>6 DEF MembersInv, AdminRemains, AskTyped

(* Every step keeps the members' desk in order. *)
LEMMA MembersInductive == MembersInv /\ [Next]_vars => MembersInv'
<1> SUFFICES ASSUME MembersInv, [Next]_vars PROVE MembersInv'
  OBVIOUS
<1>1. desk' = desk
  BY MemberStep
<1>2. CASE desk # "members"
  BY <1>1, <1>2, MemberStep DEF MembersInv, InitMembers, members
<1>3. CASE desk = "members" /\ UNCHANGED <<members, req, overlaps>>
  BY <1>1, <1>3 DEF MembersInv, MembersTyped, RequestsOK, calm, Alone, StillAsked, AdminRemains,
                    IsAdmin, AskTyped, members, Requested, GuardChange, GuardToggle, GuardRemove,
                    OtherAdmins
<1>4. CASE desk = "members" /\ NextMembers
  <2>1. ASSUME NEW c \in Clients, NEW actor \in Users, NEW u \in Users, NEW r \in Requested(u, actor),
               LoadMember(c, actor, u, r)
        PROVE  MembersInv'
    BY <1>1, <1>4, <2>1, LoadMemberKeeps
  <2>2. ASSUME NEW c \in Clients, ChangeRole(c) PROVE MembersInv'
    BY <1>1, <1>4, <2>2, ChangeRoleKeeps
  <2>3. ASSUME NEW c \in Clients, ToggleActive(c) PROVE MembersInv'
    BY <1>1, <1>4, <2>3, ToggleKeeps
  <2>4. ASSUME NEW c \in Clients, RemoveMember(c) PROVE MembersInv'
    BY <1>1, <1>4, <2>4, RemoveKeeps
  <2>5. ASSUME NEW c \in Clients, TickPermissions(c) PROVE MembersInv'
    BY <1>1, <1>4, <2>5, TickKeeps
  <2>6. ASSUME NEW actor \in Users, NEW u \in Users, NEW role \in Roles, Invite(actor, u, role)
        PROVE  MembersInv'
    BY <1>1, <1>4, <2>6, InviteKeeps
  <2> QED BY <1>4, <2>1, <2>2, <2>3, <2>4, <2>5, <2>6 DEF NextMembers
<1> QED BY <1>2, <1>3, <1>4, MemberStep

(* Somebody can always administer the organisation, whatever its people ask one at a
   time: the last active admin is never demoted, deactivated or removed (the guards of
   member_change_role, member_toggle_active and member_remove). *)
THEOREM SomebodyAdministers == Spec => []AdminRemains
<1>1. Init => MembersInv
  BY FounderIsAdmin, RequestsBegin DEF Init, MembersInv, StillAsked, AllIdle
<1>2. MembersInv => AdminRemains
  BY FounderIsAdmin DEF MembersInv
<1> QED BY <1>1, <1>2, MembersInductive, PTL DEF Spec

-----------------------------------------------------------------------------
(* Documents.  A status says what was made of a document only while requests come one
   at a time; what was approved, and what is booked at most once, they cannot spoil. *)

(* The status of a document of which one thing was made. *)
Target(d) == IF d \in Requisitions THEN "CONVERTED"
             ELSE IF d \in AccessRequests THEN "APPROVED" ELSE "POSTED"

VatReturn == [status : {"NONE", "DRAFT", "SUBMITTED"}, reclaimed : Nat]
DocumentsTyped ==
  /\ doc = [d \in Docs |-> doc[d]] /\ made \in [Docs -> Nat] /\ ret \in [Periods -> VatReturn]

KnownSteps == \A c \in Clients : req[c] # Idle => req[c].doc \in Docs /\ req[c].step \in Steps(req[c].doc)
BookedOnce == \A e \in Expenses : made[e] <= 1
ApprovedFirst ==
  /\ \A d \in Requisitions : doc[d] = "APPROVED" \/ made[d] > 0 => d \in approved
  /\ \A c \in Clients : req[c] # Idle /\ req[c].doc \in Requisitions /\ req[c].step.makes
                          => req[c].doc \in approved
StatusTells == \A d \in Docs : made[d] = IF doc[d] = Target(d) THEN 1 ELSE 0
StillDue == \A c \in Clients : req[c] # Idle => doc[req[c].doc] \in req[c].step.from

DocumentsInv ==
  IF desk = "documents"
    THEN /\ DocumentsTyped /\ RequestsOK /\ KnownSteps /\ BookedOnce /\ ApprovedFirst
         /\ calm => StatusTells /\ StillDue
    ELSE InitDocuments

(* What an endpoint does: it makes something if and only if it finishes the document,
   and none starts from a finished one. *)
LEMMA StepFacts ==
  ASSUME NEW d \in Docs, NEW s \in Steps(d)
  PROVE  /\ s.makes \in BOOLEAN /\ (s.makes <=> s.to = Target(d)) /\ Target(d) \notin s.from
         /\ d \in Requisitions /\ s.to = "APPROVED" => s = ApproveRequisition
         /\ d \in Requisitions /\ s.makes => s.from = {"APPROVED"} /\ s # ApproveRequisition
         /\ "NONE" \notin s.from
<1>1. CASE d \in Requisitions
  <2>1. Target(d) = "CONVERTED" /\ s \in {SubmitRequisition, ApproveRequisition, RejectRequisition,
                                        CancelRequisition, ConvertRequisition}
    BY <1>1 DEF Steps, Target
  <2>2. ApproveRequisition.to = "APPROVED" /\ ApproveRequisition.makes = FALSE
        /\ ApproveRequisition.from = {"SUBMITTED"}
    BY DEF ApproveRequisition
  <2>3. ConvertRequisition.to = "CONVERTED" /\ ConvertRequisition.makes = TRUE
        /\ ConvertRequisition.from = {"APPROVED"}
    BY DEF ConvertRequisition
  <2>4. ASSUME s \notin {ApproveRequisition, ConvertRequisition}
        PROVE  s.to \notin {"APPROVED", "CONVERTED"} /\ s.makes = FALSE
               /\ "CONVERTED" \notin s.from /\ "NONE" \notin s.from
    BY <2>1, <2>4 DEF SubmitRequisition, RejectRequisition, CancelRequisition
  <2>5. CASE s = ApproveRequisition
    BY <2>1, <2>2, <2>3, <2>5
  <2>6. CASE s = ConvertRequisition
    BY <2>1, <2>2, <2>3, <2>6
  <2>7. CASE s \notin {ApproveRequisition, ConvertRequisition}
    BY <2>1, <2>4, <2>7
  <2> QED BY <2>5, <2>6, <2>7
<1>2. CASE d \in AccessRequests
  <2>1. d \notin Requisitions /\ Target(d) = "APPROVED" /\ s \in {ApproveAccess, RejectAccess}
    BY <1>2, DocumentAssumption DEF Steps, Target
  <2>2. /\ s.from = {"PENDING"}
        /\ (s.makes = TRUE /\ s.to = "APPROVED") \/ (s.makes = FALSE /\ s.to # "APPROVED")
    BY <2>1 DEF ApproveAccess, RejectAccess
  <2> QED BY <2>1, <2>2
<1>3. CASE d \in Expenses
  <2>1. d \notin Requisitions /\ Target(d) = "POSTED"
        /\ s \in {SubmitExpense, ApproveExpense, RejectExpense, PostExpense}
    BY <1>3, DocumentAssumption DEF Steps, Target
  <2>2. /\ "POSTED" \notin s.from /\ "NONE" \notin s.from
        /\ (s.makes = TRUE /\ s.to = "POSTED") \/ (s.makes = FALSE /\ s.to # "POSTED")
    BY <2>1 DEF SubmitExpense, ApproveExpense, RejectExpense, PostExpense
  <2> QED BY <2>1, <2>2
<1> QED BY <1>1, <1>2, <1>3 DEF Docs

(* No document is approved and nothing is made or booked to begin with. *)
LEMMA DocumentsBegin ==
  InitDocuments => DocumentsTyped /\ BookedOnce /\ StatusTells
                   /\ \A d \in Requisitions : doc[d] # "APPROVED" /\ made[d] = 0
<1> SUFFICES ASSUME InitDocuments
             PROVE  DocumentsTyped /\ BookedOnce /\ StatusTells
                    /\ \A d \in Requisitions : doc[d] # "APPROVED" /\ made[d] = 0
  OBVIOUS
<1>1. [status |-> "NONE", reclaimed |-> 0] \in VatReturn
  BY DEF VatReturn
<1>2. DocumentsTyped
  BY <1>1 DEF InitDocuments, DocumentsTyped
<1> QED BY <1>2 DEF InitDocuments, BookedOnce, StatusTells, Target, Docs

(* A new document, in a first status of its kind. *)
LEMMA CreateKeeps ==
  ASSUME DocumentsInv, desk = "documents", NEW d \in Docs, NEW status \in FirstStatus(d),
         Create(d, status), desk' = desk
  PROVE  DocumentsInv'
<1>1. DocumentsTyped /\ RequestsOK /\ KnownSteps /\ BookedOnce /\ ApprovedFirst
  BY DEF DocumentsInv
<1>2. RequestsOK' /\ (calm' => calm /\ AllIdle) /\ UNCHANGED <<req, approved, ret>>
  BY <1>1, RequestRuns DEF Create
<1>3. DocumentsTyped'
  BY <1>1, <1>2 DEF DocumentsTyped, Create
<1>4. /\ doc'[d] = status /\ made'[d] = (IF status = "POSTED" THEN 1 ELSE 0)
      /\ \A x \in Docs \ {d} : doc'[x] = doc[x] /\ made'[x] = made[x]
  BY <1>1 DEF Create, DocumentsTyped
<1>5. /\ status = "POSTED" <=> status = Target(d)
      /\ d \in Requisitions => status # "APPROVED" /\ status # "POSTED"
  BY DocumentAssumption DEF FirstStatus, NewRequisition, NewAccessRequest, NewExpense, Target, Docs
<1>6. KnownSteps'
  BY <1>1, <1>2 DEF KnownSteps
<1>7. BookedOnce'
  BY <1>1, <1>4 DEF BookedOnce, Docs
<1>8. ApprovedFirst'
  BY <1>1, <1>2, <1>4, <1>5 DEF ApprovedFirst, Docs
<1>9. calm' => StatusTells' /\ StillDue'
  BY <1>2, <1>4, <1>5 DEF DocumentsInv, StatusTells, StillDue, AllIdle, Target
<1> QED BY <1>2, <1>3, <1>6, <1>7, <1>8, <1>9 DEF DocumentsInv

(* Reading a document for a step on it changes no row. *)
LEMMA LoadKeeps ==
  ASSUME DocumentsInv, desk = "documents", NEW c \in Clients, NEW d \in Docs, NEW s \in Steps(d),
         Load(c, d, s), desk' = desk
  PROVE  DocumentsInv'
<1>1. DocumentsTyped /\ RequestsOK /\ KnownSteps /\ BookedOnce /\ ApprovedFirst
      /\ UNCHANGED <<doc, made, approved, ret>>
  BY DEF DocumentsInv, Load, documents
<1> DEFINE r == [doc |-> d, step |-> s]
<1>2. RequestsOK' /\ (calm' => calm /\ AllIdle) /\ req'[c] = r
      /\ \A x \in Clients \ {c} : req'[x] = req[x]
  BY <1>1, RequestLoads DEF Load
<1>3. r.doc = d /\ r.step = s /\ doc[d] \in s.from
  BY DEF Load
<1> HIDE DEF r
<1>4. KnownSteps'
  BY <1>1, <1>2, <1>3 DEF KnownSteps
<1>5. ApprovedFirst'
  BY <1>1, <1>2, <1>3, StepFacts DEF ApprovedFirst
<1>6. calm' => StatusTells' /\ StillDue'
  BY <1>1, <1>2, <1>3 DEF DocumentsInv, StatusTells, StillDue, AllIdle, Target
<1> QED BY <1>1, <1>2, <1>4, <1>5, <1>6 DEF DocumentsInv, DocumentsTyped, BookedOnce

(* What a decision or a conversion saves: under the lock it has seen the row it writes. *)
LEMMA CommitKeeps ==
  ASSUME DocumentsInv, desk = "documents", NEW c \in Clients, Commit(c), desk' = desk
  PROVE  DocumentsInv'
<1>1. DocumentsTyped /\ RequestsOK /\ KnownSteps /\ BookedOnce /\ ApprovedFirst
      /\ (calm => StatusTells /\ StillDue) /\ req[c] # Idle
  BY DEF DocumentsInv, Commit
<1>2. RequestsOK' /\ (calm' => calm) /\ req'[c] = Idle
      /\ \A x \in Clients \ {c} : req'[x] = req[x] /\ (calm => req'[x] = Idle)
  BY <1>1, RequestEnds DEF Commit
<1>3a. PICK d \in Docs : req[c].doc = d /\ req[c].step \in Steps(d)
  BY <1>1 DEF KnownSteps
<1>3. PICK s \in Steps(d) : req[c].doc = d /\ req[c].step = s
  BY <1>3a
<1>4. KnownSteps' /\ (calm' => StillDue')
  BY <1>1, <1>2 DEF KnownSteps, StillDue
<1>5. calm => doc[d] # Target(d) /\ made[d] = 0
  BY <1>1, <1>3, StepFacts DEF StillDue, StatusTells
<1>6. CASE Refused(req[c])
  <2>1. UNCHANGED <<doc, made, approved, ret>>
    BY <1>6 DEF Commit, documents
  <2>2. ApprovedFirst'
    BY <1>1, <1>2, <2>1 DEF ApprovedFirst
  <2> QED BY <1>1, <1>2, <1>4, <2>1, <2>2
          DEF DocumentsInv, DocumentsTyped, BookedOnce, StatusTells, Target
<1>7. CASE ~ Refused(req[c])
  <2>1. /\ doc' = [doc EXCEPT ![d] = s.to]
        /\ made' = [made EXCEPT ![d] = @ + IF s.makes THEN 1 ELSE 0]
        /\ approved' = IF s = ApproveRequisition THEN approved \cup {d} ELSE approved
        /\ UNCHANGED ret
    BY <1>3, <1>7 DEF Commit
  <2>2. DocumentsTyped'
    BY <1>1, <2>1 DEF DocumentsTyped
  <2>3. /\ doc'[d] = s.to /\ made'[d] = made[d] + IF s.makes THEN 1 ELSE 0
        /\ \A x \in Docs \ {d} : doc'[x] = doc[x] /\ made'[x] = made[x]
    BY <1>1, <2>1 DEF DocumentsTyped
  <2>4. d \in Expenses /\ s.makes => made[d] = 0
    BY <1>1, <1>3, <1>7 DEF Refused, DocumentsTyped
  <2>5. BookedOnce'
    <3>1. \A e \in Expenses : e \in Docs /\ made[e] \in Nat
      BY <1>1 DEF DocumentsTyped, Docs
    <3>2. \A e \in Expenses \ {d} : made'[e] <= 1
      BY <1>1, <2>3, <3>1 DEF BookedOnce
    <3>3. d \in Expenses => made'[d] <= 1
      BY <1>1, <2>3, <2>4, <3>1 DEF BookedOnce
    <3> QED BY <3>2, <3>3 DEF BookedOnce
  <2>6. d \in Requisitions /\ s.makes => d \in approved
    BY <1>1, <1>3 DEF ApprovedFirst
  <2>7. approved \subseteq approved' /\ (d \in Requisitions /\ s.to = "APPROVED" => d \in approved')
    BY <2>1, StepFacts
  <2>8. ApprovedFirst'
    <3>1. \A x \in Requisitions : doc'[x] = "APPROVED" \/ made'[x] > 0 => x \in approved'
      <4>1. \A x \in Requisitions : x \in Docs /\ made[x] \in Nat
        BY <1>1 DEF DocumentsTyped, Docs
      <4>2. \A x \in Requisitions \ {d} : doc'[x] = "APPROVED" \/ made'[x] > 0 => x \in approved'
        BY <1>1, <2>3, <2>7, <4>1 DEF ApprovedFirst
      <4>3. d \in Requisitions /\ made'[d] > 0 => d \in approved'
        BY <1>1, <2>3, <2>6, <2>7, <4>1 DEF ApprovedFirst
      <4> QED BY <2>3, <2>7, <4>2, <4>3
    <3>2. \A x \in Clients : req'[x] # Idle /\ req'[x].doc \in Requisitions /\ req'[x].step.makes
                               => req'[x].doc \in approved'
      BY <1>1, <1>2, <2>7 DEF ApprovedFirst
    <3> QED BY <3>1, <3>2 DEF ApprovedFirst
  <2>9. calm' => StatusTells'
    BY <1>1, <1>2, <1>5, <2>3, StepFacts DEF StatusTells, Target
  <2> QED BY <1>2, <1>4, <2>2, <2>5, <2>8, <2>9 DEF DocumentsInv
<1> QED BY <1>6, <1>7

(* What the posted expenses of a period reclaim is a number ... *)
LEMMA ReclaimedIsNatural == ASSUME NEW p \in Periods PROVE Reclaimed(p) \in Nat
<1> DEFINE f == [e \in Expenses |-> IF Period[e] = p /\ doc[e] = "POSTED" THEN Vat[e] ELSE 0]
<1>1. f \in [Expenses -> Nat]
  BY DocumentAssumption
<1>2. SumFunction(f) \in Nat
  <2> HIDE DEF f
  <2> QED BY <1>1, DocumentAssumption, SumNatural
<1> QED BY <1>2 DEF Reclaimed

(* ... and what their journals hold, summand by summand. *)
LEMMA ReclaimedIsBooked ==
  ASSUME DocumentsTyped, StatusTells, NEW p \in Periods
  PROVE  Reclaimed(p) = LedgerVat(p)
<1>1. ASSUME NEW e \in Expenses
      PROVE  (IF Period[e] = p /\ doc[e] = "POSTED" THEN Vat[e] ELSE 0) =
             (IF Period[e] = p THEN made[e] * Vat[e] ELSE 0)
  <2>1. Vat[e] \in Nat /\ e \in Docs /\ Target(e) = "POSTED"
    BY DocumentAssumption DEF Docs, Target
  <2>2. made[e] = IF doc[e] = "POSTED" THEN 1 ELSE 0
    BY <2>1 DEF StatusTells
  <2> QED BY <2>1, <2>2
<1>2. [e \in Expenses |-> IF Period[e] = p /\ doc[e] = "POSTED" THEN Vat[e] ELSE 0] =
      [e \in Expenses |-> IF Period[e] = p THEN made[e] * Vat[e] ELSE 0]
  BY <1>1
<1> QED BY <1>2 DEF Reclaimed, LedgerVat

(* Recomputing a return that is still a draft. *)
LEMMA SaveReturnKeeps ==
  ASSUME DocumentsInv, desk = "documents", NEW p \in Periods, SaveReturn(p), desk' = desk
  PROVE  DocumentsInv'
<1> DEFINE row == [status |-> IF ret[p].status = "NONE" THEN "DRAFT" ELSE ret[p].status,
                   reclaimed |-> Reclaimed(p)]
<1>1. DocumentsTyped
  BY DEF DocumentsInv
<1>2. row \in VatReturn
  BY <1>1, ReclaimedIsNatural DEF DocumentsTyped, VatReturn
<1>3. ret' = [ret EXCEPT ![p] = row] /\ UNCHANGED <<doc, made, approved, req, overlaps>>
  BY DEF SaveReturn
<1> HIDE DEF row
<1>4. DocumentsTyped'
  BY <1>1, <1>2, <1>3 DEF DocumentsTyped
<1> QED BY <1>3, <1>4 DEF DocumentsInv, RequestsOK, Alone, calm, KnownSteps, BookedOnce, ApprovedFirst,
                          StatusTells, StillDue, Target

(* Submitting a return books what it claims. *)
LEMMA SubmitReturnKeeps ==
  ASSUME DocumentsInv, desk = "documents", NEW p \in Periods, SubmitReturn(p), desk' = desk
  PROVE  DocumentsInv'
<1> DEFINE row == [ret[p] EXCEPT !.status = "SUBMITTED"]
<1>1. DocumentsTyped
  BY DEF DocumentsInv
<1>2. row \in VatReturn
  BY <1>1 DEF DocumentsTyped, VatReturn
<1>3. ret' = [ret EXCEPT ![p] = row] /\ UNCHANGED <<doc, made, approved, req, overlaps>>
  BY DEF SubmitReturn
<1> HIDE DEF row
<1>4. DocumentsTyped'
  BY <1>1, <1>2, <1>3 DEF DocumentsTyped
<1> QED BY <1>3, <1>4 DEF DocumentsInv, RequestsOK, Alone, calm, KnownSteps, BookedOnce, ApprovedFirst,
                          StatusTells, StillDue, Target

(* What a step does to the documents. *)
LEMMA DocumentStep ==
  [Next]_vars =>
    /\ desk' = desk
    /\ desk = "documents" => NextDocuments \/ UNCHANGED <<documents, req, overlaps>>
    /\ desk # "documents" => UNCHANGED documents
BY OneDesk, OtherTables DEF vars, documents

(* Every step keeps the documents' desk in order. *)
LEMMA DocumentsInductive == DocumentsInv /\ [Next]_vars => DocumentsInv'
<1> SUFFICES ASSUME DocumentsInv, [Next]_vars PROVE DocumentsInv'
  OBVIOUS
<1>1. desk' = desk
  BY DocumentStep
<1>2. CASE desk # "documents"
  BY <1>1, <1>2, DocumentStep DEF DocumentsInv, InitDocuments, documents
<1>3. CASE desk = "documents" /\ UNCHANGED <<documents, req, overlaps>>
  BY <1>1, <1>3 DEF DocumentsInv, documents, DocumentsTyped, RequestsOK, Alone, calm, KnownSteps,
                    BookedOnce, ApprovedFirst, StatusTells, StillDue, Target
<1>4. CASE desk = "documents" /\ NextDocuments
  <2>1. ASSUME NEW d \in Docs, NEW status \in FirstStatus(d), Create(d, status) PROVE DocumentsInv'
    BY <1>1, <1>4, <2>1, CreateKeeps
  <2>2. ASSUME NEW c \in Clients, NEW d \in Docs, NEW s \in Steps(d), Load(c, d, s) PROVE DocumentsInv'
    BY <1>1, <1>4, <2>2, LoadKeeps
  <2>3. ASSUME NEW c \in Clients, Commit(c) PROVE DocumentsInv'
    BY <1>1, <1>4, <2>3, CommitKeeps
  <2>4. ASSUME NEW p \in Periods, SaveReturn(p) PROVE DocumentsInv'
    BY <1>1, <1>4, <2>4, SaveReturnKeeps
  <2>5. ASSUME NEW p \in Periods, SubmitReturn(p) PROVE DocumentsInv'
    BY <1>1, <1>4, <2>5, SubmitReturnKeeps
  <2> QED BY <1>4, <2>1, <2>2, <2>3, <2>4, <2>5 DEF NextDocuments
<1> QED BY <1>2, <1>3, <1>4, DocumentStep

(* ... and it is in order to begin with. *)
LEMMA DocumentsStart == Init => DocumentsInv
<1> SUFFICES ASSUME Init PROVE DocumentsInv
  OBVIOUS
<1>1. InitDocuments /\ RequestsOK /\ AllIdle
  BY RequestsBegin DEF Init
<1>2. DocumentsTyped /\ BookedOnce /\ StatusTells /\ KnownSteps /\ ApprovedFirst /\ StillDue
  BY <1>1, DocumentsBegin DEF KnownSteps, ApprovedFirst, StillDue, AllIdle
<1> QED BY <1>1, <1>2 DEF DocumentsInv

(* One thing at most is made of a document: no order, account or journal twice while the
   requests for it come one at a time, no expense booked twice and no order without an
   approval however they race (the endpoints of requisitions, access requests and
   expenses). *)
THEOREM DocumentsAreMadeOnce == Spec => []OneApprovedResult
<1>1. DocumentsInv => OneApprovedResult
  <2> SUFFICES ASSUME DocumentsInv PROVE OneApprovedResult
    OBVIOUS
  <2>1. CASE desk = "documents"
    BY <2>1 DEF DocumentsInv, OneApprovedResult, BookedOnce, ApprovedFirst, StatusTells, Finished, Target
  <2>2. CASE desk # "documents"
    <3>1. InitDocuments
      BY <2>2 DEF DocumentsInv
    <3>2. \A d \in Docs : made[d] = 0
      BY <3>1 DEF InitDocuments
    <3> QED BY <3>1, <3>2, DocumentsBegin DEF OneApprovedResult, StatusTells, Finished, Target
  <2> QED BY <2>1, <2>2
<1> QED BY <1>1, DocumentsStart, DocumentsInductive, PTL DEF Spec

(* A VAT return that is saved (vat_save over compute_vat_return) reclaims what the
   journals of its period hold, while the decisions on expenses come one at a time. *)
THEOREM ReturnsReclaimWhatIsBooked == Spec => ReturnFollowsLedger
<1> DEFINE Follows == \A p \in Periods :
             (calm /\ ret'[p].reclaimed # ret[p].reclaimed) => ret'[p].reclaimed = LedgerVat(p)
<1>1. DocumentsInv /\ [Next]_vars => [Follows]_documents
  <2> SUFFICES ASSUME DocumentsInv, [Next]_vars, ~ UNCHANGED documents PROVE Follows
    OBVIOUS
  <2>1. desk = "documents" /\ NextDocuments
    BY DocumentStep DEF documents
  <2>2. DocumentsTyped /\ (calm => StatusTells)
    BY <2>1 DEF DocumentsInv
  <2>3. ASSUME UNCHANGED ret PROVE Follows
    BY <2>3
  <2>4. ASSUME NEW p \in Periods, SaveReturn(p) PROVE Follows
    <3>1. ret'[p].reclaimed = Reclaimed(p) /\ \A q \in Periods \ {p} : ret'[q] = ret[q]
      BY <2>2, <2>4 DEF SaveReturn, DocumentsTyped
    <3>2. calm => Reclaimed(p) = LedgerVat(p)
      BY <2>2, ReclaimedIsBooked
    <3> QED BY <3>1, <3>2
  <2>5. ASSUME NEW p \in Periods, SubmitReturn(p) PROVE Follows
    <3>1. ret[p] \in VatReturn
      BY <2>2 DEF DocumentsTyped
    <3>2. \A q \in Periods : ret'[q].reclaimed = ret[q].reclaimed
      BY <2>2, <2>5, <3>1 DEF SubmitReturn, DocumentsTyped, VatReturn
    <3> QED BY <3>2
  <2>6. ASSUME NEW d \in Docs, NEW status, Create(d, status) PROVE Follows
    BY <2>3, <2>6 DEF Create
  <2>7. ASSUME NEW c \in Clients, NEW d \in Docs, NEW s, Load(c, d, s) PROVE Follows
    BY <2>3, <2>7 DEF Load, documents
  <2>8. ASSUME NEW c \in Clients, Commit(c) PROVE Follows
    BY <2>3, <2>8 DEF Commit, documents
  <2> HIDE DEF Follows
  <2> QED BY <2>1, <2>4, <2>5, <2>6, <2>7, <2>8 DEF NextDocuments
<1> QED BY <1>1, DocumentsStart, DocumentsInductive, PTL DEF Spec, ReturnFollowsLedger

-----------------------------------------------------------------------------
(* The bank.  A page is as old as it may be: its lines are still on the statement with
   the same amounts, and what it offered for a line has that line's amount. *)

BankTyped == matched = [l \in OnStatement |-> matched[l]]
PagesFit ==
  \A c \in Clients : req[c] # Idle =>
    /\ DOMAIN req[c] \subseteq OnStatement
    /\ \A l \in DOMAIN req[c] : \A r \in req[c][l] : SignedAmount[r] = lineAmount[l]
BankInv ==
  IF desk = "bank" THEN BankTyped /\ PagesFit /\ req = [c \in Clients |-> req[c]] /\ LinesMatchOnce
  ELSE InitBank

(* A choice for some lines, each of its line's amount, that gives no record a second
   line of those it leaves alone. *)
LEMMA ApplyKeeps ==
  ASSUME BankTyped, LinesMatchOnce, NEW picks, Apply(picks),
         \A l \in DOMAIN picks : picks[l] # NoRecord => SignedAmount[picks[l]] = lineAmount[l],
         DOMAIN picks \subseteq OnStatement,
         \A l \in DOMAIN picks, k \in OnStatement \ DOMAIN picks :
           picks[l] # NoRecord => matched[k] # picks[l]
  PROVE  BankTyped' /\ LinesMatchOnce'
<1>1. OnStatement' = OnStatement /\ UNCHANGED lineAmount
  BY DEF Apply, OnStatement
<1>2. matched' = [l \in OnStatement |-> IF l \in DOMAIN picks THEN picks[l] ELSE matched[l]]
  BY DEF Apply
<1>3. BankTyped'
  BY <1>1, <1>2 DEF BankTyped
<1>4. \A l \in OnStatement : matched'[l] # NoRecord => SignedAmount[matched'[l]] = lineAmount[l]
  BY <1>2 DEF LinesMatchOnce
<1>5. ASSUME ~ doubled', NEW k \in OnStatement, NEW l \in OnStatement,
             matched'[k] = matched'[l], matched'[k] # NoRecord
      PROVE  k = l
  <2>1. ~ doubled /\ \A i, j \in DOMAIN picks : picks[i] = picks[j] /\ picks[i] # NoRecord => i = j
    BY <1>5 DEF Apply
  <2>2. CASE k \in DOMAIN picks /\ l \in DOMAIN picks
    BY <1>2, <1>5, <2>1, <2>2
  <2>3. CASE k \notin DOMAIN picks /\ l \notin DOMAIN picks
    BY <1>2, <1>5, <2>1, <2>3 DEF LinesMatchOnce
  <2>4. CASE k \in DOMAIN picks /\ l \notin DOMAIN picks
    BY <1>2, <1>5, <2>4
  <2>5. CASE k \notin DOMAIN picks /\ l \in DOMAIN picks
    BY <1>2, <1>5, <2>5
  <2> QED BY <2>2, <2>3, <2>4, <2>5
<1> QED BY <1>1, <1>3, <1>4, <1>5 DEF LinesMatchOnce

(* A statement line is imported unmatched. *)
LEMMA AddLineKeeps ==
  ASSUME BankInv, desk = "bank", NEW l, NEW amount, AddLine(l, amount), desk' = desk
  PROVE  BankInv'
<1>1. BankTyped /\ PagesFit /\ LinesMatchOnce
  BY DEF BankInv
<1>2. /\ OnStatement' = OnStatement \cup {l} /\ l \notin OnStatement
      /\ \A k \in OnStatement : lineAmount'[k] = lineAmount[k] /\ matched'[k] = matched[k]
      /\ matched'[l] = NoRecord /\ UNCHANGED <<doubled, req>>
  BY DEF AddLine, OnStatement
<1>3. BankTyped'
  BY <1>2 DEF BankTyped, AddLine
<1>4. PagesFit'
  BY <1>1, <1>2 DEF PagesFit
<1>5. LinesMatchOnce'
  BY <1>1, <1>2 DEF LinesMatchOnce
<1> QED BY <1>2, <1>3, <1>4, <1>5 DEF BankInv

(* Opening the page: what it offers are records of the lines' amounts. *)
LEMMA OpenKeeps ==
  ASSUME BankInv, desk = "bank", NEW c \in Clients, OpenReconciliation(c), desk' = desk
  PROVE  BankInv'
<1> DEFINE page == [l \in OnStatement |-> Candidates(l)]
<1>1. BankTyped /\ PagesFit /\ LinesMatchOnce /\ UNCHANGED <<lineAmount, matched, doubled>>
      /\ req = [d \in Clients |-> req[d]]
  BY DEF BankInv, OpenReconciliation, bank
<1>2. req' = [d \in Clients |-> req'[d]] /\ req'[c] = page /\ \A d \in Clients \ {c} : req'[d] = req[d]
  BY <1>1 DEF OpenReconciliation
<1>3. DOMAIN page = OnStatement /\ \A l \in OnStatement : \A r \in page[l] : SignedAmount[r] = lineAmount[l]
  BY DEF Candidates
<1>4. PagesFit'
  <2> HIDE DEF page
  <2> QED BY <1>1, <1>2, <1>3 DEF PagesFit, OnStatement
<1> QED BY <1>1, <1>2, <1>4 DEF BankInv, BankTyped, OnStatement, LinesMatchOnce

(* Saving it: every line of the statement gets what was chosen for it, or nothing. *)
LEMMA SaveKeeps ==
  ASSUME BankInv, desk = "bank", NEW c \in Clients, SaveReconciliation(c), desk' = desk
  PROVE  BankInv'
<1>1. BankTyped /\ PagesFit /\ LinesMatchOnce /\ req[c] # Idle /\ req = [d \in Clients |-> req[d]]
  BY DEF BankInv, SaveReconciliation
<1>2. PICK picks \in Sent(req[c]) : Apply(picks)
  BY DEF SaveReconciliation
<1>3. DOMAIN picks = OnStatement
  BY DEF Sent
<1>4. \A l \in OnStatement : picks[l] # NoRecord => SignedAmount[picks[l]] = lineAmount[l]
  BY <1>1 DEF PagesFit, Sent
<1>5. BankTyped' /\ LinesMatchOnce'
  BY <1>1, <1>2, <1>3, <1>4, ApplyKeeps
<1>6. UNCHANGED lineAmount /\ req' = [req EXCEPT ![c] = Idle]
  BY <1>2 DEF Apply, SaveReconciliation
<1>7. PagesFit' /\ req' = [d \in Clients |-> req'[d]]
  BY <1>1, <1>6 DEF PagesFit, OnStatement
<1> QED BY <1>5, <1>7 DEF BankInv

(* The auto-match: a record with one candidate line is matched to no other. *)
LEMMA AutoMatchKeeps ==
  ASSUME BankInv, desk = "bank", AutoMatch, desk' = desk
  PROVE  BankInv'
<1> DEFINE sure == {k \in Unreconciled : Cardinality(Candidates(k)) = 1}
           picks == [l \in sure |-> CHOOSE r \in Candidates(l) : TRUE]
<1>1. BankTyped /\ PagesFit /\ LinesMatchOnce /\ Apply(picks) /\ UNCHANGED req
      /\ req = [d \in Clients |-> req[d]]
  BY DEF BankInv, AutoMatch
<1>2. sure \subseteq OnStatement /\ DOMAIN picks = sure
  BY DEF Unreconciled
<1>3. \A l \in sure : picks[l] \in Candidates(l)
  <2>1. ASSUME NEW l \in sure PROVE Candidates(l) # {}
    BY FS_EmptySet
  <2> QED BY <2>1
<1> HIDE DEF sure, picks
<1>4. \A l \in sure : SignedAmount[picks[l]] = lineAmount[l]
                      /\ \A k \in OnStatement \ sure : matched[k] # picks[l]
  BY <1>2, <1>3 DEF Candidates
<1>5. BankTyped' /\ LinesMatchOnce'
  BY <1>1, <1>2, <1>4, ApplyKeeps
<1>6. PagesFit'
  BY <1>1 DEF PagesFit, Apply, OnStatement
<1> QED BY <1>1, <1>5, <1>6 DEF BankInv

(* What a step does to the bank. *)
LEMMA BankStep ==
  [Next]_vars =>
    /\ desk' = desk
    /\ desk = "bank" => NextBank \/ UNCHANGED <<bank, req>>
    /\ desk # "bank" => UNCHANGED bank
BY OneDesk, OtherTables DEF vars, bank

(* Every step keeps the bank's desk in order. *)
LEMMA BankInductive == BankInv /\ [Next]_vars => BankInv'
<1> SUFFICES ASSUME BankInv, [Next]_vars PROVE BankInv'
  OBVIOUS
<1>1. desk' = desk
  BY BankStep
<1>2. CASE desk # "bank"
  BY <1>1, <1>2, BankStep DEF BankInv, InitBank, bank
<1>3. ASSUME desk = "bank", UNCHANGED <<lineAmount, matched, doubled, req>> PROVE BankInv'
  BY <1>1, <1>3 DEF BankInv, BankTyped, PagesFit, OnStatement, LinesMatchOnce
<1>4. CASE desk = "bank" /\ UNCHANGED <<bank, req>>
  BY <1>3, <1>4 DEF bank
<1>5. CASE desk = "bank" /\ NextBank
  <2>1. ASSUME NEW l \in BankLines, NEW amount \in Amounts, AddLine(l, amount) PROVE BankInv'
    BY <1>1, <1>5, <2>1, AddLineKeeps
  <2>2. ASSUME NEW r \in Records, PostRecord(r) \/ DeletePayment(r) PROVE BankInv'
    BY <1>3, <1>5, <2>2 DEF PostRecord, DeletePayment
  <2>3. ASSUME NEW c \in Clients, OpenReconciliation(c) PROVE BankInv'
    BY <1>1, <1>5, <2>3, OpenKeeps
  <2>4. ASSUME NEW c \in Clients, SaveReconciliation(c) PROVE BankInv'
    BY <1>1, <1>5, <2>4, SaveKeeps
  <2>5. ASSUME AutoMatch PROVE BankInv'
    BY <1>1, <1>5, <2>5, AutoMatchKeeps
  <2> QED BY <1>5, <2>1, <2>2, <2>3, <2>4, <2>5 DEF NextBank
<1> QED BY <1>2, <1>4, <1>5, BankStep

(* A line of the statement is matched to a record of its amount, and no record to two
   lines unless one save or one auto-match gave it to both (_recon_rows, _apply_match and
   the auto-match of views.py). *)
THEOREM StatementMatchesOnce == Spec => []LinesMatchOnce
<1>1. Init => BankInv
  <2>1. InitBank => BankTyped /\ LinesMatchOnce
    BY DEF InitBank, BankTyped, LinesMatchOnce, OnStatement
  <2>2. InitRequests => PagesFit /\ req = [c \in Clients |-> req[c]]
    BY DEF InitRequests, PagesFit
  <2> QED BY <2>1, <2>2 DEF Init, BankInv
<1>2. BankInv => LinesMatchOnce
  BY DEF BankInv, InitBank, LinesMatchOnce, OnStatement
<1> QED BY <1>1, <1>2, BankInductive, PTL DEF Spec

-----------------------------------------------------------------------------
(* Forecasts.  A plan is followed while its version is locked and no line of it waits to
   be saved but by the late requests; while requests come one at a time, one that is to
   make a default finds none. *)

VersionRow == [status : ForecastStatuses, default : BOOLEAN]
Plan == [version : Versions \cup {NoVersion}, phase : {"none", "resolved", "collected"},
         demand : Quantities \cup {0}, late : SUBSET Clients]
ForecastsTyped ==
  /\ version \in [Versions -> VersionRow] /\ line \in [Versions -> Quantities \cup {0}]
  /\ plan \in Plan

FormTyped(r) ==
  /\ r.version \in Versions /\ (r.op = "version" => r.form \in VersionRow)
  /\ r.op = "line" => r.qty \in Quantities \cup {0}
FormsTyped == \A c \in Clients : req[c] # Idle => FormTyped(req[c])

Followed(v) ==
  /\ v \in Versions /\ version[v].status = "LOCKED"
  /\ \A c \in Clients : req[c] # Idle /\ req[c].op = "line" /\ req[c].version = v => c \in plan.late
PlanHolds ==
  /\ plan.phase # "none" => Followed(plan.version)
  /\ plan.phase = "collected" => plan.demand = line[plan.version]

OneDefault ==
  /\ \A u, v \in Versions : version[u].default /\ version[v].default => u = v
  /\ \A c \in Clients : req[c] # Idle /\ req[c].op = "default" => \A v \in Versions : ~ version[v].default

ForecastsInv ==
  IF desk = "forecasts"
    THEN /\ ForecastsTyped /\ RequestsOK /\ FormsTyped /\ PlanHolds
         /\ calm /\ ~ formed => OneDefault
    ELSE InitForecasts

(* A plan that is not followed any more promises nothing. *)
LEMMA LapsedPlan ==
  ASSUME ForecastsTyped, PlanHolds, NEW v \in Versions, Lapse(v)
  PROVE  /\ plan' \in Plan
         /\ \/ plan'.phase = "none"
            \/ plan' = plan /\ plan.version # v
<1>1. NoPlan \in Plan /\ NoPlan.phase = "none"
  BY DEF NoPlan, Plan
<1> QED BY <1>1 DEF Lapse, ForecastsTyped

(* A change of one version, with a plan that lapses if it follows that version, unless
   the version is locked after it. *)
LEMMA VersionChanges ==
  ASSUME ForecastsTyped, PlanHolds, NEW v \in Versions, NEW row \in VersionRow,
         version' = [version EXCEPT ![v] = row], UNCHANGED line,
         Lapse(v) \/ (row.status = "LOCKED" /\ UNCHANGED plan),
         \A c \in Clients : req'[c] # Idle => req'[c] = req[c]
  PROVE  ForecastsTyped' /\ PlanHolds'
<1>1. plan' \in Plan
  BY LapsedPlan DEF ForecastsTyped
<1>2. ForecastsTyped'
  BY <1>1 DEF ForecastsTyped
<1>3. plan'.phase = "none" \/ (plan' = plan /\ (plan.version # v \/ row.status = "LOCKED"))
  BY LapsedPlan
<1>4. version'[v] = row /\ \A u \in Versions \ {v} : version'[u] = version[u]
  BY DEF ForecastsTyped
<1> QED BY <1>2, <1>3, <1>4 DEF PlanHolds, Followed

(* Activating, locking or archiving a version. *)
LEMMA ActionKeeps ==
  ASSUME ForecastsInv, desk = "forecasts", NEW v \in Versions,
         Activate(v) \/ Lock(v) \/ Archive(v), desk' = desk
  PROVE  ForecastsInv'
<1>1. ForecastsTyped /\ RequestsOK /\ FormsTyped /\ PlanHolds /\ (calm /\ ~ formed => OneDefault)
      /\ version[v] \in VersionRow
  BY DEF ForecastsInv, ForecastsTyped
<1>2. UNCHANGED <<line, formed, req>> /\ Start
  BY DEF Activate, Lock, Archive
<1>3. RequestsOK' /\ (calm' => calm /\ AllIdle)
  BY <1>1, <1>2, RequestRuns
<1>4. PICK row \in VersionRow :
        /\ version' = [version EXCEPT ![v] = row] /\ (row.default => version[v].default)
        /\ Lapse(v) \/ (row.status = "LOCKED" /\ UNCHANGED plan)
  <2>1. CASE Activate(v)
    <3> DEFINE row == [version[v] EXCEPT !.status = "ACTIVE"]
    <3>1. row \in VersionRow /\ row.default = version[v].default
      BY <1>1 DEF VersionRow, ForecastStatuses
    <3>2. version' = [version EXCEPT ![v] = row] /\ Lapse(v)
      BY <2>1 DEF Activate
    <3> QED BY <3>1, <3>2
  <2>2. CASE Lock(v)
    <3> DEFINE row == [version[v] EXCEPT !.status = "LOCKED"]
    <3>1. row \in VersionRow /\ row.default = version[v].default /\ row.status = "LOCKED"
      BY <1>1 DEF VersionRow, ForecastStatuses
    <3>2. version' = [version EXCEPT ![v] = row] /\ UNCHANGED plan
      BY <2>2 DEF Lock
    <3> QED BY <3>1, <3>2
  <2>3. CASE Archive(v)
    <3> DEFINE row == [status |-> "ARCHIVED", default |-> FALSE]
    <3>1. row \in VersionRow /\ row.default = FALSE
      BY DEF VersionRow, ForecastStatuses
    <3>2. version' = [version EXCEPT ![v] = row] /\ Lapse(v)
      BY <2>3 DEF Archive
    <3> QED BY <3>1, <3>2
  <2> QED BY <2>1, <2>2, <2>3
<1>5. ForecastsTyped' /\ PlanHolds'
  BY <1>1, <1>2, <1>4, VersionChanges
<1>6. \A u \in Versions : version'[u].default => version[u].default
  BY <1>1, <1>4 DEF ForecastsTyped
<1>7. calm' /\ ~ formed' => OneDefault'
  BY <1>1, <1>2, <1>3, <1>6 DEF OneDefault, AllIdle
<1> QED BY <1>1, <1>2, <1>3, <1>5, <1>7 DEF ForecastsInv, FormsTyped, FormTyped

(* set_default, its two statements. *)
LEMMA ClearKeeps ==
  ASSUME ForecastsInv, desk = "forecasts", NEW c \in Clients, NEW v \in Versions,
         ClearDefault(c, v), desk' = desk
  PROVE  ForecastsInv'
<1> DEFINE r == [op |-> "default", version |-> v]
<1>1. ForecastsTyped /\ RequestsOK /\ FormsTyped /\ PlanHolds /\ UNCHANGED <<line, plan, formed>>
  BY DEF ForecastsInv, ClearDefault
<1>2. RequestsOK' /\ (calm' => calm /\ AllIdle) /\ req'[c] = r
      /\ \A d \in Clients \ {c} : req'[d] = req[d]
  BY <1>1, RequestLoads DEF ClearDefault
<1>3. \A u \in Versions : /\ [version[u] EXCEPT !.default = FALSE] \in VersionRow
                          /\ [version[u] EXCEPT !.default = FALSE].default = FALSE
                          /\ [version[u] EXCEPT !.default = FALSE].status = version[u].status
  BY <1>1 DEF ForecastsTyped, VersionRow
<1>4. version' \in [Versions -> VersionRow]
      /\ \A u \in Versions : version'[u].status = version[u].status /\ version'[u].default = FALSE
  BY <1>3 DEF ClearDefault
<1>5. r.op = "default" /\ r.version = v
  OBVIOUS
<1> HIDE DEF r
<1>6. ForecastsTyped' /\ PlanHolds'
  BY <1>1, <1>2, <1>4, <1>5 DEF ForecastsTyped, PlanHolds, Followed
<1>7. FormsTyped'
  BY <1>1, <1>2, <1>5 DEF FormsTyped, FormTyped
<1>8. OneDefault'
  BY <1>4 DEF OneDefault
<1> QED BY <1>2, <1>6, <1>7, <1>8 DEF ForecastsInv

(* Making a version the default one: it was active when the request began. *)
LEMMA MakeKeeps ==
  ASSUME ForecastsInv, desk = "forecasts", NEW c \in Clients, MakeDefault(c), desk' = desk
  PROVE  ForecastsInv'
<1>1. ForecastsTyped /\ RequestsOK /\ FormsTyped /\ PlanHolds /\ (calm /\ ~ formed => OneDefault)
      /\ req[c] # Idle /\ req[c].op = "default" /\ UNCHANGED <<line, plan, formed>>
  BY DEF ForecastsInv, MakeDefault
<1>2. RequestsOK' /\ (calm' => calm) /\ req'[c] = Idle
      /\ \A d \in Clients \ {c} : req'[d] = req[d] /\ (calm => req'[d] = Idle)
  BY <1>1, RequestEnds DEF MakeDefault
<1>3. PICK v \in Versions : v = req[c].version
  BY <1>1 DEF FormsTyped, FormTyped
<1> DEFINE row == [version[v] EXCEPT !.default = TRUE]
<1>4. row \in VersionRow /\ row.status = version[v].status
  BY <1>1 DEF ForecastsTyped, VersionRow
<1>5. version' = [version EXCEPT ![v] = row]
  BY <1>3 DEF MakeDefault
<1> HIDE DEF row
<1>6. version'[v] = row /\ \A u \in Versions \ {v} : version'[u] = version[u]
  BY <1>1, <1>5 DEF ForecastsTyped
<1>7. ForecastsTyped' /\ PlanHolds'
  BY <1>1, <1>2, <1>4, <1>5, <1>6 DEF ForecastsTyped, PlanHolds, Followed
<1>8. FormsTyped'
  BY <1>1, <1>2 DEF FormsTyped
<1>9. calm' /\ ~ formed' => OneDefault'
  BY <1>1, <1>2, <1>6 DEF OneDefault
<1> QED BY <1>2, <1>7, <1>8, <1>9 DEF ForecastsInv, FormTyped

(* The form of a version replaces it. *)
LEMMA LoadVersionKeeps ==
  ASSUME ForecastsInv, desk = "forecasts", NEW c \in Clients, NEW v \in Versions, NEW admin,
         NEW form \in VersionRow, LoadVersion(c, v, admin, form), desk' = desk
  PROVE  ForecastsInv'
<1> DEFINE r == [op |-> "version", version |-> v, form |-> form]
<1>1. ForecastsTyped /\ RequestsOK /\ FormsTyped /\ PlanHolds /\ (calm /\ ~ formed => OneDefault)
      /\ UNCHANGED <<version, line, plan, formed>>
  BY DEF ForecastsInv, LoadVersion, forecasts
<1>2. RequestsOK' /\ (calm' => calm /\ AllIdle) /\ req'[c] = r
      /\ \A d \in Clients \ {c} : req'[d] = req[d]
  BY <1>1, RequestLoads DEF LoadVersion
<1>3. r.op = "version" /\ r.version = v /\ r.form = form
  OBVIOUS
<1> HIDE DEF r
<1>4. PlanHolds'
  BY <1>1, <1>2, <1>3 DEF PlanHolds, Followed
<1>5. FormsTyped'
  BY <1>1, <1>2, <1>3 DEF FormsTyped, FormTyped
<1>6. calm' /\ ~ formed' => OneDefault'
  BY <1>1, <1>2, <1>3 DEF OneDefault, AllIdle
<1> QED BY <1>1, <1>2, <1>4, <1>5, <1>6 DEF ForecastsInv, ForecastsTyped

(* Saving the version form over whatever the row says by then. *)
LEMMA SaveVersionKeeps ==
  ASSUME ForecastsInv, desk = "forecasts", NEW c \in Clients, SaveVersion(c), desk' = desk
  PROVE  ForecastsInv'
<1>1. ForecastsTyped /\ RequestsOK /\ FormsTyped /\ PlanHolds /\ (calm /\ ~ formed => OneDefault)
      /\ req[c] # Idle /\ req[c].op = "version" /\ UNCHANGED line
  BY DEF ForecastsInv, SaveVersion
<1>2. RequestsOK' /\ (calm' => calm) /\ req'[c] = Idle
      /\ \A d \in Clients \ {c} : req'[d] = req[d] /\ (calm => req'[d] = Idle)
  BY <1>1, RequestEnds DEF SaveVersion
<1>3. PICK v \in Versions : v = req[c].version
  BY <1>1 DEF FormsTyped, FormTyped
<1>4. PICK row \in VersionRow : row = req[c].form
  BY <1>1 DEF FormsTyped, FormTyped
<1>5. /\ version' = [version EXCEPT ![v] = row] /\ formed' = (formed \/ row.default)
      /\ Lapse(v) \/ (row.status = "LOCKED" /\ UNCHANGED plan)
  BY <1>3, <1>4 DEF SaveVersion
<1>6. ForecastsTyped' /\ PlanHolds'
  BY <1>1, <1>2, <1>5, VersionChanges
<1>7. FormsTyped'
  BY <1>1, <1>2 DEF FormsTyped
<1>8. version'[v] = row /\ \A u \in Versions \ {v} : version'[u] = version[u]
  BY <1>1, <1>5 DEF ForecastsTyped
<1>9. calm' /\ ~ formed' => OneDefault'
  BY <1>1, <1>2, <1>5, <1>8, ZenonT(60) DEF OneDefault
<1> QED BY <1>2, <1>6, <1>7, <1>9 DEF ForecastsInv, FormTyped

(* A line is read in by a planner while its version is not locked, or by an admin, and
   then nobody follows the plan any more. *)
LEMMA LoadLineKeeps ==
  ASSUME ForecastsInv, desk = "forecasts", NEW c \in Clients, NEW v \in Versions, NEW admin \in BOOLEAN,
         NEW qty \in Quantities \cup {0}, LoadLine(c, v, admin, qty), desk' = desk
  PROVE  ForecastsInv'
<1> DEFINE r == [op |-> "line", version |-> v, qty |-> qty]
<1>1. ForecastsTyped /\ RequestsOK /\ FormsTyped /\ PlanHolds /\ (calm /\ ~ formed => OneDefault)
      /\ UNCHANGED <<version, line, formed>>
  BY DEF ForecastsInv, LoadLine
<1>2. RequestsOK' /\ (calm' => calm /\ AllIdle) /\ req'[c] = r
      /\ \A d \in Clients \ {c} : req'[d] = req[d]
  BY <1>1, RequestLoads DEF LoadLine
<1>3. r.op = "line" /\ r.version = v /\ r.qty = qty
  OBVIOUS
<1> HIDE DEF r
<1>4. plan' \in Plan /\ (plan'.phase = "none" \/ (plan' = plan /\ (plan.phase = "none" \/ plan.version # v)))
  <2>1. CASE admin = TRUE
    BY <1>1, <2>1, LapsedPlan DEF LoadLine
  <2>2. CASE admin = FALSE
    <3>1. version[v].status # "LOCKED" /\ UNCHANGED plan
      BY <2>2 DEF LoadLine, LineGuard, VersionGuard
    <3> QED BY <1>1, <3>1 DEF PlanHolds, Followed, ForecastsTyped
  <2> QED BY <2>1, <2>2
<1>5. ForecastsTyped'
  BY <1>1, <1>4 DEF ForecastsTyped
<1>6. PlanHolds'
  BY <1>1, <1>2, <1>3, <1>4 DEF PlanHolds, Followed
<1>7. FormsTyped'
  BY <1>1, <1>2, <1>3 DEF FormsTyped, FormTyped
<1>8. calm' /\ ~ formed' => OneDefault'
  BY <1>1, <1>2, <1>3 DEF OneDefault, AllIdle
<1> QED BY <1>2, <1>5, <1>6, <1>7, <1>8 DEF ForecastsInv

(* Saving a line of a version. *)
LEMMA SaveLineKeeps ==
  ASSUME ForecastsInv, desk = "forecasts", NEW c \in Clients, SaveLine(c), desk' = desk
  PROVE  ForecastsInv'
<1>1. ForecastsTyped /\ RequestsOK /\ FormsTyped /\ PlanHolds /\ (calm /\ ~ formed => OneDefault)
      /\ req[c] # Idle /\ req[c].op = "line" /\ UNCHANGED <<version, formed>>
      /\ plan' = IF c \in plan.late THEN NoPlan ELSE plan
  BY DEF ForecastsInv, SaveLine
<1>2. RequestsOK' /\ (calm' => calm) /\ req'[c] = Idle
      /\ \A d \in Clients \ {c} : req'[d] = req[d] /\ (calm => req'[d] = Idle)
  BY <1>1, RequestEnds DEF SaveLine
<1>3. PICK v \in Versions : v = req[c].version
  BY <1>1 DEF FormsTyped, FormTyped
<1>4. req[c].qty \in Quantities \cup {0} /\ line' = [line EXCEPT ![v] = req[c].qty]
  BY <1>1, <1>3 DEF FormsTyped, FormTyped, SaveLine
<1>a. NoPlan \in Plan /\ NoPlan.phase = "none"
  BY DEF NoPlan, Plan
<1>5. ForecastsTyped' /\ \A u \in Versions \ {v} : line'[u] = line[u]
  BY <1>1, <1>4, <1>a DEF ForecastsTyped
<1>6. plan'.phase # "none" =>
        plan' = plan /\ c \notin plan.late /\ plan.version # v /\ plan.version \in Versions
  BY <1>1, <1>3, <1>a DEF PlanHolds, Followed
<1>7. PlanHolds'
  BY <1>1, <1>2, <1>5, <1>6 DEF PlanHolds, Followed
<1>8. FormsTyped'
  BY <1>1, <1>2 DEF FormsTyped
<1>9. calm' /\ ~ formed' => OneDefault'
  BY <1>1, <1>2 DEF OneDefault
<1> QED BY <1>2, <1>5, <1>7, <1>8, <1>9 DEF ForecastsInv, FormTyped

(* The run looks at its version, and reads its line later. *)
LEMMA RunKeeps ==
  ASSUME ForecastsInv, desk = "forecasts", desk' = desk,
         (\E v \in Versions : ResolveForecast(v)) \/ CollectForecast
  PROVE  ForecastsInv'
<1>1. ForecastsTyped /\ RequestsOK /\ FormsTyped /\ PlanHolds /\ (calm /\ ~ formed => OneDefault)
      /\ UNCHANGED <<version, line, formed, req, overlaps>>
  BY DEF ForecastsInv, ResolveForecast, CollectForecast
<1>2. plan' \in Plan /\ PlanHolds'
  <2>1. ASSUME NEW v \in Versions, ResolveForecast(v) PROVE plan' \in Plan /\ PlanHolds'
    <3> DEFINE p == [version |-> v, phase |-> "resolved", demand |-> 0, late |-> Changing(v)]
    <3>1. NoPlan \in Plan /\ NoPlan.phase = "none"
      BY DEF NoPlan, Plan
    <3>a. p \in Plan /\ p.version = v /\ p.phase = "resolved" /\ p.late = Changing(v)
      BY DEF Plan, Changing
    <3>2. CASE version[v].status = "LOCKED"
      <4>1. plan' = p
        BY <2>1, <3>2 DEF ResolveForecast
      <4> HIDE DEF p
      <4> QED BY <1>1, <3>2, <3>a, <4>1 DEF PlanHolds, Followed, Changing
    <3>3. CASE version[v].status # "LOCKED"
      BY <1>1, <2>1, <3>1, <3>3 DEF ResolveForecast, PlanHolds
    <3> QED BY <3>2, <3>3
  <2>2. ASSUME CollectForecast PROVE plan' \in Plan /\ PlanHolds'
    <3>1. plan.version \in Versions /\ line[plan.version] \in Quantities \cup {0} /\ plan \in Plan
      BY <1>1, <2>2 DEF PlanHolds, Followed, CollectForecast, ForecastsTyped
    <3>2. plan' \in Plan /\ plan'.version = plan.version /\ plan'.demand = line[plan.version]
      BY <2>2, <3>1 DEF CollectForecast, Plan
    <3> QED BY <1>1, <2>2, <3>2 DEF PlanHolds, Followed, CollectForecast
  <2> QED BY <2>1, <2>2
<1> QED BY <1>1, <1>2 DEF ForecastsInv, ForecastsTyped, RequestsOK, calm, Alone, FormsTyped, FormTyped,
                          OneDefault

(* What a step does to the forecasts. *)
LEMMA ForecastStep ==
  [Next]_vars =>
    /\ desk' = desk
    /\ desk = "forecasts" => NextForecasts \/ UNCHANGED <<forecasts, req, overlaps>>
    /\ desk # "forecasts" => UNCHANGED forecasts
BY OneDesk, OtherTables DEF vars, forecasts

(* Every step keeps the forecasts' desk in order. *)
LEMMA ForecastsInductive == ForecastsInv /\ [Next]_vars => ForecastsInv'
<1> SUFFICES ASSUME ForecastsInv, [Next]_vars PROVE ForecastsInv'
  OBVIOUS
<1>1. desk' = desk
  BY ForecastStep
<1>2. CASE desk # "forecasts"
  BY <1>1, <1>2, ForecastStep DEF ForecastsInv, InitForecasts, forecasts
<1>3. CASE desk = "forecasts" /\ UNCHANGED <<forecasts, req, overlaps>>
  BY <1>1, <1>3 DEF ForecastsInv, forecasts, ForecastsTyped, RequestsOK, Alone, calm, FormsTyped, FormTyped,
                    PlanHolds, Followed, OneDefault
<1>4. CASE desk = "forecasts" /\ NextForecasts
  <2>1. ASSUME NEW v \in Versions, Activate(v) \/ Lock(v) \/ Archive(v) PROVE ForecastsInv'
    BY <1>1, <1>4, <2>1, ActionKeeps
  <2>2. ASSUME NEW c \in Clients, NEW v \in Versions, ClearDefault(c, v) PROVE ForecastsInv'
    BY <1>1, <1>4, <2>2, ClearKeeps
  <2>3. ASSUME NEW c \in Clients, MakeDefault(c) PROVE ForecastsInv'
    BY <1>1, <1>4, <2>3, MakeKeeps
  <2>4. ASSUME NEW c \in Clients, NEW v \in Versions, NEW admin \in BOOLEAN,
               NEW status \in ForecastStatuses, NEW default \in BOOLEAN,
               LoadVersion(c, v, admin, [status |-> status, default |-> default])
        PROVE  ForecastsInv'
    <3>1. [status |-> status, default |-> default] \in VersionRow
      BY DEF VersionRow
    <3> QED BY <1>1, <1>4, <2>4, <3>1, LoadVersionKeeps
  <2>5. ASSUME NEW c \in Clients, SaveVersion(c) PROVE ForecastsInv'
    BY <1>1, <1>4, <2>5, SaveVersionKeeps
  <2>6. ASSUME NEW c \in Clients, NEW v \in Versions, NEW admin \in BOOLEAN,
               NEW qty \in Quantities \cup {0}, LoadLine(c, v, admin, qty)
        PROVE  ForecastsInv'
    BY <1>1, <1>4, <2>6, LoadLineKeeps
  <2>7. ASSUME NEW c \in Clients, SaveLine(c) PROVE ForecastsInv'
    BY <1>1, <1>4, <2>7, SaveLineKeeps
  <2>8. ASSUME (\E v \in Versions : ResolveForecast(v)) \/ CollectForecast PROVE ForecastsInv'
    BY <1>1, <1>4, <2>8, RunKeeps
  <2> QED BY <1>4, <2>1, <2>2, <2>3, <2>4, <2>5, <2>6, <2>7, <2>8 DEF NextForecasts
<1> QED BY <1>2, <1>3, <1>4, ForecastStep

(* No version is the default to begin with. *)
LEMMA ForecastsBegin == InitForecasts => ForecastsTyped /\ PlanHolds /\ \A v \in Versions : ~ version[v].default
<1> SUFFICES ASSUME InitForecasts
             PROVE  ForecastsTyped /\ PlanHolds /\ \A v \in Versions : ~ version[v].default
  OBVIOUS
<1>1. [status |-> "DRAFT", default |-> FALSE] \in VersionRow
      /\ [status |-> "DRAFT", default |-> FALSE].default = FALSE
  BY DEF VersionRow, ForecastStatuses
<1>2. NoPlan \in Plan /\ NoPlan.phase = "none"
  BY DEF NoPlan, Plan
<1> QED BY <1>1, <1>2 DEF InitForecasts, ForecastsTyped, PlanHolds

(* A set of which any two members are equal has one at most. *)
LEMMA OneAtMost ==
  ASSUME NEW S, \A x, y \in S : x = y
  PROVE  Cardinality(S) <= 1
<1>1. CASE S = {}
  BY <1>1, FS_EmptySet
<1>2. CASE S # {}
  <2>1. PICK x \in S : TRUE
    BY <1>2
  <2>2. S = {x}
    BY <2>1
  <2> QED BY <2>2, FS_Singleton
<1> QED BY <1>1, <1>2

(* What a run planned for is what its version says for as long as that stays locked,
   however requests race, and one version at most is the default while they do not
   (_forecast_line_guard, forecast_version_action and _collect_forecast). *)
THEOREM LockedForecastsHold == Spec => []ForecastsHold
<1>1. Init => ForecastsInv
  <2> SUFFICES ASSUME Init PROVE ForecastsInv
    OBVIOUS
  <2>1. InitForecasts /\ RequestsOK /\ AllIdle
    BY RequestsBegin DEF Init
  <2>2. ForecastsTyped /\ FormsTyped /\ PlanHolds /\ OneDefault
    BY <2>1, ForecastsBegin DEF FormsTyped, AllIdle, OneDefault
  <2> QED BY <2>1, <2>2 DEF ForecastsInv
<1>2. ForecastsInv => ForecastsHold
  <2> SUFFICES ASSUME ForecastsInv PROVE ForecastsHold
    OBVIOUS
  <2>1. PlanHolds
    BY ForecastsBegin DEF ForecastsInv
  <2>2. calm /\ ~ formed => \A u, v \in {w \in Versions : version[w].default} : u = v
    BY ForecastsBegin DEF ForecastsInv, OneDefault
  <2>3. calm /\ ~ formed => Cardinality({w \in Versions : version[w].default}) <= 1
    BY <2>2, OneAtMost
  <2> QED BY <2>1, <2>3 DEF ForecastsHold, PlanHolds
<1> QED BY <1>1, <1>2, ForecastsInductive, PTL DEF Spec

-----------------------------------------------------------------------------
(* Sessions.  A form at a location was opened in the company and at the site of that
   location; and while nothing else starts in the browser, the session stays the one a
   form was opened in. *)

IsContext(s) == s = [company |-> s.company, site |-> s.site]

FormPlaced(r) == r.loc # NoLocation => OrgOf[r.loc] = r.company /\ r.at = r.site
FormsPlaced == \A c \in Clients : req[c] # Idle => FormPlaced(req[c])
FormsCurrent ==
  \A c \in Clients : req[c] # Idle /\ req[c].own => session = [company |-> req[c].company, site |-> req[c].site]

SessionsInv ==
  IF desk = "sessions"
    THEN /\ IsContext(session) /\ RequestsOK /\ FormsPlaced /\ (calm => FormsCurrent)
         /\ FormsLandWhereOpened
    ELSE InitSessions

(* The gate lets a request through with a working site only. *)
LEMMA GateGivesSite ==
  ASSUME NEW s, IsContext(s)
  PROVE  /\ IsContext(Gate(s).session)
         /\ Gate(s).to = "view" => ActiveSite(Gate(s).session) # NoWorkSite
<1> DEFINE several == s.company = NoTenant /\ Cardinality(Memberships) > 1
           placed == IF s.company = NoTenant THEN [s EXCEPT !.company = ActiveTenant(s)] ELSE s
           choice == SelectableSites(ActiveTenant(placed))
           only == [placed EXCEPT !.site = CHOOSE x \in choice : TRUE]
<1>1. IsContext(placed)
  BY DEF IsContext
<1>2. IsContext(only) /\ only.company = placed.company /\ only.site = CHOOSE x \in choice : TRUE
  <2>1. ASSUME NEW f, IsContext(f), NEW x
        PROVE  LET h == [f EXCEPT !.site = x] IN IsContext(h) /\ h.company = f.company /\ h.site = x
    <3>1. PICK a, b : f = [company |-> a, site |-> b]
      BY <2>1 DEF IsContext
    <3>2. [f EXCEPT !.site = x] = [company |-> a, site |-> x]
      BY <3>1
    <3> QED BY <3>1, <3>2 DEF IsContext
  <2> HIDE DEF placed, choice
  <2> QED BY <1>1, <2>1
<1>3. Gate(s) = IF several THEN [to |-> "select_org", session |-> s]
                ELSE IF ActiveSite(placed) # NoWorkSite THEN [to |-> "view", session |-> placed]
                ELSE IF Cardinality(choice) = 1 THEN [to |-> "view", session |-> only]
                ELSE [to |-> IF choice = {} THEN "no_site" ELSE "select_site", session |-> placed]
  BY DEF Gate
<1>4. ActiveTenant(only) = ActiveTenant(placed)
  <2> HIDE DEF placed, only
  <2> QED BY <1>2 DEF ActiveTenant
<1>5. Cardinality(choice) = 1 => ActiveSite(only) # NoWorkSite
  <2> SUFFICES ASSUME Cardinality(choice) = 1 PROVE ActiveSite(only) # NoWorkSite
    OBVIOUS
  <2>1. choice # {}
    BY FS_EmptySet
  <2>2. only.site \in choice
    <3> HIDE DEF choice, only
    <3> QED BY <1>2, <2>1
  <2>3. only.site # NoWorkSite
    <3>1. choice \subseteq WorkSites
      BY DEF SelectableSites
    <3> HIDE DEF choice, only
    <3> QED BY <2>2, <3>1, SessionsAssumption
  <2>4. only.site \in SelectableSites(ActiveTenant(only))
    BY <1>4, <2>2
  <2> HIDE DEF only
  <2> QED BY <2>3, <2>4 DEF ActiveSite
<1> HIDE DEF several, placed, choice, only
<1>6. CASE several
  BY <1>3, <1>6
<1>7. CASE ~ several /\ ActiveSite(placed) # NoWorkSite
  BY <1>1, <1>3, <1>7
<1>8. CASE ~ several /\ ActiveSite(placed) = NoWorkSite /\ Cardinality(choice) = 1
  BY <1>2, <1>3, <1>5, <1>8
<1>9. CASE ~ several /\ ActiveSite(placed) = NoWorkSite /\ Cardinality(choice) # 1
  <2>1. Gate(s).session = placed /\ Gate(s).to # "view"
    BY <1>3, <1>9
  <2> QED BY <1>1, <2>1
<1> QED BY <1>6, <1>7, <1>8, <1>9

(* It leaves a session alone whose company and site may still be used. *)
LEMMA GateKeepsGood ==
  ASSUME NEW s, IsContext(s), s.company \in Memberships, s.site \in SelectableSites(s.company)
  PROVE  /\ Gate(s).to = "view" /\ Gate(s).session = s
         /\ ActiveTenant(s) = s.company /\ ActiveSite(s) = s.site
<1>1. s.company # NoTenant /\ s.site # NoWorkSite
  BY SessionsAssumption DEF Memberships, SelectableSites
<1>2. ActiveTenant(s) = s.company
  BY DEF ActiveTenant
<1>3. ActiveSite(s) = s.site
  BY <1>2 DEF ActiveSite
<1>4. Gate(s) = [to |-> "view", session |-> s]
  BY <1>1, <1>3 DEF Gate
<1> QED BY <1>2, <1>3, <1>4

(* A form that is opened. *)
LEMMA OpenFormKeeps ==
  ASSUME SessionsInv, desk = "sessions", NEW c \in Clients, NEW l, OpenForm(c, l), desk' = desk
  PROVE  SessionsInv'
<1>1. IsContext(session) /\ RequestsOK /\ FormsPlaced /\ FormsLandWhereOpened /\ UNCHANGED posted
  BY DEF SessionsInv, OpenForm
<1>2. PICK g : g = Gate(session)
  OBVIOUS
<1>3. PICK r : r = [company |-> ActiveTenant(g.session), site |-> ActiveSite(g.session), loc |-> l,
                    at  |-> IF l = NoLocation THEN NoWorkSite ELSE place[l],
                    own |-> g.session.company = ActiveTenant(g.session)]
  OBVIOUS
<1>4. /\ g.to = "view" /\ l \in Offered(g.session) \cup {NoLocation} /\ session' = g.session
      /\ req' = [req EXCEPT ![c] = r] /\ req[c] = Idle /\ Start
  BY <1>2, <1>3 DEF OpenForm
<1>5. RequestsOK' /\ (calm' => calm /\ AllIdle) /\ req'[c] = r
      /\ \A d \in Clients \ {c} : req'[d] = req[d]
  BY <1>1, <1>4, RequestLoads
<1>6. IsContext(g.session) /\ ActiveSite(g.session) # NoWorkSite
  BY <1>1, <1>2, <1>4, GateGivesSite
<1>7. FormPlaced(r)
  <2>1. CASE l \in Offered(g.session)
    <3>1. OrgOf[l] = ActiveTenant(g.session) /\ ActiveSite(g.session) = place[l]
      BY <1>6, <2>1 DEF Offered, AccessibleLocations
    <3> QED BY <1>3, <3>1 DEF FormPlaced
  <2>2. CASE l = NoLocation
    BY <1>3, <2>2 DEF FormPlaced
  <2> QED BY <1>4, <2>1, <2>2
<1>8. r.own => g.session = [company |-> r.company, site |-> r.site]
  <2>1. r.company = ActiveTenant(g.session) /\ r.site = ActiveSite(g.session)
        /\ (r.own <=> g.session.company = ActiveTenant(g.session))
    BY <1>3
  <2>2. g.session.site = ActiveSite(g.session)
    BY <1>6 DEF ActiveSite
  <2> QED BY <1>6, <2>1, <2>2 DEF IsContext
<1>9. FormsPlaced' /\ (calm' => FormsCurrent')
  BY <1>1, <1>4, <1>5, <1>7, <1>8 DEF FormsPlaced, FormsCurrent, AllIdle, FormPlaced
<1>10. IsContext(session)' /\ FormsLandWhereOpened'
  BY <1>1, <1>4, <1>5, <1>6 DEF IsContext, FormsLandWhereOpened
<1> QED BY <1>5, <1>9, <1>10 DEF SessionsInv

(* A form that is posted. *)
LEMMA PostFormKeeps ==
  ASSUME SessionsInv, desk = "sessions", NEW c \in Clients, PostForm(c), desk' = desk
  PROVE  SessionsInv'
<1>1. IsContext(session) /\ RequestsOK /\ FormsPlaced /\ (calm => FormsCurrent) /\ FormsLandWhereOpened
      /\ req[c] # Idle
  BY DEF SessionsInv, PostForm
<1>2. RequestsOK' /\ (calm' => calm) /\ req'[c] = Idle
      /\ \A d \in Clients \ {c} : req'[d] = req[d] /\ (calm => req'[d] = Idle)
  BY <1>1, RequestEnds DEF PostForm
<1>3. PICK g : g = Gate(session)
  OBVIOUS
<1>4. PICK form : form = req[c] /\ FormPlaced(form)
  BY <1>1 DEF FormsPlaced
<1> DEFINE company == ActiveTenant(g.session)
           at == IF form.loc = NoLocation THEN ActiveSite(g.session) ELSE place[form.loc]
           accepted == g.to = "view" /\ form.loc \in Offered(g.session) \cup {NoLocation}
           new == [opened |-> [company |-> form.company, site |-> form.site],
                   landed |-> [company |-> company, site |-> at],
                   loc    |-> form.loc,
                   kept   |-> /\ form.own /\ form.company \in Memberships
                             /\ form.site \in SelectableSites(form.company),
                   moved  |-> form.loc # NoLocation /\ place[form.loc] # form.at]
<1>5. session' = g.session /\ posted' = IF accepted THEN new ELSE posted
  BY <1>3, <1>4 DEF PostForm
<1>6. IsContext(session)'
  BY <1>1, <1>3, <1>5, GateGivesSite DEF IsContext
<1>7. FormsPlaced' /\ (calm' => FormsCurrent')
  BY <1>1, <1>2 DEF FormsPlaced, FormsCurrent, FormPlaced
<1>8. ASSUME accepted, form.loc # NoLocation, place[form.loc] = form.at
      PROVE  company = form.company /\ at = form.site
  <2>1. OrgOf[form.loc] = company
    BY <1>8 DEF Offered, AccessibleLocations
  <2> QED BY <1>4, <1>8, <2>1 DEF FormPlaced
<1>9. ASSUME accepted, calm, form.own, form.company \in Memberships,
             form.site \in SelectableSites(form.company), form.loc = NoLocation
      PROVE  company = form.company /\ at = form.site
  <2>1. session.company = form.company /\ session.site = form.site
    BY <1>1, <1>4, <1>9 DEF FormsCurrent
  <2>2. g.session = session /\ ActiveTenant(session) = form.company /\ ActiveSite(session) = form.site
    BY <1>1, <1>3, <1>9, <2>1, GateKeepsGood
  <2> QED BY <1>9, <2>2
<1> HIDE DEF company, at, accepted
<1>10. /\ new.opened = [company |-> form.company, site |-> form.site]
       /\ new.landed = [company |-> company, site |-> at] /\ new.loc = form.loc
       /\ new.kept => form.own /\ form.company \in Memberships /\ form.site \in SelectableSites(form.company)
       /\ ~ new.moved => (form.loc # NoLocation => place[form.loc] = form.at)
  OBVIOUS
<1> HIDE DEF new
<1>11. FormsLandWhereOpened'
  <2>1. CASE accepted
    <3>1. new.loc # NoLocation /\ ~ new.moved => new.landed = new.opened
      BY <1>8, <1>10, <2>1
    <3>2. calm /\ new.kept /\ ~ new.moved => new.landed = new.opened
      BY <1>8, <1>9, <1>10, <2>1
    <3> QED BY <1>2, <1>5, <2>1, <3>1, <3>2 DEF FormsLandWhereOpened
  <2>2. CASE ~ accepted
    BY <1>1, <1>2, <1>5, <2>2 DEF FormsLandWhereOpened
  <2> QED BY <2>1, <2>2
<1> QED BY <1>2, <1>6, <1>7, <1>11 DEF SessionsInv

(* Anything else in the browser starts when it does, whatever session it leaves. *)
LEMMA BrowserKeeps ==
  ASSUME SessionsInv, desk = "sessions", Start, UNCHANGED <<posted, req>>, IsContext(session)', desk' = desk
  PROVE  SessionsInv'
<1>1. RequestsOK' /\ (calm' => calm /\ AllIdle)
  BY RequestRuns DEF SessionsInv
<1> QED BY <1>1 DEF SessionsInv, FormsPlaced, FormPlaced, FormsCurrent, AllIdle, FormsLandWhereOpened

(* Administrators change what he may use, not his session or his forms. *)
LEMMA ChangeKeeps ==
  ASSUME SessionsInv, desk = "sessions", UNCHANGED <<session, posted, req, overlaps>>, desk' = desk
  PROVE  SessionsInv'
BY DEF SessionsInv, IsContext, RequestsOK, Alone, calm, FormsPlaced, FormPlaced, FormsCurrent,
       FormsLandWhereOpened

(* What a step does to the sessions. *)
LEMMA SessionStep ==
  [Next]_vars =>
    /\ desk' = desk
    /\ desk = "sessions" => NextSession \/ UNCHANGED <<sessions, req, overlaps>>
    /\ desk # "sessions" => UNCHANGED sessions
BY OneDesk, OtherTables DEF vars, sessions

(* Every step keeps the sessions in order. *)
LEMMA SessionsInductive == SessionsInv /\ [Next]_vars => SessionsInv'
<1> SUFFICES ASSUME SessionsInv, [Next]_vars PROVE SessionsInv'
  OBVIOUS
<1>1. desk' = desk
  BY SessionStep
<1>2. CASE desk # "sessions"
  BY <1>1, <1>2, SessionStep DEF SessionsInv, InitSessions, sessions, access
<1>3. CASE desk = "sessions" /\ UNCHANGED <<sessions, req, overlaps>>
  BY <1>1, <1>3, ChangeKeeps DEF sessions
<1>4. CASE desk = "sessions" /\ NextSession
  <2>0. IsContext(session)
    BY <1>4 DEF SessionsInv
  <2>1. ASSUME Browse PROVE SessionsInv'
    <3>1. IsContext(session)'
      BY <2>0, <2>1, GateGivesSite DEF Browse, IsContext
    <3> QED BY <1>1, <1>4, <2>1, <3>1, BrowserKeeps DEF Browse
  <2>2. ASSUME NEW c \in Clients, NEW l, OpenForm(c, l) PROVE SessionsInv'
    BY <1>1, <1>4, <2>2, OpenFormKeeps
  <2>3. ASSUME NEW c \in Clients, PostForm(c) PROVE SessionsInv'
    BY <1>1, <1>4, <2>3, PostFormKeeps
  <2>4. ASSUME NEW t, SelectCompany(t) PROVE SessionsInv'
    <3>1. IsContext(session)'
      BY <2>4 DEF SelectCompany, IsContext
    <3> QED BY <1>1, <1>4, <2>4, <3>1, BrowserKeeps DEF SelectCompany
  <2>5. ASSUME NEW s, SelectSite(s) PROVE SessionsInv'
    <3>1. IsContext(session)'
      BY <2>0, <2>5 DEF SelectSite, IsContext
    <3> QED BY <1>1, <1>4, <2>5, <3>1, BrowserKeeps DEF SelectSite
  <2>6. ASSUME NEW t, NEW s, SwitchWorkspace(t, s) PROVE SessionsInv'
    <3>1. IsContext(session)'
      BY <2>6 DEF SwitchWorkspace, IsContext
    <3> QED BY <1>1, <1>4, <2>6, <3>1, BrowserKeeps DEF SwitchWorkspace
  <2>7. ASSUME Logout PROVE SessionsInv'
    <3>1. IsContext(session)'
      BY <2>7 DEF Logout, NoContext, IsContext
    <3> QED BY <1>1, <1>4, <2>7, <3>1, BrowserKeeps DEF Logout
  <2>8. ASSUME Change PROVE SessionsInv'
    BY <1>1, <1>4, <2>8, ChangeKeeps DEF Change
  <2>9. CASE \/ \E t \in Tenants : \E ticks \in SUBSET {s \in WorkSites : OrgOf[s] = t} : Browser /\ GrantSites(t, ticks)
             \/ \E t \in Tenants : \E ticks \in SUBSET {l \in Locations : OrgOf[l] = t} : Browser /\ GrantLocations(t, ticks)
             \/ \E s \in WorkSites : Browser /\ EditSite(s)
             \/ \E s \in WorkSites : Browser /\ DeleteSite(s)
             \/ \E l \in Locations, s \in WorkSites : Browser /\ EditLocation(l, s)
             \/ \E t \in Tenants, role \in {"none", "staff", "admin"} : Browser /\ Join(t, role)
    <3>1. \A t, x : GrantSites(t, x) \/ GrantLocations(t, x) \/ EditSite(x) \/ DeleteSite(x)
                    \/ EditLocation(t, x) \/ Join(t, x) => Change
      BY DEF GrantSites, GrantLocations, EditSite, DeleteSite, EditLocation, Join
    <3>2. Change
      BY <2>9, <3>1
    <3> QED BY <2>8, <3>2
  <2> QED BY <1>4, <2>1, <2>2, <2>3, <2>4, <2>5, <2>6, <2>7, <2>9 DEF NextSession
<1> QED BY <1>2, <1>3, <1>4, SessionStep

(* A form creates its document in the company and at the site its user saw when he opened
   it, for every order of what his tabs and his administrators do (context_gate,
   get_active_tenant, get_active_site and the drop-down of active_location_ids). *)
THEOREM FormsLandInTheirContext == Spec => []FormsLandWhereOpened
<1>1. Init => SessionsInv
  <2> SUFFICES ASSUME Init PROVE SessionsInv
    OBVIOUS
  <2>1. InitSessions /\ RequestsOK /\ AllIdle
    BY RequestsBegin DEF Init
  <2>2. IsContext(session) /\ FormsPlaced /\ FormsCurrent /\ FormsLandWhereOpened
    BY <2>1 DEF InitSessions, NoContext, IsContext, FormsPlaced, FormsCurrent, FormsLandWhereOpened, AllIdle
  <2> QED BY <2>1, <2>2 DEF SessionsInv
<1>2. SessionsInv => FormsLandWhereOpened
  BY DEF SessionsInv, InitSessions, FormsLandWhereOpened
<1> QED BY <1>1, <1>2, SessionsInductive, PTL DEF Spec


-----------------------------------------------------------------------------
(* Repairs.  A correction makes up, in the ledger less the account, for the value that no
   journal accounts for: that is so when a run reads it and for good, since a sheet that
   is posted stays as it is. *)

GoodSheet(s) ==
  /\ sheets[s].day \in 1 .. today /\ sheets[s].booked \in BOOLEAN
  /\ sheets[s].utc \in Int /\ sheets[s].utc <= sheets[s].day
  /\ DOMAIN sheets[s].lines \subseteq CountLots
  /\ \A l \in DOMAIN sheets[s].lines :
       sheets[s].lines[l].qty \in Int /\ sheets[s].lines[l].value \in Int
  /\ sheets[s].journal = IF sheets[s].booked THEN NetOf(sheets[s].lines) ELSE 0
Corrects(m, r) ==
  /\ m \in CountMovements /\ r.reval \in Int /\ r.impact \in Int
  /\ r.moved \in Int /\ r.entered \in Int /\ sheets[m[1]].day <= r.moved
  /\ r.reval - r.impact = IF HasGl(m) THEN 0 ELSE - CountLine(m).value

RepairsTyped ==
  /\ today \in 1 .. LastCountDay /\ sheets = [s \in CountSheets |-> sheets[s]]
  /\ layerCost \in [CountLots \ {NoLot} -> LotCosts \cup {NoCost}]
  /\ \A s \in CountSheets : SheetPosted(s) => GoodSheet(s)
  /\ \A m \in DOMAIN fixes : Corrects(m, fixes[m])
RunsTyped ==
  /\ req = [c \in Clients |-> req[c]]
  /\ \A c \in Clients : req[c] # Idle => \A m \in DOMAIN req[c] : Corrects(m, req[c][m])
RepairsInv == RepairsTyped /\ (desk = "repairs" => RunsTyped)

(* What a step does to the counts. *)
LEMMA RepairStep ==
  [Next]_vars =>
    /\ desk' = desk
    /\ desk = "repairs" => NextRepairs \/ UNCHANGED <<sheets, layerCost, fixes, today, req>>
    /\ desk # "repairs" => UNCHANGED repairs
BY OneDesk, OtherTables DEF vars, repairs

(* The movements of posted sheets. *)
LEMMA MovementFacts ==
  ASSUME RepairsTyped, NEW m \in CountMovements
  PROVE  /\ m = <<m[1], m[2]>> /\ m[1] \in CountSheets /\ SheetPosted(m[1])
         /\ m[2] \in DOMAIN sheets[m[1]].lines /\ m[2] \in CountLots
         /\ CountLine(m).qty \in Int /\ CountLine(m).value \in Int
         /\ sheets[m[1]].day \in 1 .. today /\ HasGl(m) \in BOOLEAN
         /\ sheets[m[1]].utc \in Int /\ sheets[m[1]].utc <= sheets[m[1]].day
<1>1. PICK s \in CountSheets : m \in MovementsOf(s)
  BY DEF CountMovements
<1>2. SheetPosted(s) /\ m \in {s} \X DOMAIN sheets[s].lines
  BY <1>1 DEF MovementsOf
<1>3. m = <<m[1], m[2]>> /\ m[1] = s /\ m[2] \in DOMAIN sheets[s].lines
  BY <1>2
<1>4. GoodSheet(s)
  BY <1>2 DEF RepairsTyped
<1> QED BY <1>2, <1>3, <1>4 DEF GoodSheet, CountLine, HasGl

(* A posted sheet stays, and with it what was corrected. *)
LEMMA CorrectionsStand ==
  ASSUME RepairsTyped, \A s \in CountSheets : SheetPosted(s) => sheets'[s] = sheets[s],
         NEW m, NEW r, Corrects(m, r)
  PROVE  m \in CountMovements' /\ r.reval \in Int /\ r.impact \in Int
         /\ r.moved \in Int /\ r.entered \in Int
         /\ sheets'[m[1]] = sheets[m[1]] /\ sheets[m[1]].day <= r.moved
         /\ HasGl(m)' = HasGl(m) /\ CountLine(m)' = CountLine(m)
         /\ r.reval - r.impact = IF HasGl(m) THEN 0 ELSE - CountLine(m).value
<1>1. m \in CountMovements
  BY DEF Corrects
<1>2. m = <<m[1], m[2]>> /\ m[1] \in CountSheets /\ SheetPosted(m[1]) /\ m[2] \in DOMAIN sheets[m[1]].lines
  BY <1>1, MovementFacts
<1>3. sheets'[m[1]] = sheets[m[1]]
  BY <1>2
<1>4. SheetPosted(m[1])' /\ m \in {m[1]} \X DOMAIN sheets'[m[1]].lines
  BY <1>2, <1>3 DEF SheetPosted
<1>5. m \in MovementsOf(m[1])'
  BY <1>4 DEF MovementsOf
<1>6. m \in CountMovements'
  BY <1>2, <1>5 DEF CountMovements
<1> QED BY <1>3, <1>6 DEF Corrects, HasGl, CountLine

(* What a sheet posted now is like. *)
LEMMA NewSheet ==
  ASSUME NEW day \in Nat, NEW utc \in UtcDates(day), NEW lines, NEW n, n = NetOf(lines) \/ n = 0,
         NEW sh, sh = Sheet(day, utc, lines, n)
  PROVE  /\ sh.day = day /\ sh.lines = lines /\ sh.booked \in BOOLEAN
         /\ sh.utc \in Int /\ sh.utc <= sh.day
         /\ sh.journal = IF sh.booked THEN NetOf(lines) ELSE 0
         /\ day # 0 => sh # NotCounted
<1>1. sh = [day |-> day, utc |-> utc, lines |-> lines, booked |-> n # 0, journal |-> n]
  BY DEF Sheet
<1>2. sh.day = day /\ sh.utc = utc /\ sh.lines = lines /\ sh.booked = (n # 0) /\ sh.journal = n
  BY <1>1
<1>4. utc \in Int /\ utc <= day
  BY DEF UtcDates
<1>3. NotCounted.day = 0
  BY DEF NotCounted
<1> QED BY <1>2, <1>3, <1>4

(* What a count values is an amount. *)
LEMMA ValuedLines ==
  ASSUME NEW qty \in Counted, NEW cost \in [CountLots -> Int],
         NEW lines, lines = [l \in DOMAIN qty |-> [qty |-> qty[l], value |-> qty[l] * cost[l]]]
  PROVE  /\ DOMAIN lines \subseteq CountLots
         /\ \A l \in DOMAIN lines : lines[l].qty \in Int /\ lines[l].value \in Int
<1>1. PICK ls \in SUBSET CountLots : qty \in [ls -> {-1, 1}]
  BY DEF Counted
<1>2. DOMAIN lines = ls /\ ls \subseteq CountLots
  BY <1>1
<1>3. ASSUME NEW l \in ls
      PROVE  lines[l].qty \in Int /\ lines[l].value \in Int
  <2>1. qty[l] \in {-1, 1} /\ cost[l] \in Int
    BY <1>1
  <2>2. lines[l] = [qty |-> qty[l], value |-> qty[l] * cost[l]]
    BY <1>1
  <2>3. qty[l] * cost[l] \in Int
    BY <2>1
  <2> QED BY <2>1, <2>2, <2>3
<1> QED BY <1>2, <1>3

(* A count is posted: its sheet is new, and the others stay. *)
LEMMA PostSheetKeeps ==
  ASSUME RepairsTyped, RunsTyped, NEW s \in CountSheets, NEW qty \in Counted,
         NEW utc \in UtcDates(today), PostSheet(s, qty, utc)
  PROVE  RepairsTyped' /\ RunsTyped'
<1> DEFINE lines == [l \in DOMAIN qty |-> [qty |-> qty[l], value |-> qty[l] * UnitCostOf(l)]]
           sh == Sheet(today, utc, lines, NetOf(lines))
<1>1. ~ SheetPosted(s) /\ sheets' = [sheets EXCEPT ![s] = sh] /\ UNCHANGED <<layerCost, fixes, today, req>>
  BY DEF PostSheet
<1>2. today \in 1 .. LastCountDay /\ today \in Nat /\ today # 0
  BY DEF RepairsTyped, RepairsAssumption
<1>3. DOMAIN lines \subseteq CountLots
      /\ \A l \in DOMAIN lines : lines[l].qty \in Int /\ lines[l].value \in Int
  <2> DEFINE cost == [l \in CountLots |-> UnitCostOf(l)]
  <2>1. cost \in [CountLots -> Int]
    <3>1. \A l \in CountLots : UnitCostOf(l) \in Int
      BY RepairsAssumption DEF UnitCostOf, RepairsTyped
    <3> QED BY <3>1
  <2>2. PICK ls \in SUBSET CountLots : qty \in [ls -> {-1, 1}]
    BY DEF Counted
  <2>3. lines = [l \in DOMAIN qty |-> [qty |-> qty[l], value |-> qty[l] * cost[l]]]
    BY <2>2
  <2> HIDE DEF lines, cost
  <2> QED BY <2>1, <2>3, ValuedLines
<1> HIDE DEF lines
<1>4. /\ sh.day = today /\ sh.lines = lines /\ sh.booked \in BOOLEAN
      /\ sh.utc \in Int /\ sh.utc <= sh.day
      /\ sh.journal = IF sh.booked THEN NetOf(lines) ELSE 0
      /\ sh # NotCounted
  BY <1>2, NewSheet
<1> HIDE DEF sh
<1>5. sheets'[s] = sh /\ \A t \in CountSheets \ {s} : sheets'[t] = sheets[t]
  BY <1>1 DEF RepairsTyped
<1>6. \A t \in CountSheets : SheetPosted(t) => sheets'[t] = sheets[t]
  BY <1>1, <1>5
<1>7. ASSUME NEW m, NEW r, Corrects(m, r)
      PROVE  Corrects(m, r)'
  BY <1>6, <1>7, CorrectionsStand DEF Corrects
<1>8. ASSUME NEW t \in CountSheets, SheetPosted(t)'
      PROVE  GoodSheet(t)'
  <2>1. CASE t = s
    BY <1>1, <1>2, <1>3, <1>4, <1>5, <2>1 DEF GoodSheet
  <2>2. CASE t # s
    <3>1. sheets'[t] = sheets[t] /\ SheetPosted(t)
      BY <1>5, <1>8, <2>2 DEF SheetPosted
    <3>2. GoodSheet(t)
      BY <3>1 DEF RepairsTyped
    <3> QED BY <1>1, <3>1, <3>2 DEF GoodSheet
  <2> QED BY <2>1, <2>2
<1>9. sheets' = [t \in CountSheets |-> sheets'[t]]
  BY <1>1 DEF RepairsTyped
<1>10. RepairsTyped'
  BY <1>1, <1>7, <1>8, <1>9 DEF RepairsTyped
<1>11. RunsTyped'
  BY <1>1, <1>7 DEF RunsTyped
<1> QED BY <1>10, <1>11

(* A step that leaves the sheets as they are leaves the corrections right. *)
LEMMA SheetsStand ==
  ASSUME RepairsTyped, UNCHANGED sheets, today' \in 1 .. LastCountDay, today <= today',
         layerCost' \in [CountLots \ {NoLot} -> LotCosts \cup {NoCost}]
  PROVE  /\ \A m, r : Corrects(m, r) => Corrects(m, r)'
         /\ UNCHANGED fixes => RepairsTyped'
         /\ UNCHANGED req /\ RunsTyped => RunsTyped'
<1>1. ASSUME NEW m, NEW r, Corrects(m, r)
      PROVE  Corrects(m, r)'
  BY <1>1, CorrectionsStand DEF Corrects
<1>2. ASSUME NEW t \in CountSheets, SheetPosted(t)'
      PROVE  GoodSheet(t)'
  <2>1. GoodSheet(t) /\ sheets'[t] = sheets[t]
    BY <1>2 DEF RepairsTyped, SheetPosted
  <2>2. today \in Nat /\ today' \in Nat
    BY RepairsAssumption DEF RepairsTyped
  <2> QED BY <2>1, <2>2 DEF GoodSheet
<1>3. UNCHANGED fixes => RepairsTyped'
  BY <1>1, <1>2 DEF RepairsTyped
<1>4. UNCHANGED req /\ RunsTyped => RunsTyped'
  BY <1>1 DEF RunsTyped
<1> QED BY <1>1, <1>3, <1>4

(* A run reads what its corrections have to change. *)
LEMMA LoadRunKeeps ==
  ASSUME RepairsTyped, RunsTyped, NEW c \in Clients, NEW lock \in 0 .. LastCountDay,
         NEW posting \in 1 .. LastCountDay, NEW block \in BOOLEAN, LoadRun(c, lock, posting, block)
  PROVE  RepairsTyped' /\ RunsTyped'
<1> DEFINE rows == {m \in Drift : ~(block /\ InClosed(m, lock))}
           fix(m) == [reval |-> Reval(m), impact |-> GlImpact(m),
                      moved |-> RevalDay(m, lock), entered |-> EntryDay(m, lock, posting)]
           run == [m \in rows |-> fix(m)]
<1>1. req' = [req EXCEPT ![c] = run] /\ UNCHANGED <<sheets, layerCost, fixes, today>>
  BY DEF LoadRun, repairs
<1>2. ASSUME NEW m \in rows
      PROVE  Corrects(m, fix(m))
  <2>1. m \in CountMovements
    BY DEF Drift
  <2>2. /\ m[2] \in CountLots /\ CountLine(m).qty \in Int /\ CountLine(m).value \in Int
        /\ sheets[m[1]].day \in 1 .. today /\ HasGl(m) \in BOOLEAN /\ sheets[m[1]].utc \in Int
    BY <2>1, MovementFacts
  <2>3. UnitCostOf(m[2]) \in Int
    BY <2>2, RepairsAssumption DEF UnitCostOf, RepairsTyped
  <2>4. ExpectedValue(m) \in Int
    <3> DEFINE q == CountLine(m).qty  u == UnitCostOf(m[2])
    <3>1. q \in Int /\ u \in Int
      BY <2>2, <2>3
    <3> HIDE DEF q, u
    <3>2. q * u \in Int
      BY <3>1
    <3> QED BY <3>2 DEF q, u, ExpectedValue
  <2>5. RevalDay(m, lock) \in Int /\ EntryDay(m, lock, posting) \in Int
        /\ sheets[m[1]].day <= RevalDay(m, lock)
    BY <2>2, RepairsAssumption DEF EntryDay, RevalDay, RepairsTyped
  <2>6. Reval(m) \in Int /\ GlImpact(m) \in Int
        /\ Reval(m) - GlImpact(m) = IF HasGl(m) THEN 0 ELSE - CountLine(m).value
    <3> DEFINE x == ExpectedValue(m)  v == CountLine(m).value
    <3>1. x \in Int /\ v \in Int /\ Reval(m) = x - v /\ GlImpact(m) = x - (IF HasGl(m) THEN v ELSE 0)
      BY <2>2, <2>4 DEF Reval, GlImpact
    <3> HIDE DEF x
    <3> QED BY <2>2, <3>1
  <2> HIDE DEF fix
  <2>7. fix(m).reval = Reval(m) /\ fix(m).impact = GlImpact(m)
        /\ fix(m).moved = RevalDay(m, lock) /\ fix(m).entered = EntryDay(m, lock, posting)
    BY DEF fix
  <2> QED BY <2>1, <2>5, <2>6, <2>7 DEF Corrects
<1>3. DOMAIN run = rows /\ \A m \in rows : run[m] = fix(m)
  OBVIOUS
<1> HIDE DEF rows, fix, run
<1>4. \A m, r : Corrects(m, r) => Corrects(m, r)'
  BY <1>1, SheetsStand DEF RepairsTyped
<1>5. PICK r : r = run
  OBVIOUS
<1>6. /\ req' = [d \in Clients |-> req'[d]] /\ req'[c] = r
      /\ \A d \in Clients \ {c} : req'[d] = req[d]
      /\ \A m \in DOMAIN r : Corrects(m, r[m])'
  BY <1>1, <1>2, <1>3, <1>4, <1>5 DEF RunsTyped
<1>7. RunsTyped'
  BY <1>4, <1>6 DEF RunsTyped
<1>8. RepairsTyped'
  BY <1>1, SheetsStand DEF RepairsTyped
<1> QED BY <1>7, <1>8

(* Its corrections are committed, all or none. *)
LEMMA CommitRunKeeps ==
  ASSUME RepairsTyped, RunsTyped, NEW c \in Clients, CommitRun(c)
  PROVE  RepairsTyped' /\ RunsTyped'
<1>1. /\ req[c] # Idle /\ req' = [req EXCEPT ![c] = Idle] /\ UNCHANGED <<sheets, layerCost, today>>
      /\ \/ fixes' = fixes
         \/ fixes' = [m \in DOMAIN req[c] \cup DOMAIN fixes |->
                        IF m \in DOMAIN fixes THEN fixes[m] ELSE req[c][m]]
  BY DEF CommitRun
<1>2. \A m, r : Corrects(m, r) => Corrects(m, r)'
  BY <1>1, SheetsStand DEF RepairsTyped
<1>3. \A m \in DOMAIN fixes' : Corrects(m, fixes'[m])
  BY <1>1 DEF RepairsTyped, RunsTyped
<1>4. \A s \in CountSheets : SheetPosted(s)' => GoodSheet(s)'
  BY <1>1 DEF RepairsTyped, SheetPosted, GoodSheet
<1>5. RepairsTyped'
  BY <1>1, <1>2, <1>3, <1>4 DEF RepairsTyped
<1>6. req' = [d \in Clients |-> req'[d]] /\ \A d \in Clients : req'[d] # Idle => req'[d] = req[d]
  BY <1>1 DEF RunsTyped
<1>7. RunsTyped'
  BY <1>2, <1>6 DEF RunsTyped
<1> QED BY <1>5, <1>7

(* Every step of the repairs keeps the corrections right. *)
LEMMA RepairsInductive == RepairsInv /\ [Next]_vars => RepairsInv'
<1> SUFFICES ASSUME RepairsInv, [Next]_vars PROVE RepairsInv'
  OBVIOUS
<1>1. RepairsTyped /\ desk' = desk
  BY RepairStep DEF RepairsInv
<1>2. CASE desk # "repairs"
  <2>1. UNCHANGED <<sheets, layerCost, fixes, today>>
    BY <1>2, RepairStep DEF repairs
  <2>2. RepairsTyped'
    BY <1>1, <2>1, SheetsStand DEF RepairsTyped
  <2> QED BY <1>1, <1>2, <2>2 DEF RepairsInv
<1>3. CASE desk = "repairs"
  <2>1. RunsTyped /\ (NextRepairs \/ UNCHANGED <<sheets, layerCost, fixes, today, req>>)
    BY <1>3, RepairStep DEF RepairsInv
  <2> SUFFICES RepairsTyped' /\ RunsTyped'
    BY <1>1, <1>3 DEF RepairsInv
  <2>2. CASE UNCHANGED <<sheets, layerCost, fixes, today, req>>
    BY <1>1, <2>1, <2>2, SheetsStand DEF RepairsTyped
  <2>3. ASSUME NEW s \in CountSheets, NEW qty \in Counted, NEW utc \in UtcDates(today),
               PostSheet(s, qty, utc)
        PROVE  RepairsTyped' /\ RunsTyped'
    BY <1>1, <2>1, <2>3, PostSheetKeeps
  <2>4. ASSUME NEW l \in CountLots \ {NoLot}, NEW cost \in LotCosts \cup {NoCost}, Relayer(l, cost)
        PROVE  RepairsTyped' /\ RunsTyped'
    <3>1. layerCost' = [layerCost EXCEPT ![l] = cost] /\ UNCHANGED <<sheets, fixes, today, req>>
      BY <2>4 DEF Relayer
    <3>2. layerCost' \in [CountLots \ {NoLot} -> LotCosts \cup {NoCost}]
      BY <1>1, <3>1 DEF RepairsTyped
    <3> QED BY <1>1, <2>1, <3>1, <3>2, SheetsStand DEF RepairsTyped
  <2>5. ASSUME NextCountDay
        PROVE  RepairsTyped' /\ RunsTyped'
    <3>1. today < LastCountDay /\ today' = today + 1 /\ UNCHANGED <<sheets, layerCost, fixes, req>>
      BY <2>5 DEF NextCountDay
    <3>2. today' \in 1 .. LastCountDay /\ today <= today'
      BY <1>1, <3>1, RepairsAssumption DEF RepairsTyped
    <3> QED BY <1>1, <2>1, <3>1, <3>2, SheetsStand DEF RepairsTyped
  <2>6. ASSUME NEW c \in Clients, NEW lock \in 0 .. LastCountDay,
               NEW posting \in 1 .. LastCountDay, NEW block \in BOOLEAN,
               LoadRun(c, lock, posting, block)
        PROVE  RepairsTyped' /\ RunsTyped'
    BY <1>1, <2>1, <2>6, LoadRunKeeps
  <2>7. ASSUME NEW c \in Clients, CommitRun(c)
        PROVE  RepairsTyped' /\ RunsTyped'
    BY <1>1, <2>1, <2>7, CommitRunKeeps
  <2> QED BY <2>1, <2>2, <2>3, <2>4, <2>5, <2>6, <2>7 DEF NextRepairs
<1> QED BY <1>2, <1>3

(* Old counts are posted at the average, journalled or not. *)
LEMMA RepairsBegin == Init => RepairsInv
<1> SUFFICES ASSUME Init PROVE RepairsInv
  OBVIOUS
<1>1. req = [c \in Clients |-> Idle]
  BY DEF Init, InitRequests
<1>2. RunsTyped
  BY <1>1 DEF RunsTyped
<1>3. CASE NoRepairs
  <2>1. /\ \A s \in CountSheets : ~ SheetPosted(s)
        /\ layerCost \in [CountLots \ {NoLot} -> LotCosts \cup {NoCost}]
        /\ sheets = [s \in CountSheets |-> sheets[s]] /\ DOMAIN fixes = {} /\ today \in 1 .. LastCountDay
    BY <1>3, RepairsAssumption DEF NoRepairs, SheetPosted
  <2> QED BY <1>2, <2>1 DEF RepairsInv, RepairsTyped
<1>4. CASE InitRepairs
  <2> DEFINE old == CHOOSE s \in CountSheets : TRUE
             valued(q) == [l \in DOMAIN q |-> [qty |-> q[l], value |-> q[l] * FallbackCost]]
  <2>1. PICK sheet \in OldSheets :
          sheets = [s \in CountSheets |-> IF s = old THEN sheet ELSE NotCounted]
    BY <1>4 DEF InitRepairs
  <2>a. PICK qty \in Counted, utc \in UtcDates(1) :
          \/ sheet = Sheet(1, utc, valued(qty), 0)
          \/ sheet = Sheet(1, utc, valued(qty), NetOf(valued(qty)))
    BY DEF OldSheets
  <2>2. PICK lines, n : /\ lines = valued(qty)
                        /\ n = 0 \/ n = NetOf(lines)
                        /\ sheet = Sheet(1, utc, lines, n)
    BY <2>a
  <2>3. /\ sheet.day = 1 /\ sheet.lines = lines /\ sheet.booked \in BOOLEAN
        /\ sheet.utc \in Int /\ sheet.utc <= sheet.day
        /\ sheet.journal = IF sheet.booked THEN NetOf(lines) ELSE 0
    BY <2>2, NewSheet
  <2>4. DOMAIN lines \subseteq CountLots
        /\ \A l \in DOMAIN lines : lines[l].qty \in Int /\ lines[l].value \in Int
    <3> DEFINE cost == [l \in CountLots |-> FallbackCost]
    <3>1. cost \in [CountLots -> Int]
      BY RepairsAssumption
    <3>2. PICK ls \in SUBSET CountLots : qty \in [ls -> {-1, 1}]
      BY DEF Counted
    <3>3. lines = [l \in DOMAIN qty |-> [qty |-> qty[l], value |-> qty[l] * cost[l]]]
      BY <2>2, <3>2
    <3> HIDE DEF cost
    <3> QED BY <3>1, <3>3, ValuedLines
  <2>5. today = 1 /\ DOMAIN fixes = {} /\ layerCost \in [CountLots \ {NoLot} -> LotCosts \cup {NoCost}]
    BY <1>4 DEF InitRepairs
  <2>6. today \in 1 .. LastCountDay
    BY <2>5, RepairsAssumption
  <2>7. \A s \in CountSheets : SheetPosted(s) => GoodSheet(s)
    BY <2>1, <2>3, <2>4, <2>5 DEF SheetPosted, GoodSheet
  <2> QED BY <1>2, <2>1, <2>5, <2>6, <2>7 DEF RepairsInv, RepairsTyped
<1> QED BY <1>3, <1>4 DEF Init

(* The movements of some sheets, and what a journal accounts for of one. *)
MovementsIn(S) == {m \in CountMovements : m[1] \in S}
InJournal(m) == IF HasGl(m) THEN CountLine(m).value ELSE 0
(* The journals of some sheets add up to the values of the movements they account for. *)
LEMMA JournalsAreValues ==
  ASSUME RepairsTyped, NEW S \in SUBSET CountSheets, \A s \in S : SheetPosted(s)
  PROVE  SumFunction([s \in S |-> sheets[s].journal])
           = SumFunction([m \in MovementsIn(S) |-> InJournal(m)])
<1> DEFINE journal == [s \in S |-> sheets[s].journal]
           M == MovementsIn(S)
           key == [m \in M |-> m[1]]
           f == [m \in M |-> InJournal(m)]
<1>a. (\A m \in M : m \in CountMovements /\ m[1] \in S)
      /\ \A m \in CountMovements : m[1] \in S => m \in M
  BY DEF MovementsIn
<1> HIDE DEF M
<1>b. f \in [M -> Int] /\ \A m \in M : f[m] = IF HasGl(m) THEN CountLine(m).value ELSE 0
  BY <1>a, MovementFacts DEF InJournal
<1> HIDE DEF f
<1>1. IsFiniteSet(S) /\ IsFiniteSet(CountLots)
  BY RepairsAssumption, FS_Subset
<1>2. ASSUME NEW s \in S
      PROVE  /\ GoodSheet(s) /\ IsFiniteSet(MovementsOf(s)) /\ MovementsOf(s) \in SUBSET M
             /\ \A m \in M : m[1] = s <=> m \in MovementsOf(s)
             /\ MovementsOf(s) = {s} \X DOMAIN sheets[s].lines
  <2>1. GoodSheet(s)
    BY DEF RepairsTyped
  <2>2. IsFiniteSet(DOMAIN sheets[s].lines) /\ IsFiniteSet({s})
    BY <1>1, <2>1, FS_Subset, FS_Singleton DEF GoodSheet
  <2>3. MovementsOf(s) = {s} \X DOMAIN sheets[s].lines
    BY DEF MovementsOf
  <2>4. IsFiniteSet(MovementsOf(s))
    BY <2>2, <2>3, FS_Product
  <2>5. \A m \in M : m[1] = s <=> m \in MovementsOf(s)
    BY <1>a, <2>3, MovementFacts
  <2>6. MovementsOf(s) \in SUBSET M
    BY <1>a, <2>3 DEF CountMovements
  <2> QED BY <2>1, <2>3, <2>4, <2>5, <2>6
<1>3. IsFiniteSet(M)
  <2>1. M \subseteq S \X CountLots
    BY <1>a, MovementFacts
  <2>2. IsFiniteSet(S \X CountLots)
    BY <1>1, FS_Product
  <2> QED BY <2>1, <2>2, FS_Subset
<1>4. key \in [M -> S]
  BY <1>a
<1>5. ASSUME NEW s \in S
      PROVE  journal[s] \in Int /\ journal[s] = SumFunction([x \in {m \in M : key[m] = s} |-> f[x]])
  <2> DEFINE heap == {m \in M : key[m] = s}
             lines == sheets[s].lines
             L == DOMAIN lines
             g == [x \in heap |-> f[x]]
             h == [l \in L |-> IF sheets[s].booked THEN lines[l].value ELSE 0]
             lot == [m \in heap |-> m[2]]
             back == [l \in L |-> <<s, l>>]
  <2>a. MovementsOf(s) = {s} \X L
    BY <1>2
  <2>b. heap = MovementsOf(s)
    BY <1>2
  <2>1. heap = {s} \X L /\ IsFiniteSet(heap) /\ heap \in SUBSET M
    <3> HIDE DEF heap, L
    <3> QED BY <1>2, <2>a, <2>b
  <2>2. IsFiniteSet(L) /\ h \in [L -> Int]
    BY <1>1, <1>2, FS_Subset DEF GoodSheet
  <2>c. \A m \in heap : f[m] \in Int
    BY <1>b
  <2>3. g \in [heap -> Int] /\ lot \in [heap -> L] /\ back \in [L -> heap]
        /\ \A m \in heap : back[lot[m]] = m /\ m[1] = s /\ m[2] \in L
    <3> HIDE DEF heap, L
    <3> QED BY <2>1, <2>c
  <2>4. (\A m \in heap : g[m] = h[lot[m]]) /\ \A l \in L : lot[back[l]] = l
    <3>1. \A m \in heap : g[m] = f[m] /\ lot[m] = m[2] /\ m \in M
      BY <2>1
    <3>2. \A m \in heap : f[m] = h[m[2]]
      BY <1>b, <2>1, <2>3 DEF HasGl, CountLine
    <3>3. \A l \in L : lot[back[l]] = l
      <4> HIDE DEF heap, L
      <4> QED BY <2>3
    <3> QED BY <3>1, <3>2, <3>3
  <2>5. SumFunction(g) = SumFunction(h)
    <3> HIDE DEF heap, L, g, h, lot, back
    <3> QED BY <2>1, <2>2, <2>3, <2>4, SumRename
  <2>6. journal[s] = SumFunction(h) /\ SumFunction(h) \in Int
    <3>1. SumFunction(h) \in Int
      <4> HIDE DEF L, h
      <4> QED BY <2>2, SumInteger
    <3>2. CASE sheets[s].booked
      <4>1. h = [l \in L |-> lines[l].value]
        BY <3>2
      <4> QED BY <3>1, <3>2, <4>1, <1>2 DEF GoodSheet, NetOf
    <3>3. CASE ~ sheets[s].booked
      <4>1. \A l \in L : h[l] = 0
        BY <3>3
      <4>2. SumFunction(h) = 0
        <5> HIDE DEF L, h
        <5> QED BY <2>2, <4>1, SumZero
      <4> QED BY <3>1, <3>3, <4>2, <1>2 DEF GoodSheet
    <3> QED BY <1>2, <3>1, <3>2, <3>3 DEF GoodSheet
  <2> QED BY <2>5, <2>6
<1>6. journal \in [S -> Int] /\ \A s \in S : journal[s] = SumFunction([x \in {m \in M : key[m] = s} |-> f[x]])
  BY <1>5
<1> HIDE DEF journal, key
<1>7. SumFunction(f) = SumFunction(journal)
  <2>1. PICK k, h : k = key /\ h = journal
    OBVIOUS
  <2>2. k \in [M -> S] /\ h \in [S -> Int]
    BY <1>4, <1>6, <2>1
  <2>3. ASSUME NEW s \in S
        PROVE  h[s] = SumFunction([x \in {m \in M : k[m] = s} |-> f[x]])
    BY <1>6, <2>1
  <2>4. SumFunction(f) = SumFunction(h)
    BY <1>1, <1>3, <1>b, <2>2, <2>3, SumByKey
  <2> QED BY <2>1, <2>4
<1> QED BY <1>7 DEF journal, f, M

(* A sum is that over the indices in a set and that over the others. *)
ComesApart(f, A, B) ==
  SumFunction(f) = SumFunction([x \in A \cap B |-> f[x]]) + SumFunction([x \in A \ B |-> f[x]])

LEMMA SumInAndOut ==
  ASSUME NEW A, IsFiniteSet(A), NEW B, NEW f \in [A -> Int]
  PROVE  ComesApart(f, A, B)
<1> DEFINE P == A \cap B
           Q == A \ B
           g == [x \in P |-> f[x]]
           h == [x \in Q |-> f[x]]
<1>1. g \in [P -> Int] /\ h \in [Q -> Int] /\ (\A x \in P : g[x] = f[x]) /\ \A x \in Q : h[x] = f[x]
  OBVIOUS
<1>2. DisjointUnion(A, P, Q)
  BY DEF DisjointUnion
<1> HIDE DEF P, Q, g, h
<1>3. SumFunction(f) = SumFunction(g) + SumFunction(h)
  BY <1>1, <1>2, SumSplit
<1> QED BY <1>3 DEF g, h, P, Q, ComesApart

(* The counts up to a day are the movements of the sheets of that day, and the journals in
   the report are theirs and those dated before their counts. *)
LEMMA JournalsOfTheDay ==
  ASSUME RepairsTyped, NEW d \in Int
  PROVE  /\ Journalled(MovedBy(d)) \in Int /\ Journalled(BookedBy(d) \ MovedBy(d)) \in Int
         /\ Journalled(BookedBy(d)) = Journalled(MovedBy(d)) + Journalled(BookedBy(d) \ MovedBy(d))
<1> DEFINE S == MovedBy(d)
           B == BookedBy(d)
           C == B \cap S
           X == B \ S
           j(T) == [s \in T |-> sheets[s].journal]
           inB == [x \in C |-> j(B)[x]]
           outB == [x \in X |-> j(B)[x]]
<1>1. \A s \in S \cup B : s \in CountSheets /\ SheetPosted(s) /\ GoodSheet(s)
  BY DEF MovedBy, BookedBy, RepairsTyped
<1>2. \A s \in S : sheets[s].booked => s \in C
  <2>1. ASSUME NEW s \in S, sheets[s].booked
        PROVE  s \in C
    <3>1. sheets[s].day \in Int /\ sheets[s].utc \in Int /\ sheets[s].utc <= sheets[s].day
      BY <1>1, RepairsAssumption DEF GoodSheet, RepairsTyped
    <3>2. sheets[s].day <= d /\ s \in CountSheets /\ SheetPosted(s)
      BY DEF MovedBy
    <3>3. sheets[s].utc <= d
      <4> DEFINE x == sheets[s].utc  y == sheets[s].day
      <4>1. x \in Int /\ y \in Int /\ x <= y /\ y <= d
        BY <3>1, <3>2
      <4> HIDE DEF x, y
      <4>2. x <= d
        BY <4>1
      <4> QED BY <4>2 DEF x
    <3> QED BY <2>1, <3>2, <3>3 DEF BookedBy
  <2> QED BY <2>1
<1>3. IsFiniteSet(S) /\ IsFiniteSet(B) /\ IsFiniteSet(C) /\ IsFiniteSet(X)
  <2>1. S \subseteq CountSheets /\ B \subseteq CountSheets /\ C \subseteq CountSheets /\ X \subseteq CountSheets
    BY DEF MovedBy, BookedBy
  <2> HIDE DEF S, B, C, X
  <2> QED BY <2>1, RepairsAssumption, FS_Subset
<1>4. ASSUME NEW s \in S \cup B
      PROVE  sheets[s].journal \in Int /\ (~ sheets[s].booked => sheets[s].journal = 0)
  <2> DEFINE lines == sheets[s].lines
             f == [l \in DOMAIN lines |-> lines[l].value]
  <2>1. GoodSheet(s)
    BY <1>1
  <2>2. IsFiniteSet(DOMAIN lines) /\ f \in [DOMAIN lines -> Int]
    BY <2>1, RepairsAssumption, FS_Subset DEF GoodSheet
  <2>3. SumFunction(f) \in Int
    <3> DEFINE L == DOMAIN lines
    <3>1. IsFiniteSet(L) /\ f \in [L -> Int]
      BY <2>2
    <3> HIDE DEF L, f
    <3> QED BY <3>1, SumInteger
  <2>4. NetOf(lines) \in Int
    BY <2>3 DEF NetOf
  <2> QED BY <2>1, <2>4 DEF GoodSheet
<1> HIDE DEF S, B
<1>5. j(S) \in [S -> Int] /\ j(B) \in [B -> Int] /\ j(C) \in [C -> Int] /\ j(X) \in [X -> Int]
  BY <1>4
<1>6. SumFunction(j(B)) = SumFunction(j(C)) + SumFunction(j(X))
  <2>1. inB = j(C) /\ outB = j(X)
    OBVIOUS
  <2>2. PICK f : f = j(B)
    OBVIOUS
  <2>3. f \in [B -> Int]
    BY <1>5, <2>2
  <2>4. ComesApart(f, B, S)
    BY <1>3, <2>3, SumInAndOut
  <2> QED BY <2>1, <2>2, <2>4 DEF ComesApart
<1>7. SumFunction(j(C)) = SumFunction(j(S))
  <2>1. PICK f, h : f = j(C) /\ h = j(S)
    OBVIOUS
  <2>2. C \in SUBSET S /\ f \in [C -> Int] /\ h \in [S -> Int]
    BY <1>5, <2>1
  <2>3. \A x \in S : h[x] = IF x \in C THEN f[x] ELSE 0
    BY <1>2, <1>4, <2>1
  <2>4. SumFunction(f) = SumFunction(h)
    <3> HIDE DEF C
    <3> QED BY <1>3, <2>2, <2>3, SumSubset
  <2> QED BY <2>1, <2>4
<1>8. SumFunction(j(S)) \in Int /\ SumFunction(j(X)) \in Int
  <2>1. PICK f, h : f = j(S) /\ h = j(X)
    OBVIOUS
  <2>2. f \in [S -> Int] /\ h \in [X -> Int]
    BY <1>5, <2>1
  <2> HIDE DEF j, X
  <2>3. SumFunction(f) \in Int /\ SumFunction(h) \in Int
    BY <1>3, <2>2, SumInteger
  <2> QED BY <2>1, <2>3
<1> QED BY <1>6, <1>7, <1>8 DEF Journalled, S, B

(* What the corrections of a set change. *)
LEMMA FixSums ==
  ASSUME RepairsTyped, NEW F \in SUBSET DOMAIN fixes
  PROVE  /\ IsFiniteSet(F) /\ Revalued(F) \in Int /\ Entered(F) \in Int
         /\ \A m \in F : Corrects(m, fixes[m])
         /\ [m \in F |-> fixes[m].reval] \in [F -> Int]
         /\ [m \in F |-> fixes[m].impact] \in [F -> Int]
<1> DEFINE r == [m \in F |-> fixes[m].reval]
           i == [m \in F |-> fixes[m].impact]
<1>1. \A m \in F : Corrects(m, fixes[m])
  BY DEF RepairsTyped
<1>2. IsFiniteSet(F)
  <2>1. F \subseteq CountSheets \X CountLots
    BY <1>1, MovementFacts DEF Corrects
  <2>2. IsFiniteSet(CountSheets \X CountLots)
    BY RepairsAssumption, FS_Product
  <2> QED BY <2>1, <2>2, FS_Subset
<1>3. r \in [F -> Int] /\ i \in [F -> Int]
  BY <1>1 DEF Corrects
<1>4. SumFunction(r) \in Int /\ SumFunction(i) \in Int
  <2> HIDE DEF r, i
  <2> QED BY <1>2, <1>3, SumInteger
<1> QED BY <1>1, <1>2, <1>3, <1>4 DEF Revalued, Entered

(* The corrections of a set are those in another and those that are not. *)
LEMMA FixesInAndOut ==
  ASSUME RepairsTyped, NEW F \in SUBSET DOMAIN fixes, NEW G
  PROVE  /\ Revalued(F) = Revalued(F \cap G) + Revalued(F \ G)
         /\ Entered(F) = Entered(F \cap G) + Entered(F \ G)
<1>1. PICK r, i : r = [m \in F |-> fixes[m].reval] /\ i = [m \in F |-> fixes[m].impact]
  OBVIOUS
<1>2. IsFiniteSet(F) /\ r \in [F -> Int] /\ i \in [F -> Int]
  BY <1>1, FixSums
<1>3. ComesApart(r, F, G) /\ ComesApart(i, F, G)
  BY <1>2, SumInAndOut
<1>4. /\ [x \in F \cap G |-> r[x]] = [x \in F \cap G |-> fixes[x].reval]
      /\ [x \in F \ G |-> r[x]] = [x \in F \ G |-> fixes[x].reval]
      /\ [x \in F \cap G |-> i[x]] = [x \in F \cap G |-> fixes[x].impact]
      /\ [x \in F \ G |-> i[x]] = [x \in F \ G |-> fixes[x].impact]
  BY <1>1
<1> QED BY <1>1, <1>3, <1>4 DEF Revalued, Entered, ComesApart

(* Each movement up to the day is accounted for by a journal, by a correction with both
   its halves in the report, or by neither; the last are the variance, with the halves
   that stand alone. *)
LEMMA UnaccountedIsVariance ==
  ASSUME RepairsTyped, NEW d \in Int
  PROVE  Variance(d) = ValueOf(Unaccounted(d)) + OneSided(d)
<1> DEFINE S == MovedBy(d)
           R == RevaluedBy(d)
           E == EnteredBy(d)
           M == UNION {MovementsOf(s) : s \in S}
           F == R \cap E
           U == Unaccounted(d)
           val(m) == CountLine(m).value
           moved == [m \in M |-> val(m)]
           journalled == [m \in M |-> IF HasGl(m) THEN val(m) ELSE 0]
           caught == [m \in M |-> IF m \in F /\ ~ HasGl(m) THEN val(m) ELSE 0]
           left == [m \in M |-> IF m \in U THEN val(m) ELSE 0]
           drifted == [m \in F |-> IF HasGl(m) THEN 0 ELSE val(m)]
           unposted == [m \in U |-> val(m)]
           revals == [m \in F |-> fixes[m].reval]
           impacts == [m \in F |-> fixes[m].impact]
<1>1. ASSUME NEW m \in CountMovements
      PROVE  /\ m[1] \in CountSheets /\ SheetPosted(m[1]) /\ val(m) \in Int
             /\ sheets[m[1]].day \in Nat /\ HasGl(m) \in BOOLEAN
             /\ m[2] \in CountLots /\ m = <<m[1], m[2]>> /\ m \in MovementsOf(m[1])
  BY MovementFacts, RepairsAssumption DEF RepairsTyped, MovementsOf
<1>2. /\ S \in SUBSET CountSheets /\ (\A s \in S : SheetPosted(s))
      /\ M = {m \in CountMovements : m[1] \in S}
      /\ \A m \in M : m \in CountMovements
      /\ \A m \in CountMovements : m \in M <=> m[1] \in S
      /\ \A m \in CountMovements : m \in M <=> sheets[m[1]].day <= d
  <2>1. S \in SUBSET CountSheets /\ \A s \in CountSheets : s \in S <=> SheetPosted(s) /\ sheets[s].day <= d
    BY DEF MovedBy
  <2>2. \A s \in S : MovementsOf(s) \subseteq CountMovements /\ \A m \in MovementsOf(s) : m[1] = s
    BY <2>1 DEF CountMovements, MovementsOf
  <2>3. \A m \in CountMovements : m \in M <=> m[1] \in S
    <3> HIDE DEF S
    <3> QED BY <1>1, <2>2
  <2>4. \A m \in M : m \in CountMovements
    <3> HIDE DEF S
    <3> QED BY <2>2
  <2>5. M = {m \in CountMovements : m[1] \in S}
    <3> HIDE DEF S, M
    <3> QED BY <2>3, <2>4
  <2> HIDE DEF S, M
  <2> QED BY <1>1, <2>1, <2>3, <2>4, <2>5
<1>a. R \in SUBSET DOMAIN fixes /\ E \in SUBSET DOMAIN fixes /\ F \in SUBSET DOMAIN fixes
      /\ R \ E \in SUBSET DOMAIN fixes /\ E \ R \in SUBSET DOMAIN fixes
  BY DEF RevaluedBy, EnteredBy
<1>b. \A m \in U : m \in CountMovements /\ m[1] \in S /\ ~ HasGl(m) /\ m \notin F
  BY DEF Unaccounted
<1>c. \A m \in CountMovements : m[1] \in S /\ ~ HasGl(m) /\ m \notin F => m \in U
  BY DEF Unaccounted
<1>3. /\ F \in SUBSET M /\ U \in SUBSET M
      /\ \A m \in F : /\ fixes[m].reval \in Int /\ fixes[m].impact \in Int
                      /\ fixes[m].reval - fixes[m].impact = IF HasGl(m) THEN 0 ELSE - val(m)
  <2>1. ASSUME NEW m \in F
        PROVE  Corrects(m, fixes[m]) /\ fixes[m].moved <= d
    BY <1>a, FixSums DEF RevaluedBy
  <2>2. ASSUME NEW m \in F
        PROVE  m \in M
    <3>1. m \in CountMovements /\ sheets[m[1]].day <= fixes[m].moved /\ fixes[m].moved \in Int
      BY <2>1 DEF Corrects
    <3>2. sheets[m[1]].day <= d
      <4> DEFINE x == sheets[m[1]].day  y == fixes[m].moved
      <4>1. x \in Nat /\ y \in Int /\ d \in Int /\ x <= y /\ y <= d
        BY <1>1, <2>1, <3>1, RepairsAssumption
      <4> HIDE DEF x, y
      <4>2. x <= d
        BY <4>1
      <4> QED BY <4>2 DEF x
    <3> HIDE DEF M
    <3> QED BY <1>2, <3>1, <3>2
  <2>3. U \in SUBSET M
    <3> HIDE DEF M, F, U, S
    <3> QED BY <1>2, <1>b
  <2> HIDE DEF M
  <2> QED BY <2>1, <2>2, <2>3 DEF Corrects
<1>4. IsFiniteSet(M) /\ IsFiniteSet(F) /\ IsFiniteSet(U)
  <2>1. IsFiniteSet(CountSheets \X CountLots)
    BY RepairsAssumption, FS_Product
  <2>2. M \subseteq CountSheets \X CountLots
    <3> HIDE DEF M
    <3> QED BY <1>1, <1>2
  <2> HIDE DEF M, F, U
  <2> QED BY <1>3, <2>1, <2>2, FS_Subset
<1>d. /\ Revalued(R) = Revalued(F) + Revalued(R \ E) /\ Entered(E) = Entered(F) + Entered(E \ R)
      /\ Revalued(F) \in Int /\ Entered(F) \in Int /\ Revalued(R \ E) \in Int /\ Entered(E \ R) \in Int
  <2>1. E \cap R = R \cap E
    OBVIOUS
  <2> HIDE DEF R, E
  <2> QED BY <1>a, <2>1, FixesInAndOut, FixSums
<1> HIDE DEF S, R, E, M, F, U
<1>5. /\ moved \in [M -> Int] /\ journalled \in [M -> Int] /\ caught \in [M -> Int] /\ left \in [M -> Int]
      /\ drifted \in [F -> Int] /\ unposted \in [U -> Int] /\ revals \in [F -> Int] /\ impacts \in [F -> Int]
  <2> HIDE DEF val
  <2> QED BY <1>1, <1>2, <1>3
<1>6. \A m \in M : moved[m] = journalled[m] + (caught[m] + left[m])
  <2>1. \A m \in M : m \in U <=> m \notin F /\ ~ HasGl(m)
    BY <1>2, <1>b, <1>c
  <2> HIDE DEF val
  <2> QED BY <1>1, <1>2, <2>1
<1>7. SumFunction(moved) = SumFunction(journalled) + (SumFunction(caught) + SumFunction(left))
  <2> DEFINE rest == [m \in M |-> caught[m] + left[m]]
  <2>1. rest \in [M -> Int] /\ (\A m \in M : rest[m] = caught[m] + left[m])
        /\ \A m \in M : moved[m] = journalled[m] + rest[m]
    <3> HIDE DEF moved, journalled, caught, left
    <3> QED BY <1>5, <1>6
  <2> HIDE DEF rest, moved, journalled, caught, left
  <2>2. SumFunction(rest) = SumFunction(caught) + SumFunction(left)
    BY <1>4, <1>5, <2>1, SumPlus
  <2>3. SumFunction(moved) = SumFunction(journalled) + SumFunction(rest)
    BY <1>4, <1>5, <2>1, SumPlus
  <2> QED BY <2>2, <2>3
<1>8. SumFunction(unposted) = SumFunction(left) /\ SumFunction(drifted) = SumFunction(caught)
  <2>1. (\A m \in M : left[m] = IF m \in U THEN unposted[m] ELSE 0)
        /\ \A m \in M : caught[m] = IF m \in F THEN drifted[m] ELSE 0
    <3> HIDE DEF val
    <3> QED BY <1>1, <1>2
  <2> HIDE DEF unposted, left, drifted, caught
  <2>a. U \in SUBSET M /\ F \in SUBSET M
    BY <1>3
  <2>b. unposted \in [U -> Int] /\ left \in [M -> Int] /\ drifted \in [F -> Int] /\ caught \in [M -> Int]
    BY <1>5
  <2>2. SumFunction(unposted) = SumFunction(left)
    BY <1>4, <2>a, <2>b, <2>1, SumSubset
  <2>3. SumFunction(drifted) = SumFunction(caught)
    BY <1>4, <2>a, <2>b, <2>1, SumSubset
  <2> QED BY <2>2, <2>3
<1>9. SumFunction(impacts) = SumFunction(revals) + SumFunction(drifted)
  <2>1. \A m \in F : impacts[m] = revals[m] + drifted[m]
    <3>1. ASSUME NEW m \in F
          PROVE  impacts[m] = revals[m] + drifted[m]
      <4> DEFINE a == fixes[m].reval  b == fixes[m].impact  v == val(m)
      <4>1. a \in Int /\ b \in Int /\ v \in Int /\ a - b = IF HasGl(m) THEN 0 ELSE - v
        BY <1>1, <1>2, <1>3
      <4>2. impacts[m] = b /\ revals[m] = a /\ drifted[m] = IF HasGl(m) THEN 0 ELSE v
        OBVIOUS
      <4> HIDE DEF a, b, v, impacts, revals, drifted
      <4> QED BY <4>1, <4>2
    <3> QED BY <3>1
  <2> HIDE DEF impacts, revals, drifted
  <2> QED BY <1>4, <1>5, <2>1, SumPlus
<1>10. Journalled(S) = SumFunction(journalled)
  <2>1. M = MovementsIn(S)
    BY <1>2 DEF MovementsIn
  <2>2. journalled = [m \in MovementsIn(S) |-> InJournal(m)]
    BY <2>1 DEF InJournal
  <2>4. SumFunction([s \in S |-> sheets[s].journal])
          = SumFunction([m \in MovementsIn(S) |-> InJournal(m)])
    BY <1>2, JournalsAreValues
  <2> HIDE DEF journalled
  <2> QED BY <2>2, <2>4 DEF Journalled
<1>11. Variance(d) = (SumFunction(moved) + Revalued(R)) - (Journalled(BookedBy(d)) + Entered(E))
  BY DEF Variance, ClosingSubledger, ClosingGl, ValueOf, S, R, E, M
<1>12. ValueOf(U) = SumFunction(unposted)
  BY DEF ValueOf
<1>e. Revalued(F) = SumFunction(revals) /\ Entered(F) = SumFunction(impacts)
  BY DEF Revalued, Entered
<1>f. /\ Journalled(S) \in Int /\ Journalled(BookedBy(d) \ S) \in Int
      /\ Journalled(BookedBy(d)) = Journalled(S) + Journalled(BookedBy(d) \ S)
  BY JournalsOfTheDay DEF S
<1>g. OneSided(d) = Revalued(R \ E) - Entered(E \ R) - Journalled(BookedBy(d) \ S)
  BY DEF OneSided, R, E, S
<1> HIDE DEF moved, journalled, caught, left, drifted, unposted, revals, impacts
<1>13. /\ SumFunction(moved) \in Int /\ SumFunction(journalled) \in Int /\ SumFunction(caught) \in Int
       /\ SumFunction(left) \in Int /\ SumFunction(revals) \in Int /\ SumFunction(impacts) \in Int
  BY <1>4, <1>5, SumInteger
<1>14. Variance(d) = ValueOf(U) + OneSided(d)
  <2>1. PICK ro, eo, jo, rf, ef : /\ ro = Revalued(R \ E) /\ eo = Entered(E \ R)
                                  /\ jo = Journalled(BookedBy(d) \ S)
                                  /\ rf = Revalued(F) /\ ef = Entered(F)
    OBVIOUS
  <2>2. ro \in Int /\ eo \in Int /\ jo \in Int /\ rf \in Int /\ ef \in Int
    BY <1>d, <1>f, <2>1
  <2>3. Variance(d) = (SumFunction(moved) + (rf + ro)) - ((Journalled(S) + jo) + (ef + eo))
    BY <1>11, <1>d, <1>f, <2>1
  <2>4. ef = rf + SumFunction(caught) /\ Journalled(S) = SumFunction(journalled)
    BY <1>8, <1>9, <1>10, <1>e, <2>1
  <2>5. Variance(d) = SumFunction(left) + (ro - eo - jo)
    BY <1>7, <1>13, <2>2, <2>3, <2>4
  <2> QED BY <1>8, <1>12, <1>g, <2>1, <2>5
<1> QED BY <1>14 DEF U

(* On any day the stock ledger and the control account of counts differ by what neither a
   journal nor a correction has caught up, and by the halves of counts and corrections that
   are dated on the other side of that day, whatever runs raced and whatever dates they were
   given (find_drift, apply_corrections, inventory_gl_reconciliation). *)
THEOREM RepairsCatchUp == Spec => []CatchUpReconciles
<1>1. RepairsInv => CatchUpReconciles
  BY UnaccountedIsVariance, RepairsAssumption DEF RepairsInv, CatchUpReconciles
<1> QED BY <1>1, RepairsBegin, RepairsInductive, PTL DEF Spec

-----------------------------------------------------------------------------
(***************************************************************************)
(* Books: every entry balances, so every set of cells does, and a report   *)
(* of a longer period is the sum of two reports of its parts.  For the     *)
(* group, BooksInv ties the ledger to its documents: whatever companies    *)
(* are taken together, their sales account has what they invoiced less     *)
(* what they wrote back, and their expenses what they were invoiced.  The  *)
(* trade inside the scope is in both, and is what the elimination takes.   *)
(***************************************************************************)
(* The cells of the ledger are finitely many. *)
LEMMA CellsFinite ==
  IsFiniteSet(Cells) /\ \A cells \in SUBSET Cells : IsFiniteSet(cells)
<1> DEFINE P == (Companies \X (1 .. LastEntryDay)) \X Sites
           to == [p \in P |-> <<p[1][1], p[1][2], p[2]>>]
<1>1. IsFiniteSet(1 .. LastEntryDay)
  BY FS_Interval, BooksAssumption
<1>2. IsFiniteSet(Companies \X (1 .. LastEntryDay))
  BY <1>1, FS_Product, BooksAssumption
<1>3. IsFiniteSet(P)
  BY <1>2, FS_Product, BooksAssumption
<1>4. to \in [P -> Cells]
  BY DEF Cells
<1>5. \A c \in Cells : <<<<c[1], c[2]>>, c[3]>> \in P /\ to[<<<<c[1], c[2]>>, c[3]>>] = c
  BY DEF Cells
<1>6. to \in Surjection(P, Cells)
  <2> HIDE DEF to, P
  <2> QED BY <1>4, <1>5 DEF Surjection
<1>7. IsFiniteSet(Cells)
  <2> HIDE DEF to, P
  <2> QED BY <1>3, <1>6, FS_Surjection
<1> QED BY <1>7, FS_Subset

(* There are eight accounts, of six types. *)
LEMMA AccountsTyped ==
  /\ IsFiniteSet(Accounts)
  /\ \A a \in Accounts : AccountType[a] \in {"ASSET", "LIABILITY", "EQUITY", "INCOME", "COGS", "EXPENSE"}
  /\ \A a \in Accounts : AccountType[a] = "INCOME" <=> a = "sales"
  /\ \A a \in Accounts : AccountType[a] = "EXPENSE" <=> a = "expense"
  /\ AccountType["bank"] = "ASSET" /\ AccountType["sales"] = "INCOME" /\ AccountType["expense"] = "EXPENSE"
  /\ {"bank", "ar", "inventory", "ap", "capital", "sales", "cogs", "expense"} \subseteq Accounts
<1>1. Accounts = {"bank", "ar", "inventory", "ap", "capital", "sales", "cogs", "expense"}
  BY DEF Accounts, AccountType
<1>2. IsFiniteSet(Accounts)
  <2> DEFINE s1 == {"bank"}  s2 == s1 \cup {"ar"}  s3 == s2 \cup {"inventory"}  s4 == s3 \cup {"ap"}
             s5 == s4 \cup {"capital"}  s6 == s5 \cup {"sales"}  s7 == s6 \cup {"cogs"}
             s8 == s7 \cup {"expense"}
  <2>1. IsFiniteSet(s1)
    BY FS_Singleton
  <2>2. IsFiniteSet(s4)
    <3> HIDE DEF s1
    <3> QED BY <2>1, FS_AddElement
  <2>3. IsFiniteSet(s8)
    <3> HIDE DEF s4
    <3> QED BY <2>2, FS_AddElement
  <2> QED BY <1>1, <2>3
<1> QED BY <1>1, <1>2 DEF AccountType

-----------------------------------------------------------------------------
(* What the cells of a book have in an account. *)
LedgerOf(b, cells, a) == SumFunction([c \in cells |-> b[c][a]])

(* A ledger: numbers for each account, that balance in every cell. *)
Ledger(b) ==
  /\ b \in [Cells -> [Accounts -> Int]]
  /\ \A c \in Cells : SumFunction(b[c]) = 0

Entry(lines) == lines \in [Accounts -> Int] /\ SumFunction(lines) = 0

(* A journal of two lines balances. *)
LEMMA Lines2Balance ==
  ASSUME NEW dr \in Accounts, NEW cr \in Accounts, dr # cr
  PROVE  /\ Entry(Lines2(dr, cr))
         /\ \A a \in Accounts : Lines2(dr, cr)[a] = IF a = dr THEN 1 ELSE IF a = cr THEN -1 ELSE 0
<1> DEFINE lines == Lines2(dr, cr)
           debit == [a \in Accounts |-> IF a = dr THEN 1 ELSE 0]
           credit == [a \in Accounts |-> IF a = cr THEN -1 ELSE 0]
<1>1. \A a \in Accounts : lines[a] = IF a = dr THEN 1 ELSE IF a = cr THEN -1 ELSE 0
  BY DEF Lines2
<1>2. lines \in [Accounts -> Int] /\ debit \in [Accounts -> Int] /\ credit \in [Accounts -> Int]
  BY DEF Lines2
<1>3. \A a \in Accounts : lines[a] = debit[a] + credit[a]
  BY <1>1
<1>4. debit[dr] = 1 /\ \A a \in Accounts \ {dr} : debit[a] = 0
  OBVIOUS
<1>5. credit[cr] = -1 /\ \A a \in Accounts \ {cr} : credit[a] = 0
  OBVIOUS
<1>6. IsFiniteSet(Accounts)
  BY AccountsTyped
<1> HIDE DEF lines, debit, credit
<1>7. SumFunction(debit) = 1
  BY <1>2, <1>4, <1>6, SumPoint
<1>8. SumFunction(credit) = -1
  BY <1>2, <1>5, <1>6, SumPoint
<1>9. SumFunction(lines) = SumFunction(debit) + SumFunction(credit)
  BY <1>2, <1>3, <1>6, SumPlus
<1> QED BY <1>1, <1>2, <1>7, <1>8, <1>9 DEF Entry, lines

(* Posting an entry leaves a ledger, and adds its lines to what the cell is part of. *)
LEMMA BookedKeeps ==
  ASSUME NEW b, Ledger(b), NEW cell \in Cells, NEW lines, Entry(lines)
  PROVE  /\ Ledger(Booked(b, cell, lines))
         /\ \A cells \in SUBSET Cells, a \in Accounts :
              LedgerOf(Booked(b, cell, lines), cells, a)
                = LedgerOf(b, cells, a) + IF cell \in cells THEN lines[a] ELSE 0
<1> DEFINE n == Booked(b, cell, lines)
           row == [a \in Accounts |-> b[cell][a] + lines[a]]
<1>1. b \in [Cells -> [Accounts -> Int]] /\ lines \in [Accounts -> Int]
  BY DEF Ledger, Entry
<1>2. row \in [Accounts -> Int] /\ \A a \in Accounts : row[a] = b[cell][a] + lines[a]
  BY <1>1
<1>3. n = [b EXCEPT ![cell] = row]
  BY <1>1 DEF Booked
<1> HIDE DEF n, row
<1>4. n \in [Cells -> [Accounts -> Int]] /\ n[cell] = row /\ \A c \in Cells : c # cell => n[c] = b[c]
  BY <1>1, <1>2, <1>3
<1>5. SumFunction(row) = 0
  <2>1. SumFunction(b[cell]) = 0 /\ SumFunction(lines) = 0 /\ b[cell] \in [Accounts -> Int]
    BY DEF Ledger, Entry
  <2>2. PICK f : f = b[cell]
    OBVIOUS
  <2>3. f \in [Accounts -> Int] /\ \A a \in Accounts : row[a] = f[a] + lines[a]
    BY <1>2, <2>1, <2>2
  <2>4. SumFunction(row) = SumFunction(f) + SumFunction(lines)
    BY <1>1, <1>2, <2>3, AccountsTyped, SumPlus
  <2> QED BY <2>1, <2>2, <2>4
<1>6. Ledger(n)
  BY <1>4, <1>5 DEF Ledger
<1>7. ASSUME NEW cells \in SUBSET Cells, NEW a \in Accounts
      PROVE  LedgerOf(n, cells, a) = LedgerOf(b, cells, a) + IF cell \in cells THEN lines[a] ELSE 0
  <2> DEFINE old == [c \in cells |-> b[c][a]]
             new == [c \in cells |-> n[c][a]]
  <2>1. IsFiniteSet(cells)
    BY CellsFinite
  <2>2. old \in [cells -> Int] /\ new \in [cells -> Int]
    BY <1>1, <1>4
  <2>3. \A c \in cells : c # cell => new[c] = old[c]
    BY <1>4
  <2>4. cell \in cells => new[cell] = old[cell] + lines[a]
    BY <1>2, <1>4
  <2>5. LedgerOf(n, cells, a) = SumFunction(new) /\ LedgerOf(b, cells, a) = SumFunction(old)
    BY DEF LedgerOf
  <2>6. lines[a] \in Int
    BY <1>1
  <2> HIDE DEF old, new
  <2>7. SumFunction(old) \in Int
    BY <2>1, <2>2, SumInteger
  <2>8. CASE cell \in cells
    <3>1. \A c \in cells \ {cell} : new[c] = old[c]
      BY <2>3
    <3>2. SumFunction(new) = SumFunction(old) + new[cell] - old[cell]
      BY <2>1, <2>2, <2>8, <3>1, SumUpdate
    <3>3. new[cell] \in Int /\ old[cell] \in Int
      BY <2>2, <2>8
    <3> QED BY <2>4, <2>5, <2>6, <2>7, <2>8, <3>2, <3>3
  <2>9. CASE cell \notin cells
    <3>1. new = old
      BY <2>2, <2>3, <2>9
    <3> QED BY <2>5, <2>7, <2>9, <3>1
  <2> QED BY <2>8, <2>9
<1> QED BY <1>6, <1>7 DEF n

(* The nets of all accounts of a book of entries add up to nothing. *)
LEMMA NetsBalance ==
  ASSUME Ledger(book), NEW cells \in SUBSET Cells
  PROVE  /\ \A a \in Accounts : LedgerOf(book, cells, a) \in Int
         /\ SumFunction([a \in Accounts |-> LedgerOf(book, cells, a)]) = 0
<1> DEFINE F == [p \in cells \X Accounts |-> book[p[1]][p[2]]]
           G == [p \in Accounts \X cells |-> book[p[2]][p[1]]]
           rows == [c \in cells |-> SumFunction(book[c])]
           cols == [a \in Accounts |-> LedgerOf(book, cells, a)]
<1>1. IsFiniteSet(cells) /\ IsFiniteSet(Accounts)
  BY CellsFinite, AccountsTyped
<1>2. book \in [Cells -> [Accounts -> Int]] /\ \A c \in cells : SumFunction(book[c]) = 0
  BY DEF Ledger
<1>3. ASSUME NEW a \in Accounts PROVE LedgerOf(book, cells, a) \in Int
  <2> DEFINE f == [c \in cells |-> book[c][a]]
  <2>1. f \in [cells -> Int]
    BY <1>2
  <2> HIDE DEF f
  <2>2. SumFunction(f) \in Int
    BY <1>1, <2>1, SumInteger
  <2> QED BY <2>2 DEF LedgerOf, f
<1>4. RowSums(cells, Accounts, F, rows)
  <2>1. F \in [cells \X Accounts -> Int]
    BY <1>2
  <2>2. rows \in [cells -> Int]
    BY <1>2
  <2>3. ASSUME NEW c \in cells PROVE rows[c] = SumFunction([a \in Accounts |-> F[<<c, a>>]])
    <3>1. [a \in Accounts |-> F[<<c, a>>]] = book[c]
      BY <1>2
    <3> QED BY <3>1
  <2> HIDE DEF F, rows
  <2> QED BY <1>1, <2>1, <2>2, <2>3 DEF RowSums
<1>5. RowSums(Accounts, cells, G, cols)
  <2>1. G \in [Accounts \X cells -> Int]
    BY <1>2
  <2>2. cols \in [Accounts -> Int]
    BY <1>3
  <2>3. ASSUME NEW a \in Accounts PROVE cols[a] = SumFunction([c \in cells |-> G[<<a, c>>]])
    <3>1. [c \in cells |-> G[<<a, c>>]] = [c \in cells |-> book[c][a]]
      OBVIOUS
    <3> QED BY <3>1 DEF LedgerOf
  <2> HIDE DEF G, cols
  <2> QED BY <1>1, <2>1, <2>2, <2>3 DEF RowSums
<1>6. \A c \in cells, a \in Accounts : G[<<a, c>>] = F[<<c, a>>]
  OBVIOUS
<1>7. rows \in [cells -> Int] /\ \A c \in cells : rows[c] = 0
  BY <1>2
<1> HIDE DEF F, G, rows, cols
<1>8. SumFunction(rows) = SumFunction(cols)
  BY <1>4, <1>5, <1>6, SumSwap
<1>9. SumFunction(rows) = 0
  BY <1>1, <1>7, SumZero
<1> QED BY <1>3, <1>8, <1>9 DEF cols

(* The balance of an account is its net, by its natural side. *)
LEMMA BalanceIsNet ==
  ASSUME Ledger(book), NEW cells \in SUBSET Cells, NEW a \in Accounts
  PROVE  /\ Balance(cells, a) \in Int
         /\ Balance(cells, a) = IF AccountType[a] \in DebitNormal THEN LedgerOf(book, cells, a)
                                ELSE - LedgerOf(book, cells, a)
<1>1. LedgerOf(book, cells, a) \in Int
  BY NetsBalance
<1>2. Balance(cells, a) = IF AccountType[a] \in DebitNormal THEN LedgerOf(book, cells, a)
                                ELSE - LedgerOf(book, cells, a)
  BY DEF Balance, LedgerOf
<1> QED BY <1>1, <1>2

(* What a side of the trial balance shows. *)
LEMMA ShownIs ==
  ASSUME NEW n \in Int
  PROVE  Shown(n) = IF n >= 0 THEN n ELSE 0
<1> DEFINE S == {n, 0}
           top == IF n >= 0 THEN n ELSE 0
<1>1. top \in S /\ \A y \in S : top >= y
  OBVIOUS
<1>2. \A x \in S : (\A y \in S : x >= y) => x = top
  OBVIOUS
<1>3. Shown(n) = CHOOSE x \in S : \A y \in S : x >= y
  BY DEF Shown, Max
<1> QED BY <1>1, <1>2, <1>3

(* The trial balance balances. *)
LEMMA TrialBalances ==
  ASSUME Ledger(book), NEW cells \in SUBSET Cells
  PROVE  TrialDebit(cells) = TrialCredit(cells)
<1> DEFINE debit == [a \in Accounts |-> IF AccountType[a] \in DebitNormal THEN Shown(Balance(cells, a))
                                  ELSE Shown(-Balance(cells, a))]
           credit == [a \in Accounts |-> IF AccountType[a] \in DebitNormal THEN Shown(-Balance(cells, a))
                                  ELSE Shown(Balance(cells, a))]
           net == [a \in Accounts |-> LedgerOf(book, cells, a)]
<1>1. ASSUME NEW a \in Accounts
      PROVE  debit[a] \in Int /\ credit[a] \in Int /\ net[a] \in Int /\ debit[a] = credit[a] + net[a]
  <2> DEFINE n == LedgerOf(book, cells, a)
  <2>1. n \in Int
    BY NetsBalance
  <2>2. Balance(cells, a) = IF AccountType[a] \in DebitNormal THEN n ELSE -n
    BY BalanceIsNet
  <2>3. debit[a] = IF AccountType[a] \in DebitNormal THEN Shown(n) ELSE Shown(-(-n))
    BY <2>2
  <2>4. credit[a] = IF AccountType[a] \in DebitNormal THEN Shown(-n) ELSE Shown(-n)
    BY <2>2
  <2>5. net[a] = n
    OBVIOUS
  <2> HIDE DEF n, debit, credit, net
  <2>6. -(-n) = n /\ -n \in Int
    BY <2>1
  <2>7. Shown(n) = (IF n >= 0 THEN n ELSE 0) /\ Shown(-n) = IF -n >= 0 THEN -n ELSE 0
    BY <2>1, <2>6, ShownIs
  <2> QED BY <2>1, <2>3, <2>4, <2>5, <2>6, <2>7
<1>2. debit \in [Accounts -> Int] /\ credit \in [Accounts -> Int] /\ net \in [Accounts -> Int]
  BY <1>1
<1>3. TrialDebit(cells) = SumFunction(debit) /\ TrialCredit(cells) = SumFunction(credit)
  BY DEF TrialDebit, TrialCredit
<1>4. SumFunction(net) = 0
  BY NetsBalance
<1> HIDE DEF debit, credit, net
<1>5. SumFunction(debit) = SumFunction(credit) + SumFunction(net)
  BY <1>1, <1>2, AccountsTyped, SumPlus
<1>6. SumFunction(credit) \in Int
  BY <1>2, AccountsTyped, SumInteger
<1> QED BY <1>3, <1>4, <1>5, <1>6

(* The balances of the accounts of a type, and nothing of the others. *)
TypePart(cells, type) == [a \in Accounts |-> IF AccountType[a] = type THEN Balance(cells, a) ELSE 0]

(* A sum over the accounts of a type, as one over all. *)
LEMMA SumOfPart ==
  ASSUME Ledger(book), NEW cells \in SUBSET Cells, NEW type
  PROVE  /\ TypePart(cells, type) \in [Accounts -> Int]
         /\ SumOf(cells, {type}) = SumFunction(TypePart(cells, type))
         /\ SumOf(cells, {type}) \in Int
<1> DEFINE T == OfType({type})
           f == [a \in T |-> Balance(cells, a)]
           h == TypePart(cells, type)
<1>1. T \in SUBSET Accounts /\ \A a \in Accounts : a \in T <=> AccountType[a] = type
  BY DEF OfType
<1>2. \A a \in Accounts : Balance(cells, a) \in Int
  BY BalanceIsNet
<1>3. f \in [T -> Int] /\ h \in [Accounts -> Int]
  BY <1>1, <1>2 DEF TypePart
<1>4. \A a \in Accounts : h[a] = IF a \in T THEN f[a] ELSE 0
  BY <1>1 DEF TypePart
<1>5. SumOf(cells, {type}) = SumFunction(f)
  BY DEF SumOf
<1> HIDE DEF T, f, h
<1>6. SumFunction(f) = SumFunction(h)
  BY <1>1, <1>3, <1>4, AccountsTyped, SumSubset
<1>7. SumFunction(h) \in Int
  BY <1>3, AccountsTyped, SumInteger
<1> QED BY <1>3, <1>5, <1>6, <1>7 DEF h

(* Assets are liabilities and equity with the earnings so far. *)
LEMMA SheetBalances ==
  ASSUME Ledger(book), NEW cells \in SUBSET Cells
  PROVE  SumOf(cells, {"ASSET"}) = SumOf(cells, {"LIABILITY"}) + Equity(cells)
<1> DEFINE part(type) == TypePart(cells, type)
           net == [a \in Accounts |-> LedgerOf(book, cells, a)]
           costs == [a \in Accounts |-> part("COGS")[a] + part("EXPENSE")[a]]
           owned == [a \in Accounts |-> part("ASSET")[a] + costs[a]]
           owed == [a \in Accounts |-> part("LIABILITY")[a] + part("EQUITY")[a]]
           funds == [a \in Accounts |-> owed[a] + part("INCOME")[a]]
<1>1. /\ part("ASSET") \in [Accounts -> Int] /\ part("COGS") \in [Accounts -> Int]
      /\ part("EXPENSE") \in [Accounts -> Int] /\ part("LIABILITY") \in [Accounts -> Int]
      /\ part("EQUITY") \in [Accounts -> Int] /\ part("INCOME") \in [Accounts -> Int]
  BY SumOfPart
<1>2. \A a \in Accounts : net[a] \in Int
  BY NetsBalance
<1>3. ASSUME NEW a \in Accounts PROVE owned[a] = funds[a] + net[a]
  <2> DEFINE n == LedgerOf(book, cells, a)
             b == Balance(cells, a)
  <2>1. n \in Int /\ b = IF AccountType[a] \in DebitNormal THEN n ELSE -n
    BY <1>2, BalanceIsNet
  <2>2. AccountType[a] \in {"ASSET", "LIABILITY", "EQUITY", "INCOME", "COGS", "EXPENSE"}
    BY AccountsTyped
  <2>3. owned[a] = (IF AccountType[a] = "ASSET" THEN b ELSE 0)
                  + ((IF AccountType[a] = "COGS" THEN b ELSE 0) + IF AccountType[a] = "EXPENSE" THEN b ELSE 0)
    BY DEF TypePart
  <2>4. funds[a] = ((IF AccountType[a] = "LIABILITY" THEN b ELSE 0) + IF AccountType[a] = "EQUITY" THEN b ELSE 0)
                   + IF AccountType[a] = "INCOME" THEN b ELSE 0
    BY DEF TypePart
  <2>5. net[a] = n
    OBVIOUS
  <2> HIDE DEF n, b, owned, funds, net
  <2> QED BY <2>1, <2>2, <2>3, <2>4, <2>5 DEF DebitNormal
<1> HIDE DEF part
<1>4. /\ costs \in [Accounts -> Int] /\ owned \in [Accounts -> Int] /\ owed \in [Accounts -> Int]
      /\ funds \in [Accounts -> Int] /\ net \in [Accounts -> Int]
  BY <1>1, <1>2
<1>5. IsFiniteSet(Accounts)
  BY AccountsTyped
<1>6. SumFunction(costs) = SumFunction(part("COGS")) + SumFunction(part("EXPENSE"))
  <2>1. \A a \in Accounts : costs[a] = part("COGS")[a] + part("EXPENSE")[a]
    OBVIOUS
  <2> HIDE DEF costs
  <2> QED BY <1>1, <1>4, <1>5, <2>1, SumPlus
<1>7. SumFunction(owned) = SumFunction(part("ASSET")) + SumFunction(costs)
  <2>1. \A a \in Accounts : owned[a] = part("ASSET")[a] + costs[a]
    OBVIOUS
  <2> HIDE DEF costs, owned
  <2> QED BY <1>1, <1>4, <1>5, <2>1, SumPlus
<1>8. SumFunction(owed) = SumFunction(part("LIABILITY")) + SumFunction(part("EQUITY"))
  <2>1. \A a \in Accounts : owed[a] = part("LIABILITY")[a] + part("EQUITY")[a]
    OBVIOUS
  <2> HIDE DEF owed
  <2> QED BY <1>1, <1>4, <1>5, <2>1, SumPlus
<1>9. SumFunction(funds) = SumFunction(owed) + SumFunction(part("INCOME"))
  <2>1. \A a \in Accounts : funds[a] = owed[a] + part("INCOME")[a]
    OBVIOUS
  <2> HIDE DEF owed, funds
  <2> QED BY <1>1, <1>4, <1>5, <2>1, SumPlus
<1> HIDE DEF owned, funds, net, costs, owed
<1>10. SumFunction(owned) = SumFunction(funds) + SumFunction(net)
  BY <1>3, <1>4, <1>5, SumPlus
<1>11. SumFunction(net) = 0
  BY NetsBalance DEF net
<1>12. /\ SumOf(cells, {"ASSET"}) = SumFunction(part("ASSET"))
       /\ SumOf(cells, {"COGS"}) = SumFunction(part("COGS"))
       /\ SumOf(cells, {"EXPENSE"}) = SumFunction(part("EXPENSE"))
       /\ SumOf(cells, {"LIABILITY"}) = SumFunction(part("LIABILITY"))
       /\ SumOf(cells, {"EQUITY"}) = SumFunction(part("EQUITY"))
       /\ SumOf(cells, {"INCOME"}) = SumFunction(part("INCOME"))
       /\ SumOf(cells, {"ASSET"}) \in Int /\ SumOf(cells, {"COGS"}) \in Int
       /\ SumOf(cells, {"EXPENSE"}) \in Int /\ SumOf(cells, {"LIABILITY"}) \in Int
       /\ SumOf(cells, {"EQUITY"}) \in Int /\ SumOf(cells, {"INCOME"}) \in Int
  BY SumOfPart DEF part
<1>13. Equity(cells) = SumOf(cells, {"EQUITY"})
         + (SumOf(cells, {"INCOME"}) - SumOf(cells, {"COGS"}) - SumOf(cells, {"EXPENSE"}))
  BY DEF Equity, NetProfit, Revenue
<1>14. PICK assets, cogs, expenses, debts, equity, income :
         /\ assets = SumOf(cells, {"ASSET"}) /\ cogs = SumOf(cells, {"COGS"})
         /\ expenses = SumOf(cells, {"EXPENSE"}) /\ debts = SumOf(cells, {"LIABILITY"})
         /\ equity = SumOf(cells, {"EQUITY"}) /\ income = SumOf(cells, {"INCOME"})
  OBVIOUS
<1>15. /\ assets \in Int /\ cogs \in Int /\ expenses \in Int
       /\ debts \in Int /\ equity \in Int /\ income \in Int
  BY <1>12, <1>14
<1>16. assets + (cogs + expenses) = ((debts + equity) + income) + 0
  BY <1>6, <1>7, <1>8, <1>9, <1>10, <1>11, <1>12, <1>14
<1>17. assets = debts + (equity + (income - cogs - expenses))
  BY <1>15, <1>16
<1> QED BY <1>13, <1>14, <1>17

-----------------------------------------------------------------------------
(* What cells have is what two parts of them have. *)
LEMMA NetSplits ==
  ASSUME Ledger(book), NEW cells \in SUBSET Cells, NEW A, NEW B, DisjointUnion(cells, A, B),
         NEW a \in Accounts
  PROVE  Balance(cells, a) = Balance(A, a) + Balance(B, a)
<1> DEFINE f == [c \in cells |-> book[c][a]]
           g == [c \in A |-> book[c][a]]
           h == [c \in B |-> book[c][a]]
<1>1. A \in SUBSET Cells /\ B \in SUBSET Cells
  BY DEF DisjointUnion
<1>2. IsFiniteSet(cells)
  BY CellsFinite
<1>3. f \in [cells -> Int] /\ g \in [A -> Int] /\ h \in [B -> Int]
  BY <1>1 DEF Ledger
<1>4. (\A c \in A : g[c] = f[c]) /\ \A c \in B : h[c] = f[c]
  BY DEF DisjointUnion
<1>5. /\ LedgerOf(book, cells, a) = SumFunction(f)
      /\ LedgerOf(book, A, a) = SumFunction(g) /\ LedgerOf(book, B, a) = SumFunction(h)
  BY DEF LedgerOf
<1> HIDE DEF f, g, h
<1>6. SumFunction(f) = SumFunction(g) + SumFunction(h)
  BY <1>2, <1>3, <1>4, SumSplit
<1>7. /\ Balance(cells, a) = IF AccountType[a] \in DebitNormal THEN LedgerOf(book, cells, a)
                             ELSE - LedgerOf(book, cells, a)
      /\ Balance(A, a) = IF AccountType[a] \in DebitNormal THEN LedgerOf(book, A, a)
                         ELSE - LedgerOf(book, A, a)
      /\ Balance(B, a) = IF AccountType[a] \in DebitNormal THEN LedgerOf(book, B, a)
                         ELSE - LedgerOf(book, B, a)
  BY <1>1, BalanceIsNet
<1>8. LedgerOf(book, A, a) \in Int /\ LedgerOf(book, B, a) \in Int
  BY <1>1, NetsBalance
<1> QED BY <1>5, <1>6, <1>7, <1>8

(* And so is their profit. *)
LEMMA ProfitSplits ==
  ASSUME Ledger(book), NEW cells \in SUBSET Cells, NEW A, NEW B, DisjointUnion(cells, A, B)
  PROVE  NetProfit(cells) = NetProfit(A) + NetProfit(B)
<1>1. A \in SUBSET Cells /\ B \in SUBSET Cells
  BY DEF DisjointUnion
<1>2. ASSUME NEW type
      PROVE  /\ SumOf(cells, {type}) = SumOf(A, {type}) + SumOf(B, {type})
             /\ SumOf(cells, {type}) \in Int /\ SumOf(A, {type}) \in Int /\ SumOf(B, {type}) \in Int
  <2> DEFINE f == TypePart(cells, type)
             g == TypePart(A, type)
             h == TypePart(B, type)
  <2>1. /\ SumOf(cells, {type}) = SumFunction(f) /\ SumOf(A, {type}) = SumFunction(g)
        /\ SumOf(B, {type}) = SumFunction(h)
        /\ f \in [Accounts -> Int] /\ g \in [Accounts -> Int] /\ h \in [Accounts -> Int]
        /\ SumOf(cells, {type}) \in Int /\ SumOf(A, {type}) \in Int /\ SumOf(B, {type}) \in Int
    BY <1>1, SumOfPart
  <2>2. \A a \in Accounts : f[a] = g[a] + h[a]
    <3>1. \A a \in Accounts : Balance(cells, a) = Balance(A, a) + Balance(B, a)
      BY NetSplits
    <3> QED BY <3>1 DEF TypePart
  <2>3. /\ IsFiniteSet(Accounts)
        /\ f \in [Accounts -> Int] /\ g \in [Accounts -> Int] /\ h \in [Accounts -> Int]
    BY <2>1, AccountsTyped
  <2> HIDE DEF f, g, h
  <2>4. SumFunction(f) = SumFunction(g) + SumFunction(h)
    BY <2>2, <2>3, SumPlus
  <2> QED BY <2>1, <2>4
<1>3. PICK i, ia, ib, c, ca, cb, e, ea, eb :
        /\ i = SumOf(cells, {"INCOME"}) /\ ia = SumOf(A, {"INCOME"}) /\ ib = SumOf(B, {"INCOME"})
        /\ c = SumOf(cells, {"COGS"}) /\ ca = SumOf(A, {"COGS"}) /\ cb = SumOf(B, {"COGS"})
        /\ e = SumOf(cells, {"EXPENSE"}) /\ ea = SumOf(A, {"EXPENSE"}) /\ eb = SumOf(B, {"EXPENSE"})
  OBVIOUS
<1>4. /\ i = ia + ib /\ c = ca + cb /\ e = ea + eb
      /\ ia \in Int /\ ib \in Int /\ ca \in Int /\ cb \in Int /\ ea \in Int /\ eb \in Int
  BY <1>2, <1>3
<1>5. NetProfit(cells) = i - c - e /\ NetProfit(A) = ia - ca - ea /\ NetProfit(B) = ib - cb - eb
  BY <1>3 DEF NetProfit, Revenue
<1> QED BY <1>4, <1>5

(* What is entered up to a day is what was before a period that ends then, and what is in it. *)
LEMMA PeriodsOf ==
  ASSUME NEW t \in Companies, NEW d \in 1 .. LastEntryDay, NEW f \in 1 .. d, NEW at \in SUBSET Sites
  PROVE  /\ Upto(t, d, at) \in SUBSET Cells
         /\ DisjointUnion(Upto(t, d, at), Upto(t, f - 1, at), During(t, f, d, at))
<1>1. Upto(t, d, at) \in SUBSET Cells
  BY BooksAssumption DEF Upto, Cells
<1>2. ASSUME NEW x
      PROVE  x \in Upto(t, d, at) <=> x \in Upto(t, f - 1, at) \/ x \in During(t, f, d, at)
  <2>1. \A k \in Int : k \in 1 .. d <=> k \in 1 .. f - 1 \/ k \in f .. d
    BY BooksAssumption
  <2>2. \A k \in 1 .. d : k \in Int
    BY BooksAssumption
  <2>3. \A k \in 1 .. f - 1 : k \in Int
    BY BooksAssumption
  <2>4. \A k \in f .. d : k \in Int
    BY BooksAssumption
  <2>5. ASSUME x \in Upto(t, d, at) PROVE x \in Upto(t, f - 1, at) \/ x \in During(t, f, d, at)
    <3>1. PICK k \in 1 .. d, s \in at : x = <<t, k, s>>
      BY <2>5 DEF Upto
    <3>2. k \in 1 .. f - 1 \/ k \in f .. d
      BY <2>1, <2>2
    <3> QED BY <3>1, <3>2 DEF Upto, During
  <2>6. ASSUME x \in Upto(t, f - 1, at) PROVE x \in Upto(t, d, at)
    <3>1. PICK k \in 1 .. f - 1, s \in at : x = <<t, k, s>>
      BY <2>6 DEF Upto
    <3>2. k \in 1 .. d
      BY <2>1, <2>3
    <3> QED BY <3>1, <3>2 DEF Upto
  <2>7. ASSUME x \in During(t, f, d, at) PROVE x \in Upto(t, d, at)
    <3>1. PICK k \in f .. d, s \in at : x = <<t, k, s>>
      BY <2>7 DEF During
    <3>2. k \in 1 .. d
      BY <2>1, <2>4
    <3> QED BY <3>1, <3>2 DEF Upto
  <2> QED BY <2>5, <2>6, <2>7
<1>3. ASSUME NEW x \in Upto(t, f - 1, at), x \in During(t, f, d, at) PROVE FALSE
  <2>1. PICK k \in 1 .. f - 1, s \in at : x = <<t, k, s>>
    BY DEF Upto
  <2>2. PICK m \in f .. d, r \in at : x = <<t, m, r>>
    BY <1>3 DEF During
  <2>3. k = m
    BY <2>1, <2>2
  <2> QED BY <2>3, BooksAssumption
<1> QED BY <1>1, <1>2, <1>3 DEF DisjointUnion

(* The reports of one company agree. *)
LEMMA CompanyAgrees ==
  ASSUME Ledger(book), NEW t \in Companies, NEW d \in 1 .. LastEntryDay, NEW at \in SiteFilter
  PROVE  /\ TrialDebit(Upto(t, d, at)) = TrialCredit(Upto(t, d, at))
         /\ SumOf(Upto(t, d, at), {"ASSET"}) = SumOf(Upto(t, d, at), {"LIABILITY"}) + Equity(Upto(t, d, at))
         /\ NetProfit(Upto(t, d, at)) = NetProfit(Upto(t, d - 1, at)) + NetProfit(During(t, d, d, at))
         /\ \A f \in 1 .. d : CashClosing(t, f, d) = Balance(Upto(t, d, Sites), "bank")
<1>1. at \in SUBSET Sites
  BY DEF SiteFilter
<1>2. d \in 1 .. d
  BY BooksAssumption
<1>3. Upto(t, d, at) \in SUBSET Cells
  BY <1>1, <1>2, PeriodsOf
<1>4. TrialDebit(Upto(t, d, at)) = TrialCredit(Upto(t, d, at))
  BY <1>3, TrialBalances
<1>5. SumOf(Upto(t, d, at), {"ASSET"}) = SumOf(Upto(t, d, at), {"LIABILITY"}) + Equity(Upto(t, d, at))
  BY <1>3, SheetBalances
<1>6. NetProfit(Upto(t, d, at)) = NetProfit(Upto(t, d - 1, at)) + NetProfit(During(t, d, d, at))
  BY <1>1, <1>2, PeriodsOf, ProfitSplits
<1>7. ASSUME NEW f \in 1 .. d PROVE CashClosing(t, f, d) = Balance(Upto(t, d, Sites), "bank")
  <2> DEFINE whole == Upto(t, d, Sites)
             before == Upto(t, f - 1, Sites)
             in == During(t, f, d, Sites)
  <2>1. whole \in SUBSET Cells /\ DisjointUnion(whole, before, in)
    BY PeriodsOf
  <2>2. in \in SUBSET Cells
    BY <2>1 DEF DisjointUnion
  <2>3. "bank" \in Accounts /\ AccountType["bank"] \in DebitNormal
    BY AccountsTyped DEF DebitNormal
  <2>4. CashClosing(t, f, d) = Balance(before, "bank") + LedgerOf(book, in, "bank")
    BY DEF CashClosing, LedgerOf
  <2> HIDE DEF whole, before, in
  <2>5. Balance(in, "bank") = LedgerOf(book, in, "bank")
    BY <2>2, <2>3, BalanceIsNet
  <2>6. Balance(whole, "bank") = Balance(before, "bank") + Balance(in, "bank")
    BY <2>1, <2>3, NetSplits
  <2> QED BY <2>4, <2>5, <2>6 DEF whole
<1> QED BY <1>4, <1>5, <1>6, <1>7

-----------------------------------------------------------------------------
(* What any companies of the group have in sales is what they invoiced, outside and to
   each other, less what they wrote back; in expenses, what they were invoiced. *)
Accounted(scope) ==
  /\ LedgerOf(book, CellsOf(scope), "sales")
       = SumFunctionOnSet(undone, scope \X Companies)
         - SumFunctionOnSet(sold, scope) - SumFunctionOnSet(icTrade, scope \X Companies)
  /\ LedgerOf(book, CellsOf(scope), "expense")
       = SumFunctionOnSet(bought, scope) + SumFunctionOnSet(icTrade, Companies \X scope)
BooksTyped ==
  /\ icTrade \in [Companies \X Companies -> Int] /\ undone \in [Companies \X Companies -> Int]
  /\ sold \in [Companies -> Int] /\ bought \in [Companies -> Int]
BooksInv == Ledger(book) /\ BooksTyped /\ \A scope \in SUBSET Companies : Accounted(scope)

(* The sets of companies and of trades summed over are finite. *)
LEMMA ScopesFinite ==
  ASSUME NEW scope \in SUBSET Companies
  PROVE  /\ IsFiniteSet(scope)
         /\ IsFiniteSet(scope \X Companies) /\ scope \X Companies \subseteq Companies \X Companies
         /\ IsFiniteSet(Companies \X scope) /\ Companies \X scope \subseteq Companies \X Companies
         /\ CellsOf(scope) \in SUBSET Cells
         /\ \A c \in Cells : c \in CellsOf(scope) <=> c[1] \in scope
<1>1. IsFiniteSet(scope)
  BY BooksAssumption, FS_Subset
<1>2. IsFiniteSet(scope \X Companies) /\ IsFiniteSet(Companies \X scope)
  BY <1>1, BooksAssumption, FS_Product
<1>3. scope \X Companies \subseteq Companies \X Companies /\ Companies \X scope \subseteq Companies \X Companies
  OBVIOUS
<1> QED BY <1>1, <1>2, <1>3 DEF CellsOf

(* Sums of what was traded are numbers. *)
LEMMA TradesSum ==
  ASSUME BooksTyped, NEW scope \in SUBSET Companies, NEW others \in SUBSET Companies
  PROVE  /\ SumFunctionOnSet(icTrade, scope \X others) \in Int
         /\ SumFunctionOnSet(undone, scope \X others) \in Int
         /\ SumFunctionOnSet(sold, scope) \in Int /\ SumFunctionOnSet(bought, scope) \in Int
<1> DEFINE P == scope \X others
           T == Companies \X Companies
<1>1. IsFiniteSet(scope) /\ IsFiniteSet(others)
  BY BooksAssumption, FS_Subset
<1>2. IsFiniteSet(P) /\ P \subseteq T
  BY <1>1, FS_Product
<1>3. icTrade \in [T -> Int] /\ undone \in [T -> Int]
  BY DEF BooksTyped
<1> HIDE DEF P, T
<1>4. SumFunctionOnSet(icTrade, P) \in Int /\ SumFunctionOnSet(undone, P) \in Int
  BY <1>2, <1>3, SumOnSetInteger
<1>5. sold \in [Companies -> Int] /\ bought \in [Companies -> Int]
  BY DEF BooksTyped
<1>6. SumFunctionOnSet(sold, scope) \in Int /\ SumFunctionOnSet(bought, scope) \in Int
  BY <1>1, <1>5, SumOnSetInteger
<1> QED BY <1>4, <1>6 DEF P

(* The lines of every journal balance. *)
LEMMA JournalsBalance == \A lines \in Journals : Entry(lines)
BY AccountsTyped, Lines2Balance DEF Journals

(* A journal of the ledger is counted with its company. *)
LEMMA PostEntryKeeps ==
  ASSUME BooksInv, NEW cell \in Cells, NEW lines \in Journals, PostEntry(cell, lines)
  PROVE  BooksInv'
<1>1. Entry(lines)
  BY JournalsBalance
<1>2. cell[1] \in Companies
  BY DEF Cells
<1>3. lines["sales"] \in Int /\ lines["expense"] \in Int /\ {"sales", "expense"} \subseteq Accounts
  BY <1>1, AccountsTyped DEF Entry
<1>4. book' = Booked(book, cell, lines) /\ icTrade' = icTrade /\ undone' = undone
  BY DEF PostEntry
<1>5. /\ Bumped(Companies, sold, sold', cell[1], - lines["sales"])
      /\ Bumped(Companies, bought, bought', cell[1], lines["expense"])
  BY <1>2, <1>3 DEF PostEntry, Bumped, BooksInv, BooksTyped
<1>6. /\ Ledger(book')
      /\ \A cells \in SUBSET Cells, a \in Accounts :
           LedgerOf(book', cells, a) = LedgerOf(book, cells, a) + IF cell \in cells THEN lines[a] ELSE 0
  BY <1>1, <1>4, BookedKeeps DEF BooksInv
<1>7. BooksTyped'
  BY <1>4, <1>5 DEF BooksInv, BooksTyped, Bumped
<1>8. ASSUME NEW scope \in SUBSET Companies PROVE Accounted(scope)'
  <2> DEFINE cells == CellsOf(scope)
  <2>1. /\ IsFiniteSet(scope) /\ cells \in SUBSET Cells
        /\ \A c \in Cells : c \in cells <=> c[1] \in scope
    BY ScopesFinite
  <2>2. SumIsBumped(scope, sold, sold', cell[1], - lines["sales"])
    BY <1>5, <2>1, SumBumped
  <2>3. SumIsBumped(scope, bought, bought', cell[1], lines["expense"])
    BY <1>5, <2>1, SumBumped
  <2>4. /\ LedgerOf(book', cells, "sales") = LedgerOf(book, cells, "sales")
             + IF cell[1] \in scope THEN lines["sales"] ELSE 0
        /\ LedgerOf(book', cells, "expense") = LedgerOf(book, cells, "expense")
             + IF cell[1] \in scope THEN lines["expense"] ELSE 0
    BY <1>3, <1>6, <2>1
  <2>5. LedgerOf(book, cells, "sales") \in Int /\ LedgerOf(book, cells, "expense") \in Int
    BY <1>3, <2>1, NetsBalance DEF BooksInv
  <2>6. Accounted(scope)
    BY DEF BooksInv
  <2>7. Accounted(scope)' <=>
          /\ LedgerOf(book', cells, "sales")
               = SumFunctionOnSet(undone, scope \X Companies)
                 - SumFunctionOnSet(sold', scope) - SumFunctionOnSet(icTrade, scope \X Companies)
          /\ LedgerOf(book', cells, "expense")
               = SumFunctionOnSet(bought', scope) + SumFunctionOnSet(icTrade, Companies \X scope)
    BY <1>4 DEF Accounted, LedgerOf, CellsOf
  <2>8. SumFunctionOnSet(undone, scope \X Companies) \in Int /\ SumFunctionOnSet(icTrade, scope \X Companies) \in Int
        /\ SumFunctionOnSet(icTrade, Companies \X scope) \in Int
    BY TradesSum DEF BooksInv
  <2> HIDE DEF cells
  <2> QED BY <1>3, <2>2, <2>3, <2>4, <2>5, <2>6, <2>7, <2>8 DEF Accounted, SumIsBumped, cells
<1> QED BY <1>6, <1>7, <1>8 DEF BooksInv

(* An inter-company sale is counted with the seller's sales and the buyer's expenses. *)
LEMMA IntercompanySaleKeeps ==
  ASSUME BooksInv, NEW from \in Companies, NEW to \in Companies, NEW day \in 1 .. LastEntryDay,
         NEW s \in Sites, NEW r \in Sites, IntercompanySale(from, to, day, s, r)
  PROVE  BooksInv'
<1> DEFINE c1 == <<from, day, s>>
           c2 == <<to, day, r>>
           l1 == Lines2("ar", "sales")
           l2 == Lines2("expense", "ap")
           mid == Booked(book, c1, l1)
<1>1. c1 \in Cells /\ c2 \in Cells /\ c1[1] = from /\ c2[1] = to
  BY DEF Cells
<1>2. /\ Entry(l1) /\ l1["sales"] = -1 /\ l1["expense"] = 0
      /\ Entry(l2) /\ l2["sales"] = 0 /\ l2["expense"] = 1
      /\ "sales" \in Accounts /\ "expense" \in Accounts
  BY AccountsTyped, Lines2Balance
<1>3. /\ book' = Booked(mid, c2, l2) /\ sold' = sold /\ bought' = bought /\ undone' = undone
      /\ icTrade' = [icTrade EXCEPT ![<<from, to>>] = @ + 1]
  BY DEF IntercompanySale
<1>4. Bumped(Companies \X Companies, icTrade, icTrade', <<from, to>>, 1)
  BY <1>3 DEF Bumped, BooksInv, BooksTyped
<1> HIDE DEF c1, c2, l1, l2
<1>5. /\ Ledger(mid)
      /\ \A cells \in SUBSET Cells, a \in Accounts :
           LedgerOf(mid, cells, a) = LedgerOf(book, cells, a) + IF c1 \in cells THEN l1[a] ELSE 0
  BY <1>1, <1>2, BookedKeeps DEF BooksInv
<1> HIDE DEF mid
<1>6. /\ Ledger(book')
      /\ \A cells \in SUBSET Cells, a \in Accounts :
           LedgerOf(book', cells, a) = LedgerOf(mid, cells, a) + IF c2 \in cells THEN l2[a] ELSE 0
  BY <1>1, <1>2, <1>3, <1>5, BookedKeeps
<1>7. BooksTyped'
  BY <1>3, <1>4 DEF BooksInv, BooksTyped, Bumped
<1>8. ASSUME NEW scope \in SUBSET Companies PROVE Accounted(scope)'
  <2> DEFINE cells == CellsOf(scope)
             out == scope \X Companies
             in == Companies \X scope
  <2>1. /\ IsFiniteSet(out) /\ out \subseteq Companies \X Companies
        /\ IsFiniteSet(in) /\ in \subseteq Companies \X Companies
        /\ cells \in SUBSET Cells
        /\ \A c \in Cells : c \in cells <=> c[1] \in scope
    BY ScopesFinite
  <2>2. SumIsBumped(out, icTrade, icTrade', <<from, to>>, 1) /\ SumIsBumped(in, icTrade, icTrade', <<from, to>>, 1)
    <3> HIDE DEF out, in
    <3> QED BY <1>4, <2>1, SumBumped
  <2>3. (<<from, to>> \in out <=> from \in scope) /\ (<<from, to>> \in in <=> to \in scope)
    OBVIOUS
  <2>4. /\ LedgerOf(mid, cells, "sales") = LedgerOf(book, cells, "sales") + IF from \in scope THEN -1 ELSE 0
        /\ LedgerOf(mid, cells, "expense") = LedgerOf(book, cells, "expense") + IF from \in scope THEN 0 ELSE 0
    BY <1>1, <1>2, <1>5, <2>1
  <2>5. /\ LedgerOf(book', cells, "sales") = LedgerOf(mid, cells, "sales") + IF to \in scope THEN 0 ELSE 0
        /\ LedgerOf(book', cells, "expense") = LedgerOf(mid, cells, "expense") + IF to \in scope THEN 1 ELSE 0
    BY <1>1, <1>2, <1>6, <2>1
  <2>6. LedgerOf(book, cells, "sales") \in Int /\ LedgerOf(book, cells, "expense") \in Int
    BY <1>2, <2>1, NetsBalance DEF BooksInv
  <2>7. Accounted(scope)
    BY DEF BooksInv
  <2>8. Accounted(scope)' <=>
          /\ LedgerOf(book', cells, "sales")
               = SumFunctionOnSet(undone, out) - SumFunctionOnSet(sold, scope) - SumFunctionOnSet(icTrade', out)
          /\ LedgerOf(book', cells, "expense") = SumFunctionOnSet(bought, scope) + SumFunctionOnSet(icTrade', in)
    BY <1>3 DEF Accounted, LedgerOf, CellsOf
  <2>9. /\ SumFunctionOnSet(undone, out) \in Int /\ SumFunctionOnSet(sold, scope) \in Int
        /\ SumFunctionOnSet(bought, scope) \in Int
    BY TradesSum DEF BooksInv
  <2>10. Accounted(scope) <=>
          /\ LedgerOf(book, cells, "sales")
               = SumFunctionOnSet(undone, out) - SumFunctionOnSet(sold, scope) - SumFunctionOnSet(icTrade, out)
          /\ LedgerOf(book, cells, "expense") = SumFunctionOnSet(bought, scope) + SumFunctionOnSet(icTrade, in)
    BY DEF Accounted
  <2> HIDE DEF cells, out, in
  <2> QED BY <2>2, <2>3, <2>4, <2>5, <2>6, <2>7, <2>8, <2>9, <2>10 DEF SumIsBumped
<1> QED BY <1>6, <1>7, <1>8 DEF BooksInv

(* And taken off again when its seller writes it back, at no site. *)
LEMMA UndoKeeps ==
  ASSUME BooksInv, NEW from \in Companies, NEW to \in Companies, NEW day \in 1 .. LastEntryDay,
         UndoIntercompanySale(from, to, day)
  PROVE  BooksInv'
<1> DEFINE c1 == <<from, day, NoSite>>
           l1 == Lines2("sales", "ar")
<1>1. c1 \in Cells /\ c1[1] = from
  BY BooksAssumption DEF Cells
<1>2. /\ Entry(l1) /\ l1["sales"] = 1 /\ l1["expense"] = 0
      /\ "sales" \in Accounts /\ "expense" \in Accounts
  BY AccountsTyped, Lines2Balance
<1>3. /\ book' = Booked(book, c1, l1) /\ sold' = sold /\ bought' = bought /\ icTrade' = icTrade
      /\ undone' = [undone EXCEPT ![<<from, to>>] = @ + 1]
  BY DEF UndoIntercompanySale
<1>4. Bumped(Companies \X Companies, undone, undone', <<from, to>>, 1)
  BY <1>3 DEF Bumped, BooksInv, BooksTyped
<1> HIDE DEF c1, l1
<1>5. /\ Ledger(book')
      /\ \A cells \in SUBSET Cells, a \in Accounts :
           LedgerOf(book', cells, a) = LedgerOf(book, cells, a) + IF c1 \in cells THEN l1[a] ELSE 0
  BY <1>1, <1>2, <1>3, BookedKeeps DEF BooksInv
<1>6. BooksTyped'
  BY <1>3, <1>4 DEF BooksInv, BooksTyped, Bumped
<1>7. ASSUME NEW scope \in SUBSET Companies PROVE Accounted(scope)'
  <2> DEFINE cells == CellsOf(scope)
             out == scope \X Companies
             in == Companies \X scope
  <2>1. /\ IsFiniteSet(out) /\ out \subseteq Companies \X Companies
        /\ cells \in SUBSET Cells
        /\ \A c \in Cells : c \in cells <=> c[1] \in scope
    BY ScopesFinite
  <2>2. SumIsBumped(out, undone, undone', <<from, to>>, 1)
    <3> HIDE DEF out
    <3> QED BY <1>4, <2>1, SumBumped
  <2>3. <<from, to>> \in out <=> from \in scope
    OBVIOUS
  <2>4. /\ LedgerOf(book', cells, "sales") = LedgerOf(book, cells, "sales") + IF from \in scope THEN 1 ELSE 0
        /\ LedgerOf(book', cells, "expense") = LedgerOf(book, cells, "expense") + IF from \in scope THEN 0 ELSE 0
    BY <1>1, <1>2, <1>5, <2>1
  <2>5. LedgerOf(book, cells, "sales") \in Int /\ LedgerOf(book, cells, "expense") \in Int
    BY <1>2, <2>1, NetsBalance DEF BooksInv
  <2>6. Accounted(scope)
    BY DEF BooksInv
  <2>7. Accounted(scope)' <=>
          /\ LedgerOf(book', cells, "sales")
               = SumFunctionOnSet(undone', out) - SumFunctionOnSet(sold, scope) - SumFunctionOnSet(icTrade, out)
          /\ LedgerOf(book', cells, "expense") = SumFunctionOnSet(bought, scope) + SumFunctionOnSet(icTrade, in)
    BY <1>3 DEF Accounted, LedgerOf, CellsOf
  <2>8. /\ SumFunctionOnSet(icTrade, out) \in Int /\ SumFunctionOnSet(sold, scope) \in Int
        /\ SumFunctionOnSet(bought, scope) \in Int /\ SumFunctionOnSet(icTrade, in) \in Int
    BY TradesSum DEF BooksInv
  <2>9. Accounted(scope) <=>
          /\ LedgerOf(book, cells, "sales")
               = SumFunctionOnSet(undone, out) - SumFunctionOnSet(sold, scope) - SumFunctionOnSet(icTrade, out)
          /\ LedgerOf(book, cells, "expense") = SumFunctionOnSet(bought, scope) + SumFunctionOnSet(icTrade, in)
    BY DEF Accounted
  <2> HIDE DEF cells, out, in
  <2> QED BY <2>2, <2>3, <2>4, <2>5, <2>6, <2>7, <2>8, <2>9 DEF SumIsBumped
<1> QED BY <1>5, <1>6, <1>7 DEF BooksInv

(* At first there is nothing in the books. *)
LEMMA BooksBegin == InitBooks => BooksInv
<1> SUFFICES ASSUME InitBooks PROVE BooksInv
  OBVIOUS
<1>1. book = [c \in Cells |-> [a \in Accounts |-> 0]]
  BY DEF InitBooks
<1>2. Ledger(book)
  <2> DEFINE zero == [a \in Accounts |-> 0]
  <2>1. zero \in [Accounts -> Int] /\ \A a \in Accounts : zero[a] = 0
    OBVIOUS
  <2>2. \A c \in Cells : book[c] = zero
    BY <1>1
  <2>3. book \in [Cells -> [Accounts -> Int]]
    BY <1>1
  <2> HIDE DEF zero
  <2>4. SumFunction(zero) = 0
    BY <2>1, AccountsTyped, SumZero
  <2> QED BY <2>2, <2>3, <2>4 DEF Ledger
<1>3. /\ BooksTyped
      /\ \A p \in Companies \X Companies : icTrade[p] = 0 /\ undone[p] = 0
      /\ \A t \in Companies : sold[t] = 0 /\ bought[t] = 0
  BY DEF InitBooks, NoTrade, BooksTyped
<1>4. ASSUME NEW cells \in SUBSET Cells, NEW a \in Accounts PROVE LedgerOf(book, cells, a) = 0
  <2> DEFINE f == [c \in cells |-> book[c][a]]
  <2>1. f \in [cells -> Int] /\ \A c \in cells : f[c] = 0
    BY <1>1
  <2>2. IsFiniteSet(cells)
    BY CellsFinite
  <2> HIDE DEF f
  <2>3. SumFunction(f) = 0
    BY <2>1, <2>2, SumZero
  <2> QED BY <2>3 DEF LedgerOf, f
<1>5. ASSUME NEW T, NEW S, IsFiniteSet(S), S \subseteq T, NEW f \in [T -> Int], \A x \in T : f[x] = 0
      PROVE  SumFunctionOnSet(f, S) = 0
  <2> DEFINE g == [x \in S |-> f[x]]
  <2>1. g \in [S -> Int] /\ \A x \in S : g[x] = 0
    BY <1>5
  <2>2. SumFunctionOnSet(f, S) = SumFunction(g)
    BY <1>5, SumOnSet
  <2> HIDE DEF g
  <2>3. SumFunction(g) = 0
    BY <1>5, <2>1, SumZero
  <2> QED BY <2>2, <2>3
<1>6. ASSUME NEW scope \in SUBSET Companies PROVE Accounted(scope)
  <2> DEFINE out == scope \X Companies
             in == Companies \X scope
             T == Companies \X Companies
  <2>1. /\ IsFiniteSet(out) /\ out \subseteq T /\ IsFiniteSet(in) /\ in \subseteq T
        /\ IsFiniteSet(scope) /\ scope \subseteq Companies /\ CellsOf(scope) \in SUBSET Cells
    BY ScopesFinite
  <2>2. /\ icTrade \in [T -> Int] /\ undone \in [T -> Int]
        /\ \A p \in T : icTrade[p] = 0 /\ undone[p] = 0
    BY <1>3 DEF BooksTyped
  <2> HIDE DEF out, in, T
  <2>3. SumFunctionOnSet(undone, out) = 0 /\ SumFunctionOnSet(icTrade, out) = 0 /\ SumFunctionOnSet(icTrade, in) = 0
    BY <1>5, <2>1, <2>2
  <2>4. SumFunctionOnSet(sold, scope) = 0 /\ SumFunctionOnSet(bought, scope) = 0
    BY <1>3, <1>5, <2>1 DEF BooksTyped
  <2>5. LedgerOf(book, CellsOf(scope), "sales") = 0 /\ LedgerOf(book, CellsOf(scope), "expense") = 0
    BY <1>4, <2>1, AccountsTyped
  <2> QED BY <2>3, <2>4, <2>5 DEF Accounted, out, in
<1> QED BY <1>2, <1>3, <1>6 DEF BooksInv

(* The only account of income is sales, and the only one of expense is that. *)
LEMMA RevenueIsSales ==
  ASSUME Ledger(book), NEW cells \in SUBSET Cells
  PROVE  /\ Revenue(cells) = - LedgerOf(book, cells, "sales")
         /\ SumOf(cells, {"EXPENSE"}) = LedgerOf(book, cells, "expense")
<1>1. ASSUME NEW type, NEW only \in Accounts, \A a \in Accounts : AccountType[a] = type <=> a = only
      PROVE  SumOf(cells, {type}) = Balance(cells, only)
  <2> DEFINE part == TypePart(cells, type)
  <2>1. part \in [Accounts -> Int] /\ SumOf(cells, {type}) = SumFunction(part)
    BY SumOfPart
  <2>2. part[only] = Balance(cells, only) /\ \A a \in Accounts \ {only} : part[a] = 0
    BY <1>1 DEF TypePart
  <2>3. IsFiniteSet(Accounts)
    BY AccountsTyped
  <2> HIDE DEF part
  <2>4. SumFunction(part) = part[only]
    BY <2>1, <2>2, <2>3, SumPoint
  <2> QED BY <2>1, <2>2, <2>4
<1>2. /\ "sales" \in Accounts /\ "expense" \in Accounts
      /\ \A a \in Accounts : AccountType[a] = "INCOME" <=> a = "sales"
      /\ \A a \in Accounts : AccountType[a] = "EXPENSE" <=> a = "expense"
  BY AccountsTyped
<1>3. Revenue(cells) = Balance(cells, "sales") /\ SumOf(cells, {"EXPENSE"}) = Balance(cells, "expense")
  BY <1>1, <1>2 DEF Revenue
<1>4. AccountType["sales"] \notin DebitNormal /\ AccountType["expense"] \in DebitNormal
  BY AccountsTyped DEF DebitNormal
<1> QED BY <1>2, <1>3, <1>4, BalanceIsNet

(* The reports of a group leave what it traded with others. *)
LEMMA GroupAgrees ==
  ASSUME BooksInv, NEW scope \in SUBSET Companies,
         SumFunctionOnSet(undone, scope \X scope) = 0
  PROVE  /\ NetRevenue(scope) = SumFunctionOnSet(sold, scope)
              + SumFunctionOnSet(icTrade, scope \X (Companies \ scope))
              - SumFunctionOnSet(undone, scope \X (Companies \ scope))
         /\ NetExpenses(scope) = SumFunctionOnSet(bought, scope)
              + SumFunctionOnSet(icTrade, (Companies \ scope) \X scope)
<1> DEFINE others == Companies \ scope
           T == Companies \X Companies
           out == scope \X Companies
           in == Companies \X scope
           between == scope \X scope
           sales == scope \X others
           costs == others \X scope
<1>1. IsFiniteSet(out) /\ out \subseteq T /\ IsFiniteSet(in) /\ in \subseteq T
  BY ScopesFinite
<1>2. DisjointUnion(out, between, sales) /\ DisjointUnion(in, between, costs)
  BY DEF DisjointUnion
<1>3. icTrade \in [T -> Int] /\ undone \in [T -> Int]
  BY DEF BooksInv, BooksTyped
<1>4. /\ SumFunctionOnSet(icTrade, between) \in Int /\ SumFunctionOnSet(icTrade, sales) \in Int
      /\ SumFunctionOnSet(icTrade, costs) \in Int /\ SumFunctionOnSet(undone, sales) \in Int
      /\ SumFunctionOnSet(sold, scope) \in Int /\ SumFunctionOnSet(bought, scope) \in Int
  BY TradesSum DEF BooksInv
<1>5. Accounted(scope) /\ Ledger(book)
  BY DEF BooksInv
<1>6. CellsOf(scope) \in SUBSET Cells
  BY ScopesFinite
<1>7. /\ NetRevenue(scope) = - LedgerOf(book, CellsOf(scope), "sales") - SumFunctionOnSet(icTrade, between)
      /\ NetExpenses(scope) = LedgerOf(book, CellsOf(scope), "expense") - SumFunctionOnSet(icTrade, between)
  BY <1>5, <1>6, RevenueIsSales DEF NetRevenue, NetExpenses, Eliminations
<1>8. /\ LedgerOf(book, CellsOf(scope), "sales")
           = SumFunctionOnSet(undone, out) - SumFunctionOnSet(sold, scope) - SumFunctionOnSet(icTrade, out)
      /\ LedgerOf(book, CellsOf(scope), "expense") = SumFunctionOnSet(bought, scope) + SumFunctionOnSet(icTrade, in)
  BY <1>5 DEF Accounted
<1>9. SumFunctionOnSet(undone, between) = 0
  OBVIOUS
<1> HIDE DEF T, out, in, between, sales, costs
<1>10. /\ SumFunctionOnSet(icTrade, out) = SumFunctionOnSet(icTrade, between) + SumFunctionOnSet(icTrade, sales)
       /\ SumFunctionOnSet(icTrade, in) = SumFunctionOnSet(icTrade, between) + SumFunctionOnSet(icTrade, costs)
       /\ SumFunctionOnSet(undone, out) = SumFunctionOnSet(undone, between) + SumFunctionOnSet(undone, sales)
  <2>1. /\ SumSplits(icTrade, out, between, sales) /\ SumSplits(undone, out, between, sales)
        /\ SumSplits(icTrade, in, between, costs)
    BY <1>1, <1>2, <1>3, SumOnSetSplit
  <2> QED BY <2>1 DEF SumSplits
<1>11. /\ NetRevenue(scope) = SumFunctionOnSet(sold, scope) + SumFunctionOnSet(icTrade, sales)
                              - SumFunctionOnSet(undone, sales)
       /\ NetExpenses(scope) = SumFunctionOnSet(bought, scope) + SumFunctionOnSet(icTrade, costs)
  BY <1>4, <1>7, <1>8, <1>9, <1>10
<1> QED BY <1>11 DEF sales, costs

(* So the reports agree. *)
LEMMA BooksAgree == BooksInv => ReportsAgree
<1> SUFFICES ASSUME BooksInv PROVE ReportsAgree
  OBVIOUS
<1>1. Ledger(book)
  BY DEF BooksInv
<1> QED BY <1>1, CompanyAgrees, GroupAgrees DEF ReportsAgree

(* Only the books' desk writes in the books. *)
LEMMA BooksInductive == BooksInv /\ [Next]_vars => BooksInv'
<1> SUFFICES ASSUME BooksInv, [Next]_vars PROVE BooksInv'
  OBVIOUS
<1>1. CASE UNCHANGED books
  BY <1>1 DEF books, BooksInv, Ledger, BooksTyped, Accounted, LedgerOf
<1>2. CASE desk = "books" /\ Next
  <2>1. NextBooks
    BY <1>2, OneDesk
  <2>2. CASE \E cell \in Cells, lines \in Journals : Reporting /\ PostEntry(cell, lines)
    BY <2>2, PostEntryKeeps
  <2>3. CASE \E t, u \in Companies, day \in 1 .. LastEntryDay, s, r \in Sites \ {NoSite} :
               Reporting /\ IntercompanySale(t, u, day, s, r)
    BY <2>3, IntercompanySaleKeeps
  <2>4. CASE \E t, u \in Companies, day \in 1 .. LastEntryDay : Reporting /\ UndoIntercompanySale(t, u, day)
    BY <2>4, UndoKeeps
  <2> QED BY <2>1, <2>2, <2>3, <2>4 DEF NextBooks
<1>3. UNCHANGED vars => UNCHANGED books
  BY DEF vars
<1> QED BY <1>1, <1>2, <1>3, OtherTables

(* Trial balance, balance sheet, profit and cash flow agree for every company, date and
   choice of sites, and a consolidation leaves what the scope traded with others
   (services/reports.py, services/intercompany.py). *)
THEOREM ReportsStayInAgreement == Spec => []ReportsAgree
<1>1. Init => BooksInv
  BY BooksBegin DEF Init
<1> QED BY <1>1, BooksInductive, BooksAgree, PTL DEF Spec
-----------------------------------------------------------------------------
(* Mailed reports.  The next time is worked out from the day, the week or the month of now,
   by quotients and remainders; it is the first of the cadence after now.  While deliveries
   come one at a time and all reach their end, what a process read of an export it has yet
   to serve is still so, and the last time served lies before the next one, except between
   the mail and the outcome. *)

(* Quotient and remainder ... *)
LEMMA DivMod ==
  ASSUME NEW n \in Int, NEW d \in Nat \ {0}
  PROVE  n \div d \in Int /\ n % d \in 0 .. d - 1 /\ n = d * (n \div d) + (n % d)
OBVIOUS

(* A product with a positive number is as far from 0 as the number is. *)
LEMMA AtLeastOnce ==
  ASSUME NEW d \in Nat \ {0}, NEW k \in Int
  PROVE  d * k \in Int /\ (k >= 1 => d * k >= d) /\ (k <= -1 => d * k <= -d)
OBVIOUS

(* ... are the only such numbers. *)
LEMMA DivModOnly ==
  ASSUME NEW n \in Int, NEW d \in Nat \ {0}, NEW q \in Int, NEW r \in 0 .. d - 1, n = d * q + r
  PROVE  n \div d = q /\ n % d = r
<1> DEFINE p == n \div d
           s == n % d
<1>1. p \in Int /\ s \in 0 .. d - 1 /\ n = d * p + s
  BY DivMod
<1> HIDE DEF p, s
<1>2. d * (p - q) = d * p - d * q
  BY <1>1
<1>3. d * p \in Int /\ d * q \in Int
  BY <1>1
<1>4. d * (p - q) = r - s
  BY <1>1, <1>2, <1>3
<1>5. p - q \in Int /\ r - s < d /\ r - s > -d
  BY <1>1
<1>6. p - q = 0
  BY <1>4, <1>5, AtLeastOnce
<1>7. p = q
  BY <1>1, <1>6
<1> QED BY <1>1, <1>3, <1>7 DEF p, s

(* Of two numbers with one remainder the greater is greater by the divisor. *)
LEMMA WholeCycles ==
  ASSUME NEW d \in Nat \ {0}, NEW a \in Int, NEW b \in Int, a % d = b % d, a < b
  PROVE  a <= b - d
<1>1. /\ a \div d \in Int /\ b \div d \in Int /\ a % d \in Int
      /\ a = d * (a \div d) + (a % d) /\ b = d * (b \div d) + (a % d)
  BY DivMod
<1> DEFINE p == a \div d
           q == b \div d
           r == a % d
<1> HIDE DEF p, q, r
<1>2. p \in Int /\ q \in Int /\ r \in Int /\ a = d * p + r /\ b = d * q + r
  BY <1>1 DEF p, q, r
<1>3. d * (q - p) = d * q - d * p /\ d * p \in Int /\ d * q \in Int
  BY <1>2
<1>4. d * (q - p) = b - a
  BY <1>2, <1>3
<1>5. q - p \in Int
  BY <1>2
<1>6. q - p >= 1
  BY <1>4, <1>5, AtLeastOnce
<1> QED BY <1>4, <1>5, <1>6, AtLeastOnce

(* The times a cadence comes round: at a time of the day, every so many days. *)
ComesRound(T, P, at, f, t) == t % T = at /\ (t \div T) % P = f

(* c is such a day, at most a cycle off; t is the first such time after now. *)
InCycle(T, P, f, now, c) ==
  c \in Int /\ c % P = f /\ c <= now \div T + P - 1 /\ c >= now \div T - P + 1
FirstAfter(T, P, at, f, now, t) ==
  /\ t \in Int /\ t > now /\ ComesRound(T, P, at, f, t)
  /\ \A u \in Int : now < u /\ u < t => ~ ComesRound(T, P, at, f, u)
Advanced(T, P, at, now, c) == IF c * T + at <= now THEN c * T + at + T * P ELSE c * T + at

(* The next of them is the candidate of this cycle, or the one after when that has passed. *)
LEMMA NextRound ==
  ASSUME NEW T \in Nat \ {0}, NEW P \in Nat \ {0}, NEW at \in 0 .. T - 1, NEW f,
         NEW now \in Int, NEW c, InCycle(T, P, f, now, c)
  PROVE  FirstAfter(T, P, at, f, now, Advanced(T, P, at, now, c))
<1> DEFINE n == Advanced(T, P, at, now, c)
<1>0. /\ c \in Int /\ c % P = f /\ c <= now \div T + P - 1 /\ c >= now \div T - P + 1
      /\ n = IF c * T + at <= now THEN c * T + at + T * P ELSE c * T + at
  BY DEF InCycle, Advanced
<1> HIDE DEF n
<1> DEFINE thisDay == now \div T
           e == IF c * T + at <= now THEN c + P ELSE c
           rest == now % T
<1>1. thisDay \in Int /\ rest \in 0 .. T - 1 /\ now = T * thisDay + rest
  BY DivMod
<1> HIDE DEF thisDay, rest
<1>begin. T * thisDay \in Int
  BY <1>1
<1>2. T * thisDay <= now /\ now < T * thisDay + T
  BY <1>1, <1>begin
<1>3. c \in Int /\ c <= thisDay + P - 1 /\ c >= thisDay - P + 1
  BY <1>0 DEF thisDay
<1>4. e \in Int /\ T * e \in Int /\ T * c \in Int /\ T * P \in Int /\ c * T = T * c
  BY <1>3
<1>5. T * (c + P) = T * c + T * P
  BY <1>3
<1>6. n = T * e + at
  BY <1>0, <1>4, <1>5
<1>7. n \in Int /\ n % T = at /\ n \div T = e
  <2>1. n \in Int
    BY <1>4, <1>6
  <2> HIDE DEF e
  <2> QED BY <1>4, <1>6, <2>1, DivModOnly
<1>8. e % P = f
  <2> DEFINE k == c \div P
  <2>1. k \in Int /\ f \in 0 .. P - 1 /\ c = P * k + f
    BY <1>0, DivMod
  <2> HIDE DEF k
  <2>2. P * (k + 1) = P * k + P /\ P * k \in Int
    BY <2>1
  <2>3. c + P = P * (k + 1) + f /\ c + P \in Int /\ k + 1 \in Int
    BY <1>0, <2>1, <2>2
  <2>4. (c + P) % P = f
    BY <2>1, <2>3, DivModOnly
  <2> QED BY <1>0, <2>4
<1>9. ComesRound(T, P, at, f, n)
  BY <1>7, <1>8 DEF ComesRound
<1>10. T * (thisDay + 1) = T * thisDay + T /\ T * (thisDay - 1) = T * thisDay - T
  BY <1>1
<1>11. ASSUME NEW x \in Int, NEW y \in Int, x <= y
       PROVE  T * x <= T * y /\ T * x \in Int /\ T * y \in Int
  <2>1. y - x \in Nat
    BY <1>11
  <2>2. T * (y - x) = T * y - T * x /\ T * x \in Int /\ T * y \in Int
    OBVIOUS
  <2>3. T * (y - x) >= 0
    BY <2>1
  <2> QED BY <2>2, <2>3
<1>12. n > now
  <2>1. CASE c * T + at <= now
    <3>1. e = c + P /\ thisDay + 1 <= e
      BY <1>1, <1>3, <2>1
    <3>2. T * (thisDay + 1) <= T * e
      BY <1>1, <1>4, <1>11, <3>1
    <3> HIDE DEF e
    <3> QED BY <1>2, <1>1, <1>begin, <1>4, <1>6, <1>10, <3>2
  <2>2. CASE ~ (c * T + at <= now)
    BY <1>0, <1>4, <2>2
  <2> QED BY <2>1, <2>2
<1>13. ASSUME NEW t \in Int, now < t, t < n, ComesRound(T, P, at, f, t) PROVE FALSE
  <2> DEFINE d == t \div T
  <2>1. d \in Int /\ t = T * d + at /\ d % P = f
    BY <1>13, DivMod DEF ComesRound
  <2> HIDE DEF d, e
  <2>2. d < e
    <3> SUFFICES ASSUME e <= d PROVE FALSE
      BY <1>4, <2>1
    <3>1. T * e <= T * d /\ T * d \in Int
      BY <1>4, <1>11, <2>1
    <3> QED BY <1>4, <1>6, <1>13, <2>1, <3>1
  <2>3. d <= e - P
    BY <1>4, <1>8, <2>1, <2>2, WholeCycles
  <2>4. CASE c * T + at <= now
    <3>1. e = c + P
      BY <2>4 DEF e
    <3>2. d <= c
      BY <1>3, <2>1, <2>3, <3>1
    <3>3. T * d <= T * c
      BY <1>3, <2>1, <3>2, <1>11
    <3> QED BY <1>4, <1>13, <2>1, <2>4, <3>3
  <2>5. CASE ~ (c * T + at <= now)
    <3>1. e = c
      BY <2>5 DEF e
    <3>2. d <= thisDay - 1
      BY <1>1, <1>3, <2>1, <2>3, <3>1
    <3>3. T * d <= T * (thisDay - 1) /\ T * d \in Int
      BY <1>1, <2>1, <3>2, <1>11
    <3> QED BY <1>2, <1>1, <1>begin, <1>10, <1>13, <2>1, <3>3
  <2> QED BY <2>4, <2>5
<1> QED BY <1>7, <1>9, <1>12, <1>13 DEF FirstAfter, n

(* The days of a cadence, and which of them it is. *)
Span(cad) == IF cad.freq = "DAILY" THEN 1 ELSE IF cad.freq = "WEEKLY" THEN DaysPerWeek ELSE DaysPerMonth
Turn(cad) == IF cad.freq = "DAILY" THEN 0 ELSE IF cad.freq = "WEEKLY" THEN cad.day % DaysPerWeek
              ELSE Min({cad.day, ShortestMonth - 1})

(* The parts of a cadence are numbers of the clock. *)
LEMMA CadenceFacts ==
  ASSUME NEW cad \in Cadences
  PROVE  /\ cad.freq \in {"DAILY", "WEEKLY", "MONTHLY"} /\ cad.day \in Nat /\ cad.at \in 0 .. TicksPerDay - 1
         /\ TicksPerDay \in Nat \ {0} /\ DaysPerWeek \in Nat \ {0} /\ DaysPerMonth \in Nat \ {0}
         /\ Span(cad) \in Nat \ {0}
         /\ Min({cad.day, ShortestMonth - 1}) \in 0 .. DaysPerMonth - 1
<1>1. /\ cad \in [freq : {"DAILY", "WEEKLY", "MONTHLY"}, day : Nat, at : 0 .. TicksPerDay - 1]
      /\ TicksPerDay \in Nat \ {0} /\ DaysPerWeek \in Nat \ {0} /\ DaysPerMonth \in Nat \ {0}
      /\ ShortestMonth \in Nat \ {0} /\ ShortestMonth <= DaysPerMonth
  BY ReportExportsAssumption
<1>2. cad.freq \in {"DAILY", "WEEKLY", "MONTHLY"} /\ cad.day \in Nat /\ cad.at \in 0 .. TicksPerDay - 1
  BY <1>1
<1>3. Span(cad) \in Nat \ {0}
  BY <1>1 DEF Span
<1>4. Min({cad.day, ShortestMonth - 1}) \in 0 .. DaysPerMonth - 1
  <2> DEFINE a == cad.day
             b == ShortestMonth - 1
             least == IF a <= b THEN a ELSE b
  <2>1. a \in Nat /\ b \in 0 .. DaysPerMonth - 1
    BY <1>1, <1>2
  <2> HIDE DEF a, b
  <2>2. Min({a, b}) = CHOOSE x \in {a, b} : \A y \in {a, b} : x <= y
    BY DEF Min
  <2>3. least \in {a, b} /\ \A y \in {a, b} : least <= y
    BY <2>1
  <2>4. \A x \in {a, b} : (\A y \in {a, b} : x <= y) => x = least
    BY <2>1
  <2>5. Min({a, b}) = least
    BY <2>2, <2>3, <2>4
  <2>6. Min({a, b}) \in 0 .. DaysPerMonth - 1
    BY <1>1, <2>1, <2>5
  <2> QED BY <2>6 DEF a, b
<1> QED BY <1>1, <1>2, <1>3, <1>4

(* A cadence comes round every Span days. *)
LEMMA OnCadenceIs ==
  ASSUME NEW cad \in Cadences, NEW t \in Int
  PROVE  OnCadence(cad, t) <=> ComesRound(TicksPerDay, Span(cad), cad.at, Turn(cad), t)
<1>1. cad.freq \in {"DAILY", "WEEKLY", "MONTHLY"} /\ t \div TicksPerDay \in Int
  BY CadenceFacts, DivMod
<1>2. (t \div TicksPerDay) % 1 = 0
  BY <1>1
<1> QED BY <1>1, <1>2 DEF OnCadence, ComesRound, Span, Turn

(* compute_next_run gives the first time of the cadence after now. *)
LEMMA NextRunIsNext ==
  ASSUME NEW cad \in Cadences, NEW now \in Int
  PROVE  /\ NextRun(cad, now) \in Int /\ NextRun(cad, now) > now /\ OnCadence(cad, NextRun(cad, now))
         /\ \A t \in Int : now < t /\ t < NextRun(cad, now) => ~ OnCadence(cad, t)
<1> DEFINE T == TicksPerDay
           P == Span(cad)
           f == Turn(cad)
           thisDay == now \div T
           c == CASE cad.freq = "DAILY"   -> thisDay
                  [] cad.freq = "WEEKLY"  -> thisDay + ((cad.day - thisDay) % DaysPerWeek)
                  [] cad.freq = "MONTHLY" -> thisDay - (thisDay % DaysPerMonth) + Min({cad.day, ShortestMonth - 1})
           n == NextRun(cad, now)
<1>1. /\ cad.freq \in {"DAILY", "WEEKLY", "MONTHLY"} /\ cad.day \in Nat /\ cad.at \in 0 .. T - 1
      /\ T \in Nat \ {0} /\ DaysPerWeek \in Nat \ {0} /\ DaysPerMonth \in Nat \ {0} /\ P \in Nat \ {0}
      /\ Min({cad.day, ShortestMonth - 1}) \in 0 .. DaysPerMonth - 1
  BY CadenceFacts
<1>2. thisDay \in Int
  BY <1>1, DivMod
<1>3. Candidate(cad, now) = c * T + cad.at /\ Cycle(cad) = T * P
  <2>1. Candidate(cad, now) = c * T + cad.at
    BY DEF Candidate
  <2>2. Cycle(cad) = T * P
    BY <1>1 DEF Cycle, Span
  <2> QED BY <2>1, <2>2
<1>4. n = IF c * T + cad.at <= now THEN c * T + cad.at + T * P ELSE c * T + cad.at
  BY <1>3 DEF NextRun
<1>5. c \in Int /\ c % P = f /\ c <= thisDay + P - 1 /\ c >= thisDay - P + 1
  <2> HIDE DEF thisDay
  <2>1. CASE cad.freq = "DAILY"
    <3>1. c = thisDay /\ P = 1 /\ f = 0
      BY <2>1 DEF Span, Turn
    <3> HIDE DEF c, P, f
    <3> QED BY <1>2, <3>1
  <2>2. CASE cad.freq = "WEEKLY"
    <3> DEFINE r == (cad.day - thisDay) % DaysPerWeek
               q == (cad.day - thisDay) \div DaysPerWeek
               k == cad.day \div DaysPerWeek
    <3>1. c = thisDay + r /\ P = DaysPerWeek /\ f = cad.day % DaysPerWeek
      BY <2>2 DEF Span, Turn
    <3>days. cad.day - thisDay \in Int /\ cad.day \in Int
      BY <1>1, <1>2
    <3>2. r \in 0 .. P - 1 /\ q \in Int /\ cad.day - thisDay = P * q + r
      <4> DEFINE x == cad.day - thisDay
      <4>1. x \in Int /\ DaysPerWeek \in Nat \ {0}
        BY <1>1, <3>days
      <4> HIDE DEF x
      <4>2. x \div DaysPerWeek \in Int /\ x % DaysPerWeek \in 0 .. DaysPerWeek - 1
            /\ x = DaysPerWeek * (x \div DaysPerWeek) + (x % DaysPerWeek)
        BY <4>1, DivMod
      <4> QED BY <3>1, <4>2 DEF x
    <3>3. f \in 0 .. P - 1 /\ k \in Int /\ cad.day = P * k + f
      <4> DEFINE x == cad.day
      <4>1. x \in Int /\ DaysPerWeek \in Nat \ {0}
        BY <1>1, <3>days
      <4> HIDE DEF x
      <4>2. x \div DaysPerWeek \in Int /\ x % DaysPerWeek \in 0 .. DaysPerWeek - 1
            /\ x = DaysPerWeek * (x \div DaysPerWeek) + (x % DaysPerWeek)
        BY <4>1, DivMod
      <4> QED BY <3>1, <4>2 DEF x
    <3> HIDE DEF c, P, f, r, q, k
    <3>4. P * (k - q) = P * k - P * q /\ P * k \in Int /\ P * q \in Int
      BY <1>1, <3>2, <3>3
    <3>5. c \in Int /\ c = P * (k - q) + f /\ k - q \in Int
      BY <1>1, <1>2, <3>1, <3>2, <3>3, <3>4
    <3>6. c % P = f
      BY <1>1, <3>3, <3>5, DivModOnly
    <3> QED BY <1>1, <1>2, <3>1, <3>2, <3>5, <3>6
  <2>3. CASE cad.freq = "MONTHLY"
    <3> DEFINE r == thisDay % DaysPerMonth
               q == thisDay \div DaysPerMonth
    <3>1. c = thisDay - r + f /\ P = DaysPerMonth /\ f = Min({cad.day, ShortestMonth - 1})
      BY <2>3 DEF Span, Turn
    <3>2. r \in 0 .. P - 1 /\ q \in Int /\ thisDay = P * q + r
      BY <1>1, <1>2, <3>1, DivMod
    <3>3. f \in 0 .. P - 1
      BY <1>1, <3>1
    <3> HIDE DEF c, P, f, r, q
    <3>4. P * q \in Int
      BY <1>1, <3>2
    <3>5. c \in Int /\ c = P * q + f
      BY <1>1, <1>2, <3>1, <3>2, <3>3, <3>4
    <3>6. c % P = f
      BY <1>1, <3>2, <3>3, <3>5, DivModOnly
    <3> QED BY <1>1, <1>2, <3>1, <3>2, <3>3, <3>5, <3>6
  <2> QED BY <1>1, <2>1, <2>2, <2>3
<1> HIDE DEF c, n, P, f
<1>6. FirstAfter(T, P, cad.at, f, now, n)
  <2>1. InCycle(T, P, f, now, c)
    BY <1>5 DEF InCycle
  <2>2. n = Advanced(T, P, cad.at, now, c)
    BY <1>4 DEF Advanced
  <2> HIDE DEF T, thisDay
  <2> QED BY <1>1, <2>1, <2>2, NextRound
<1>7. \A t \in Int : OnCadence(cad, t) <=> ComesRound(T, P, cad.at, f, t)
  BY OnCadenceIs DEF P, f
<1> QED BY <1>6, <1>7 DEF n, FirstAfter

-----------------------------------------------------------------------------
(* What a process may know of the exports it delivers. *)
Deliveries == UNION {DeliveryOf(D) : D \in SUBSET Exports}

(* An export whose mail went out and whose outcome is not saved yet. *)
Mailed(x) == \E c \in Clients : req[c] # Idle /\ req[c].sent /\ x = Current(c)

(* What a process reads is still so. *)
DeliveryOK(c) ==
  LET r == req[c]
  IN  /\ r \in Deliveries /\ r.todo # {} /\ r.todo \subseteq Exports /\ r.todo \subseteq DOMAIN r.rows /\ r.at <= clock
      /\ \A x \in r.todo : Planned(x) /\ r.rows[x].cad = exports[x].cad /\ r.rows[x].next = exports[x].next
      /\ r.sent => served[Current(c)] <= r.at

KeptExports ==
  /\ clock \in Int /\ again = {} /\ exports = [x \in Exports |-> exports[x]]
  /\ since \in [Exports -> Int] /\ served \in [Exports -> Int]
  /\ \A x \in Exports :
       /\ served[x] <= clock
       /\ Planned(x) => exports[x] \in ExportRow /\ exports[x].next = NextRun(exports[x].cad, since[x])
       /\ Planned(x) /\ ~ Mailed(x) => served[x] < exports[x].next
  /\ \A c \in Clients : req[c] # Idle => DeliveryOK(c)

ExportsInv ==
  IF desk = "exports" THEN RequestsOK /\ stops \in Nat /\ (calm /\ stops = 0 => KeptExports)
  ELSE InitReporting

(* The form gives an export its next time after now; nobody is delivering. *)
LEMMA SaveExportKeeps ==
  ASSUME KeptExports, AllIdle, NEW x \in Exports, NEW cad \in Cadences, NEW active \in BOOLEAN,
         SaveExport(x, cad, active), UNCHANGED <<clock, served, again, req>>
  PROVE  KeptExports'
<1> DEFINE row == [cad |-> cad, active |-> active, status |-> IF Planned(x) THEN exports[x].status ELSE "NEVER_RUN",
                   next |-> NextRun(cad, clock)]
<1>1. /\ clock \in Int /\ exports = [y \in Exports |-> exports[y]]
      /\ since \in [Exports -> Int] /\ served \in [Exports -> Int]
  BY DEF KeptExports
<1>2. exports'[x] = row /\ exports' = [y \in Exports |-> exports'[y]]
      /\ \A y \in Exports \ {x} : exports'[y] = exports[y]
  BY <1>1 DEF SaveExport
<1>3. since' \in [Exports -> Int] /\ since'[x] = clock /\ \A y \in Exports \ {x} : since'[y] = since[y]
  BY <1>1 DEF SaveExport
<1>4. NextRun(cad, clock) \in Int /\ NextRun(cad, clock) > clock
  BY <1>1, NextRunIsNext
<1>5. row \in ExportRow /\ row.cad = cad /\ row.next = NextRun(cad, clock)
  BY <1>4 DEF ExportRow, KeptExports
<1> HIDE DEF row
<1>6. \A y \in Exports :
        /\ served'[y] <= clock'
        /\ Planned(y)' => exports'[y] \in ExportRow /\ exports'[y].next = NextRun(exports'[y].cad, since'[y])
        /\ Planned(y)' => served'[y] < exports'[y].next
  <2>1. served[x] <= clock /\ served[x] \in Int
    BY <1>1 DEF KeptExports
  <2>2. served[x] < row.next
    BY <1>1, <1>4, <1>5, <2>1
  <2>3. \A y \in Exports \ {x} : ~ Mailed(y)
    BY DEF Mailed, AllIdle
  <2> QED BY <1>2, <1>3, <1>5, <2>1, <2>2, <2>3 DEF KeptExports, Planned
<1>7. \A c \in Clients : req'[c] = Idle
  BY DEF AllIdle
<1> QED BY <1>1, <1>2, <1>3, <1>6, <1>7 DEF KeptExports

(* Nor when an export is deleted. *)
LEMMA DeleteExportKeeps ==
  ASSUME KeptExports, AllIdle, NEW x \in Exports, DeleteExport(x)
  PROVE  KeptExports'
<1>1. /\ exports = [y \in Exports |-> exports[y]]
      /\ UNCHANGED <<clock, served, again, since, req>> /\ exports' = [exports EXCEPT ![x] = NoExport]
  BY DEF KeptExports, DeleteExport
<1>2. /\ exports'[x] = NoExport /\ exports' = [y \in Exports |-> exports'[y]]
      /\ \A y \in Exports \ {x} : exports'[y] = exports[y]
  BY <1>1
<1>3. \A y \in Exports : Planned(y)' => Planned(y) /\ exports'[y] = exports[y]
  BY <1>2 DEF Planned
<1>4. \A y \in Exports : ~ Mailed(y)
  BY DEF Mailed, AllIdle
<1>5. \A c \in Clients : req'[c] = Idle
  BY <1>1 DEF AllIdle
<1> QED BY <1>1, <1>2, <1>3, <1>4, <1>5 DEF KeptExports

(* A batch, or one export, is read. *)
LEMMA DeliveryLoads ==
  ASSUME KeptExports, AllIdle, NEW c \in Clients, NEW S \in SUBSET Exports, S # {},
         \A x \in S : Planned(x), req = [d \in Clients |-> req[d]],
         req' = [req EXCEPT ![c] = [rows |-> [x \in S |-> exports[x]], todo |-> S, sent |-> FALSE, at |-> clock]],
         UNCHANGED reporting
  PROVE  KeptExports'
<1> DEFINE r == [rows |-> [x \in S |-> exports[x]], todo |-> S, sent |-> FALSE, at |-> clock]
<1>1. req'[c] = r /\ \A d \in Clients \ {c} : req'[d] = Idle
  BY DEF AllIdle
<1>2. UNCHANGED <<clock, served, again, since, exports>>
  BY DEF reporting
<1>3. r \in Deliveries
  <2>1. [x \in S |-> exports[x]] \in [S -> ExportRow] /\ clock \in Int
    BY DEF KeptExports
  <2>2. r \in [rows : [S -> ExportRow], todo : SUBSET S, sent : BOOLEAN, at : Int]
    BY <2>1
  <2> QED BY <2>2 DEF Deliveries, DeliveryOf
<1>4. /\ r.todo = S /\ DOMAIN r.rows = S /\ r.at = clock /\ r.sent = FALSE
      /\ \A x \in S : r.rows[x] = exports[x]
  OBVIOUS
<1> HIDE DEF r
<1>5. DeliveryOK(c)'
  <2>1. clock \in Int
    BY DEF KeptExports
  <2>2. /\ req'[c] \in Deliveries /\ req'[c].todo = S /\ DOMAIN req'[c].rows = S
        /\ req'[c].at <= clock' /\ ~ req'[c].sent
    <3>1. r.at <= clock /\ ~ r.sent
      BY <1>4, <2>1
    <3>2. clock' = clock
      BY <1>2
    <3> QED BY <1>1, <1>3, <1>4, <3>1, <3>2
  <2>3. \A x \in S : exports'[x] # NoExport /\ req'[c].rows[x] = exports'[x]
    BY <1>1, <1>2, <1>4 DEF Planned
  <2> QED BY <2>2, <2>3 DEF DeliveryOK, Planned
<1>6. \A x \in Exports : ~ Mailed(x)
  BY DEF Mailed, AllIdle
<1>7. \A x \in Exports : Planned(x)' <=> Planned(x)
  BY <1>2 DEF Planned
<1> QED BY <1>1, <1>2, <1>5, <1>6, <1>7 DEF KeptExports

(* The parts of what a process knows. *)
LEMMA DeliveryFacts ==
  ASSUME NEW r \in Deliveries
  PROVE  /\ r = [rows |-> r.rows, todo |-> r.todo, sent |-> r.sent, at |-> r.at]
         /\ DOMAIN r.rows \in SUBSET Exports /\ r.rows \in [DOMAIN r.rows -> ExportRow]
         /\ r.todo \in SUBSET DOMAIN r.rows /\ r.sent \in BOOLEAN /\ r.at \in Int
<1>1. PICK D \in SUBSET Exports : r \in [rows : [D -> ExportRow], todo : SUBSET D, sent : BOOLEAN, at : Int]
  BY DEF Deliveries, DeliveryOf
<1>2. r.rows \in [D -> ExportRow] /\ r.todo \in SUBSET D /\ r.sent \in BOOLEAN /\ r.at \in Int
  BY <1>1
<1>3. DOMAIN r.rows = D
  BY <1>2
<1>4. r = [rows |-> r.rows, todo |-> r.todo, sent |-> r.sent, at |-> r.at]
  BY <1>1
<1> QED BY <1>2, <1>3, <1>4

(* What is left of a delivery when one mail is done. *)
LEMMA DeliveryGoesOn ==
  ASSUME NEW r \in Deliveries, NEW S \in SUBSET DOMAIN r.rows
  PROVE  LET n == [r EXCEPT !.todo = S, !.sent = FALSE]
         IN  n \in Deliveries /\ n.rows = r.rows /\ n.todo = S /\ n.sent = FALSE /\ n.at = r.at
<1> DEFINE n == [r EXCEPT !.todo = S, !.sent = FALSE]
<1>1. PICK D \in SUBSET Exports : r \in [rows : [D -> ExportRow], todo : SUBSET D, sent : BOOLEAN, at : Int]
  BY DEF Deliveries, DeliveryOf
<1>2. DOMAIN r.rows = D
  BY <1>1
<1>3. n \in [rows : [D -> ExportRow], todo : SUBSET D, sent : BOOLEAN, at : Int]
  BY <1>1, <1>2
<1>4. n.rows = r.rows /\ n.todo = S /\ n.sent = FALSE /\ n.at = r.at
  BY <1>1
<1> HIDE DEF n
<1>5. n \in Deliveries
  BY <1>3 DEF Deliveries, DeliveryOf
<1> QED BY <1>4, <1>5 DEF n

(* The mail goes out: the time it is for is served, and was not before. *)
LEMMA SendKeeps ==
  ASSUME KeptExports, Alone, NEW c \in Clients, Send(c, FALSE), req = [d \in Clients |-> req[d]]
  PROVE  KeptExports'
<1> DEFINE r == req[c]
           x == Current(c)
           n == [rows |-> [r.rows EXCEPT ![x] = [@ EXCEPT !.status = "SUCCESS"]], todo |-> r.todo,
                 sent |-> TRUE, at |-> clock]
           due == r.rows[x].next <= clock
<1>1. /\ r # Idle /\ ~ r.sent /\ DeliveryOK(c)
      /\ UNCHANGED <<exports, clock, since>>
      /\ served' = (IF due THEN [served EXCEPT ![x] = r.rows[x].next] ELSE served)
      /\ again' = (IF due /\ served[x] = r.rows[x].next THEN again \cup {x} ELSE again)
  BY DEF Send, KeptExports
<1>2. /\ r \in Deliveries /\ r.todo # {} /\ r.todo \subseteq Exports /\ r.todo \subseteq DOMAIN r.rows /\ r.at <= clock
      /\ \A y \in r.todo : Planned(y) /\ r.rows[y].cad = exports[y].cad /\ r.rows[y].next = exports[y].next
  BY <1>1 DEF DeliveryOK
<1>3. x \in r.todo /\ x \in Exports
  BY <1>2 DEF Current
<1>4. /\ r = [rows |-> r.rows, todo |-> r.todo, sent |-> r.sent, at |-> r.at]
      /\ DOMAIN r.rows \in SUBSET Exports /\ r.rows \in [DOMAIN r.rows -> ExportRow]
      /\ r.todo \in SUBSET DOMAIN r.rows
  BY <1>2, DeliveryFacts
<1>5. req'[c] = n /\ \A d \in Clients \ {c} : req'[d] = req[d]
  <2>1. req' = [req EXCEPT ![c].sent = TRUE, ![c].at = clock, ![c].rows[x].status = "SUCCESS"]
    BY DEF Send
  <2> HIDE DEF x
  <2> QED BY <1>4, <2>1
<1>6. clock \in Int /\ served \in [Exports -> Int] /\ exports = [y \in Exports |-> exports[y]]
      /\ since \in [Exports -> Int] /\ again = {}
  BY DEF KeptExports
<1>7. ASSUME NEW y \in r.todo
      PROVE  /\ n.rows[y] \in ExportRow
             /\ n.rows[y].cad = exports[y].cad /\ n.rows[y].next = exports[y].next
  <2>1. r.rows[y] \in ExportRow /\ n.rows[y] = IF y = x THEN [r.rows[y] EXCEPT !.status = "SUCCESS"] ELSE r.rows[y]
    BY <1>4
  <2>2. [r.rows[y] EXCEPT !.status = "SUCCESS"].cad = r.rows[y].cad
        /\ [r.rows[y] EXCEPT !.status = "SUCCESS"].next = r.rows[y].next
        /\ [r.rows[y] EXCEPT !.status = "SUCCESS"] \in ExportRow
    BY <2>1 DEF ExportRow
  <2> HIDE DEF n, x
  <2> QED BY <1>2, <2>1, <2>2
<1>8. n \in Deliveries /\ DOMAIN n.rows = DOMAIN r.rows /\ n.todo = r.todo /\ n.sent = TRUE /\ n.at = clock
  <2>1. [r.rows EXCEPT ![x] = [@ EXCEPT !.status = "SUCCESS"]] \in [DOMAIN r.rows -> ExportRow]
    <3>1. r.rows[x] \in ExportRow
      BY <1>3, <1>4
    <3>2. [r.rows[x] EXCEPT !.status = "SUCCESS"] \in ExportRow
      BY <3>1 DEF ExportRow
    <3> QED BY <1>4, <3>2
  <2>2. n \in [rows : [DOMAIN r.rows -> ExportRow], todo : SUBSET DOMAIN r.rows, sent : BOOLEAN, at : Int]
    BY <1>4, <1>6, <2>1
  <2>3. n \in Deliveries
    BY <1>4, <2>2 DEF Deliveries, DeliveryOf
  <2> QED BY <1>4, <2>3
<1>9. Current(c)' = x
  <2> HIDE DEF n
  <2> QED BY <1>5, <1>8 DEF Current
<1>10. n # Idle
  BY <1>8, DeliveryAssumption DEF Deliveries
<1>11. \A d \in Clients : d # c => req'[d] = Idle /\ req[d] = Idle
  BY <1>1, <1>5 DEF Alone
<1>12. \A y \in Exports : Mailed(y)' <=> y = x
  <2> HIDE DEF n, x, r
  <2> QED BY <1>5, <1>8, <1>9, <1>10, <1>11 DEF Mailed
<1>13. ~ Mailed(x)
  BY <1>1, <1>11 DEF Mailed
<1>14. served[x] < exports[x].next /\ r.rows[x].next = exports[x].next /\ exports[x].next \in Int
  <2>1. Planned(x) /\ r.rows[x].next = exports[x].next
    BY <1>2, <1>3
  <2>2. served[x] < exports[x].next /\ exports[x] \in ExportRow
    BY <1>3, <1>13, <2>1 DEF KeptExports
  <2> QED BY <2>1, <2>2 DEF ExportRow
<1> HIDE DEF n, x, r
<1>15. again' = {}
  <2>1. served[x] # exports[x].next
    BY <1>3, <1>6, <1>14
  <2> QED BY <1>1, <1>6, <1>14, <2>1
<1>16. served' \in [Exports -> Int] /\ \A y \in Exports : served'[y] <= clock
  BY <1>1, <1>3, <1>6, <1>14 DEF KeptExports
<1>17. \A y \in Exports : y # x => served'[y] = served[y] /\ ~ Mailed(y)
  BY <1>1, <1>6, <1>11 DEF Mailed, x, r
<1>18. ASSUME NEW y \in Exports
       PROVE  /\ served'[y] <= clock'
              /\ Planned(y)' => exports'[y] \in ExportRow /\ exports'[y].next = NextRun(exports'[y].cad, since'[y])
              /\ Planned(y)' /\ ~ Mailed(y)' => served'[y] < exports'[y].next
  BY <1>1, <1>12, <1>16, <1>17 DEF KeptExports, Planned
<1>19. DeliveryOK(c)'
  BY <1>1, <1>2, <1>3, <1>5, <1>7, <1>8, <1>9, <1>16, <1>6 DEF DeliveryOK, Planned
<1>20. \A d \in Clients : req'[d] # Idle => DeliveryOK(d)'
  BY <1>11, <1>19
<1> QED BY <1>1, <1>6, <1>15, <1>16, <1>18, <1>20 DEF KeptExports

(* The outcome is saved: the next time is after the mail that was sent. *)
LEMMA SaveOutcomeKeeps ==
  ASSUME KeptExports, Alone, NEW c \in Clients, SaveOutcome(c), req = [d \in Clients |-> req[d]]
  PROVE  KeptExports'
<1> DEFINE r == req[c]
           x == Current(c)
           row == r.rows[x]
           rest == r.todo \ {x}
           n == [r EXCEPT !.todo = rest, !.sent = FALSE]
<1>1. r # Idle /\ r.sent /\ DeliveryOK(c) /\ UNCHANGED <<clock, served, again>>
  BY DEF SaveOutcome, KeptExports
<1>2. /\ r \in Deliveries /\ r.todo # {} /\ r.todo \subseteq Exports /\ r.todo \subseteq DOMAIN r.rows /\ r.at <= clock
      /\ \A y \in r.todo : Planned(y) /\ r.rows[y].cad = exports[y].cad /\ r.rows[y].next = exports[y].next
      /\ served[x] <= r.at
  BY <1>1 DEF DeliveryOK
<1>3. x \in r.todo /\ x \in Exports
  BY <1>2 DEF Current
<1>4. Planned(x) /\ exports[x] \in ExportRow /\ row \in ExportRow /\ row.cad = exports[x].cad
  <2>1. Planned(x) /\ row.cad = exports[x].cad /\ exports[x] \in ExportRow
    BY <1>2, <1>3 DEF KeptExports
  <2>2. row \in ExportRow
    BY <1>2, <1>3, DeliveryFacts
  <2> QED BY <2>1, <2>2
<1>5. /\ r = [rows |-> r.rows, todo |-> r.todo, sent |-> r.sent, at |-> r.at]
      /\ DOMAIN r.rows \in SUBSET Exports /\ r.rows \in [DOMAIN r.rows -> ExportRow] /\ r.at \in Int
  BY <1>2, DeliveryFacts
<1>6. /\ exports' = [exports EXCEPT ![x].status = row.status, ![x].next = NextRun(row.cad, r.at)]
      /\ since' = [since EXCEPT ![x] = r.at]
      /\ req' = [req EXCEPT ![c] = IF rest = {} THEN Idle ELSE n]
  BY <1>4 DEF SaveOutcome
<1>7. clock \in Int /\ served \in [Exports -> Int] /\ exports = [y \in Exports |-> exports[y]]
      /\ since \in [Exports -> Int] /\ again = {}
  BY DEF KeptExports
<1>8. /\ req'[c] = (IF rest = {} THEN Idle ELSE n)
      /\ \A d \in Clients \ {c} : req'[d] = Idle /\ req[d] = Idle
  <2>1. \A d \in Clients \ {c} : req[d] = Idle
    BY <1>1 DEF Alone
  <2> HIDE DEF n, rest, r
  <2> QED BY <1>6, <2>1
<1>9. NextRun(row.cad, r.at) \in Int /\ NextRun(row.cad, r.at) > r.at
  <2>1. row.cad \in Cadences
    BY <1>4 DEF ExportRow
  <2> QED BY <1>5, <2>1, NextRunIsNext
<1>10. /\ exports' = [y \in Exports |-> exports'[y]]
       /\ exports'[x] = [exports[x] EXCEPT !.status = row.status, !.next = NextRun(row.cad, r.at)]
       /\ \A y \in Exports : y # x => exports'[y] = exports[y]
  <2> HIDE DEF x, row, r
  <2> QED BY <1>3, <1>6, <1>7
<1>11. /\ exports'[x] \in ExportRow /\ exports'[x].cad = exports[x].cad
       /\ exports'[x].next = NextRun(exports'[x].cad, r.at)
  <2> DEFINE e == exports[x]  t == NextRun(row.cad, r.at)
  <2>1. e \in ExportRow /\ row.status \in {"NEVER_RUN", "SUCCESS", "FAILED"} /\ t \in Int
    BY <1>4, <1>9 DEF ExportRow
  <2>2. exports'[x] = [e EXCEPT !.status = row.status, !.next = t]
    BY <1>10
  <2> HIDE DEF e, t, x, row, r
  <2>3. exports'[x] \in ExportRow /\ exports'[x].cad = e.cad /\ exports'[x].next = t
    BY <2>1, <2>2 DEF ExportRow
  <2> QED BY <1>4, <2>3 DEF e, t
<1> HIDE DEF n, x, row, rest
<1>12. since' \in [Exports -> Int] /\ since'[x] = r.at /\ \A y \in Exports : y # x => since'[y] = since[y]
  BY <1>3, <1>5, <1>6, <1>7
<1>13. \A y \in Exports : y # x => ~ Mailed(y)
  BY <1>8 DEF Mailed, x
<1>14. ASSUME NEW y \in Exports
       PROVE  /\ served'[y] <= clock'
              /\ Planned(y)' => exports'[y] \in ExportRow /\ exports'[y].next = NextRun(exports'[y].cad, since'[y])
              /\ Planned(y)' => served'[y] < exports'[y].next
  <2>1. CASE y = x
    <3>1. served[x] <= clock /\ served[x] < NextRun(row.cad, r.at)
      BY <1>2, <1>3, <1>5, <1>7, <1>9 DEF KeptExports, x
    <3>2. exports'[x].next = NextRun(row.cad, r.at)
      BY <1>4, <1>11
    <3> QED BY <1>1, <1>11, <1>12, <2>1, <3>1, <3>2
  <2>2. CASE y # x
    BY <1>1, <1>10, <1>12, <1>13, <2>2 DEF KeptExports, Planned
  <2> QED BY <2>1, <2>2
<1>15. ASSUME rest # {} PROVE DeliveryOK(c)'
  <2>1. rest \in SUBSET DOMAIN r.rows
    BY <1>2 DEF rest
  <2>2. n \in Deliveries /\ n.todo = rest /\ n.rows = r.rows /\ n.sent = FALSE /\ n.at = r.at
    BY <1>2, <2>1, DeliveryGoesOn, ZenonT(60) DEF n
  <2>5. \A y \in rest : y \in r.todo /\ y # x /\ y \in Exports
    BY <1>2 DEF rest
  <2>6. \A y \in rest : exports'[y] # NoExport /\ r.rows[y].cad = exports'[y].cad /\ r.rows[y].next = exports'[y].next
    BY <1>2, <1>10, <2>5 DEF Planned
  <2>7. req'[c] = n
    BY <1>8, <1>15
  <2>8. /\ req'[c] \in Deliveries /\ req'[c].todo = rest /\ req'[c].rows = r.rows /\ ~ req'[c].sent
        /\ req'[c].at <= clock' /\ rest \subseteq DOMAIN r.rows /\ rest \subseteq Exports
    BY <1>1, <1>2, <2>2, <2>5, <2>7
  <2> HIDE DEF r
  <2> QED BY <1>15, <2>6, <2>8 DEF DeliveryOK, Planned
<1>16. \A d \in Clients : req'[d] # Idle => DeliveryOK(d)'
  BY <1>8, <1>15
<1> QED BY <1>1, <1>7, <1>10, <1>12, <1>14, <1>16 DEF KeptExports

(* One of the exports is saved or deleted, or a process starts to deliver. *)
LEMMA ExportRequestKeeps ==
  ASSUME RequestsOK, stops \in Nat, calm /\ stops = 0 => KeptExports, NEW x \in Exports,
         \/ \E cad \in Cadences : CreateExport(x, cad)
         \/ \E cad \in Cadences, active \in BOOLEAN : EditExport(x, cad, active)
         \/ DeleteExport(x)
  PROVE  RequestsOK' /\ stops' \in Nat /\ (calm' /\ stops' = 0 => KeptExports')
<1>1. Start /\ UNCHANGED <<req, stops>>
  BY DEF CreateExport, EditExport, DeleteExport
<1>2. RequestsOK' /\ (calm' => calm /\ AllIdle)
  BY <1>1, RequestRuns
<1>3. ASSUME calm', stops' = 0 PROVE KeptExports'
  <2>1. KeptExports /\ AllIdle
    BY <1>1, <1>2, <1>3
  <2>2. ASSUME NEW cad \in Cadences, CreateExport(x, cad) PROVE KeptExports'
    <3>1. SaveExport(x, cad, TRUE) /\ UNCHANGED <<clock, served, again, req>>
      BY <2>2 DEF CreateExport
    <3> QED BY <2>1, <3>1, SaveExportKeeps
  <2>3. ASSUME NEW cad \in Cadences, NEW active \in BOOLEAN, EditExport(x, cad, active) PROVE KeptExports'
    <3>1. SaveExport(x, cad, active) /\ UNCHANGED <<clock, served, again, req>>
      BY <2>3 DEF EditExport
    <3> QED BY <2>1, <3>1, SaveExportKeeps
  <2>4. ASSUME DeleteExport(x) PROVE KeptExports'
    BY <2>1, <2>4, DeleteExportKeeps
  <2> QED BY <2>2, <2>3, <2>4
<1> QED BY <1>1, <1>2, <1>3

(* A process reads what it is to deliver. *)
LEMMA ExportLoadKeeps ==
  ASSUME RequestsOK, stops \in Nat, calm /\ stops = 0 => KeptExports, NEW c \in Clients,
         LoadBatch(c) \/ \E x \in Exports : RunNow(c, x)
  PROVE  RequestsOK' /\ stops' \in Nat /\ (calm' /\ stops' = 0 => KeptExports')
<1>1. PICK S \in SUBSET Exports :
        /\ S # {} /\ \A x \in S : Planned(x)
        /\ req' = [req EXCEPT ![c] = [rows |-> [x \in S |-> exports[x]], todo |-> S, sent |-> FALSE, at |-> clock]]
  <2>1. CASE LoadBatch(c)
    <3>1. DueExports \in SUBSET Exports /\ DueExports # {} /\ \A x \in DueExports : Planned(x)
      BY <2>1 DEF LoadBatch, DueExports
    <3> QED BY <2>1, <3>1 DEF LoadBatch
  <2>2. ASSUME NEW x \in Exports, RunNow(c, x)
        PROVE  \E S \in SUBSET Exports :
                 /\ S # {} /\ \A y \in S : Planned(y)
                 /\ req' = [req EXCEPT ![c] = [rows |-> [y \in S |-> exports[y]], todo |-> S, sent |-> FALSE,
                                               at |-> clock]]
    BY <2>2 DEF RunNow
  <2> QED BY <2>1, <2>2
<1>2. req[c] = Idle /\ Start /\ UNCHANGED reporting
  BY DEF LoadBatch, RunNow
<1> DEFINE r == [rows |-> [x \in S |-> exports[x]], todo |-> S, sent |-> FALSE, at |-> clock]
<1>3. RequestsOK' /\ (calm' => calm /\ AllIdle)
  <2>1. req' = [req EXCEPT ![c] = r]
    BY <1>1
  <2> HIDE DEF r
  <2> QED BY <1>2, <2>1, RequestLoads
<1>4. stops' = stops
  BY <1>2 DEF reporting
<1>5. req = [d \in Clients |-> req[d]]
  BY DEF RequestsOK
<1>6. ASSUME calm', stops' = 0 PROVE KeptExports'
  <2>1. KeptExports /\ AllIdle
    BY <1>3, <1>4, <1>6
  <2> QED BY <1>1, <1>2, <1>5, <2>1, DeliveryLoads
<1> QED BY <1>3, <1>4, <1>6

(* A process sends a mail. *)
LEMMA ExportSendKeeps ==
  ASSUME RequestsOK, stops \in Nat, calm /\ stops = 0 => KeptExports, NEW c \in Clients, NEW fails \in BOOLEAN,
         Send(c, fails)
  PROVE  RequestsOK' /\ stops' \in Nat /\ (calm' /\ stops' = 0 => KeptExports')
<1>1. req[c] # Idle /\ UNCHANGED overlaps /\ stops' = (IF fails THEN stops + 1 ELSE stops)
  BY DEF Send
<1>2. req' = [d \in Clients |-> req'[d]] /\ \A d \in Clients \ {c} : req'[d] = req[d]
  <2> DEFINE a == [req EXCEPT ![c].sent = TRUE]
             b == [a EXCEPT ![c].at = clock]
             e == [b EXCEPT ![c].rows[Current(c)].status = IF fails THEN "FAILED" ELSE "SUCCESS"]
  <2>1. a = [d \in Clients |-> a[d]] /\ \A d \in Clients \ {c} : a[d] = req[d]
    BY DEF RequestsOK
  <2>2. b = [d \in Clients |-> b[d]] /\ \A d \in Clients \ {c} : b[d] = a[d]
    <3> HIDE DEF a
    <3> QED BY <2>1
  <2>3. e = [d \in Clients |-> e[d]] /\ \A d \in Clients \ {c} : e[d] = b[d]
    <3> HIDE DEF b
    <3> QED BY <2>2
  <2>4. req' = e
    BY DEF Send
  <2> HIDE DEF a, b, e
  <2> QED BY <2>1, <2>2, <2>3, <2>4
<1>3. RequestsOK' /\ (calm' => calm /\ Alone)
  BY <1>1, <1>2 DEF RequestsOK, Alone, calm
<1>4. req = [d \in Clients |-> req[d]]
  BY DEF RequestsOK
<1>5. stops' \in Nat /\ (stops' = 0 => stops = 0 /\ fails = FALSE)
  BY <1>1
<1>6. ASSUME calm', stops' = 0 PROVE KeptExports'
  BY <1>3, <1>4, <1>5, <1>6, SendKeeps
<1> QED BY <1>3, <1>5, <1>6

(* A process saves an outcome. *)
LEMMA ExportOutcomeKeeps ==
  ASSUME RequestsOK, stops \in Nat, calm /\ stops = 0 => KeptExports, NEW c \in Clients, SaveOutcome(c)
  PROVE  RequestsOK' /\ stops' \in Nat /\ (calm' /\ stops' = 0 => KeptExports')
<1>1. req[c] # Idle /\ UNCHANGED <<overlaps, stops>>
  BY DEF SaveOutcome
<1>2. PICK n : req' = [req EXCEPT ![c] = n]
  BY DEF SaveOutcome
<1>3. RequestsOK' /\ (calm' => calm /\ Alone)
  BY <1>1, <1>2 DEF RequestsOK, Alone, calm
<1>4. req = [d \in Clients |-> req[d]]
  BY DEF RequestsOK
<1> QED BY <1>1, <1>3, <1>4, SaveOutcomeKeeps

(* The clock goes on. *)
LEMMA TickKeepsExports ==
  ASSUME KeptExports, Tick
  PROVE  KeptExports'
<1>1. clock' = clock + 1 /\ UNCHANGED <<exports, served, again, since, req>> /\ clock \in Int
  BY DEF Tick, KeptExports
<1>2. \A x \in Exports : (Planned(x)' <=> Planned(x)) /\ (Mailed(x)' <=> Mailed(x))
  BY <1>1 DEF Planned, Mailed, Current
<1>3. ASSUME NEW c \in Clients, req'[c] # Idle PROVE DeliveryOK(c)'
  <2>1. DeliveryOK(c) /\ req' = req
    BY <1>1, <1>3 DEF KeptExports
  <2>2. req[c].at \in Int
    BY <2>1, DeliveryFacts DEF DeliveryOK
  <2> QED BY <1>1, <2>1, <2>2 DEF DeliveryOK, Planned, Current
<1>4. \A x \in Exports : served'[x] <= clock'
  BY <1>1 DEF KeptExports
<1> QED BY <1>1, <1>2, <1>3, <1>4 DEF KeptExports

(* Every step keeps it. *)
LEMMA ExportsInductive == ExportsInv /\ [Next]_vars => ExportsInv'
<1> SUFFICES ASSUME ExportsInv, [Next]_vars PROVE ExportsInv'
  OBVIOUS
<1>1. CASE UNCHANGED vars
  <2>1. UNCHANGED <<reporting, req, overlaps, desk>>
    BY <1>1 DEF vars
  <2>2. UNCHANGED <<exports, clock, served, again, since, stops>>
    BY <2>1 DEF reporting
  <2>3. (RequestsOK' <=> RequestsOK) /\ (InitReporting' <=> InitReporting) /\ (calm' <=> calm)
    BY <2>1, <2>2 DEF RequestsOK, Alone, calm, InitReporting
  <2>4. KeptExports' <=> KeptExports
    <3>1. \A c \in Clients : DeliveryOK(c)' <=> DeliveryOK(c)
      BY <2>1, <2>2 DEF DeliveryOK, Planned, Current
    <3>2. \A x \in Exports : (Mailed(x)' <=> Mailed(x)) /\ (Planned(x)' <=> Planned(x))
      BY <2>1, <2>2 DEF Mailed, Planned, Current
    <3> QED BY <2>1, <2>2, <3>1, <3>2 DEF KeptExports
  <2> QED BY <2>1, <2>2, <2>3, <2>4 DEF ExportsInv
<1>2. CASE Next /\ desk # "exports"
  <2>1. UNCHANGED reporting /\ desk' = desk
    BY <1>2, OtherTables, OneDesk
  <2> QED BY <1>2, <2>1 DEF ExportsInv, InitReporting, reporting
<1>3. CASE Next /\ desk = "exports"
  <2> DEFINE Goal == RequestsOK' /\ stops' \in Nat /\ (calm' /\ stops' = 0 => KeptExports')
  <2>1. NextExports /\ desk' = desk
    BY <1>3, OneDesk
  <2>2. RequestsOK /\ stops \in Nat /\ (calm /\ stops = 0 => KeptExports)
    BY <1>3 DEF ExportsInv
  <2> SUFFICES Goal
    BY <1>3, <2>1 DEF ExportsInv
  <2>3. ASSUME NEW x \in Exports, NEW cad \in Cadences, CreateExport(x, cad) PROVE Goal
    BY <2>2, <2>3, ExportRequestKeeps
  <2>4. ASSUME NEW x \in Exports, NEW cad \in Cadences, NEW active \in BOOLEAN, EditExport(x, cad, active)
        PROVE  Goal
    BY <2>2, <2>4, ExportRequestKeeps
  <2>5. ASSUME NEW x \in Exports, DeleteExport(x) PROVE Goal
    BY <2>2, <2>5, ExportRequestKeeps
  <2>6. ASSUME NEW c \in Clients, LoadBatch(c) PROVE Goal
    BY <2>2, <2>6, ExportLoadKeeps
  <2>7. ASSUME NEW c \in Clients, NEW x \in Exports, RunNow(c, x) PROVE Goal
    BY <2>2, <2>7, ExportLoadKeeps
  <2>8. ASSUME NEW c \in Clients, NEW fails \in BOOLEAN, Send(c, fails) PROVE Goal
    BY <2>2, <2>8, ExportSendKeeps
  <2>9. ASSUME NEW c \in Clients, SaveOutcome(c) PROVE Goal
    BY <2>2, <2>9, ExportOutcomeKeeps
  <2>10. ASSUME NEW c \in Clients, Stop(c) PROVE Goal
    <3>1. RequestsOK'
      BY <2>2, <2>10, RequestEnds DEF Stop
    <3>2. stops' \in Nat /\ stops' # 0
      BY <2>2, <2>10 DEF Stop
    <3> QED BY <3>1, <3>2
  <2>11. ASSUME Tick PROVE Goal
    <3>1. UNCHANGED <<req, overlaps, stops>>
      BY <2>11 DEF Tick
    <3>2. RequestsOK' /\ (calm' => calm)
      BY <2>2, <3>1 DEF RequestsOK, Alone, calm
    <3> QED BY <2>2, <2>11, <3>1, <3>2, TickKeepsExports
  <2> HIDE DEF Goal
  <2> QED BY <2>1, <2>3, <2>4, <2>5, <2>6, <2>7, <2>8, <2>9, <2>10, <2>11 DEF NextExports
<1> QED BY <1>1, <1>2, <1>3

(* There is no export to begin with. *)
LEMMA ExportsBegin == Init => ExportsInv
<1> SUFFICES ASSUME Init PROVE ExportsInv
  OBVIOUS
<1>1. InitReporting /\ RequestsOK /\ AllIdle
  BY RequestsBegin DEF Init
<1>2. KeptExports
  BY <1>1 DEF InitReporting, KeptExports, Planned, Never, AllIdle
<1> QED BY <1>1, <1>2 DEF ExportsInv, InitReporting

(* The next time is the first of the cadence after the export was last sent or saved. *)
LEMMA ExportsOnCadence == ExportsInv => ExportsKeepCadence
<1> SUFFICES ASSUME ExportsInv, calm, stops = 0
             PROVE  \A x \in Exports :
                      /\ x \notin again
                      /\ Planned(x) => LET row == exports[x]
                                       IN  /\ row.next > since[x] /\ OnCadence(row.cad, row.next)
                                           /\ \A t \in since[x] + 1 .. row.next - 1 : ~OnCadence(row.cad, t)
  BY DEF ExportsKeepCadence
<1>1. again = {}
  BY DEF ExportsInv, KeptExports, InitReporting
<1>2. ASSUME NEW x \in Exports, Planned(x)
      PROVE  LET row == exports[x]
             IN  /\ row.next > since[x] /\ OnCadence(row.cad, row.next)
                 /\ \A t \in since[x] + 1 .. row.next - 1 : ~OnCadence(row.cad, t)
  <2>1. exports[x] \in ExportRow /\ exports[x].next = NextRun(exports[x].cad, since[x]) /\ since[x] \in Int
    BY <1>2 DEF ExportsInv, KeptExports, InitReporting, Planned
  <2>2. exports[x].cad \in Cadences
    BY <2>1 DEF ExportRow
  <2> QED BY <2>1, <2>2, NextRunIsNext
<1> QED BY <1>1, <1>2

(* While requests do not overlap and no delivery fails, a due time is served once, and an
   export is next due at the first time of its cadence after it was last sent or saved. *)
THEOREM ExportsStayOnCadence == Spec => []ExportsKeepCadence
<1> QED BY ExportsBegin, ExportsInductive, ExportsOnCadence, PTL DEF Spec

-----------------------------------------------------------------------------
(* The planner.  A lapse is something ordered that the plan could not see or did not ask
   for; without one, what a place has and is getting is what the plan projects whenever
   something is ordered, and an order on top of that stays within the policy.  No request
   need be alone for it: an order of more than the plan now suggests is a lapse. *)

OrderTyped(o) ==
  /\ o \in [status : {"NONE", "REQ", "DRAFT", "OPEN", "PARTIAL", "DONE"}, for : Places \cup {Nowhere},
            at : Places \cup {Nowhere}, left : Nat]
  /\ o.status \in {"NONE", "DONE"} => o.left = 0

PlannerTyped ==
  /\ stock \in [Places -> [onhand : Int, reserved : Nat, transit : Nat]]
  /\ order = [i \in Slots |-> order[i]] /\ \A i \in Slots : OrderTyped(order[i])

(* What a request on a page of the plan carries. *)
PageTyped(r) ==
  \/ r.op = "plan" /\ r.ask \in [Places -> Int]
  \/ r.op = "reorder" /\ r.for \in Places /\ r.qty \in Nat
  \/ r.op = "low" /\ r.qty \in Nat
PagesTyped ==
  req = [c \in Clients |-> req[c]] /\ \A c \in Clients : req[c] # Idle => PageTyped(req[c])

PlannerInv ==
  IF desk = "planner" THEN PlannerTyped /\ PagesTyped /\ NotOverordered ELSE InitReplenishment

(* A policy is made of natural numbers, and so is where it puts the ceiling. *)
LEMMA PolicyTyped == ASSUME NEW l \in Places PROVE Policy(l) \in Policies
<1> DEFINE p == IF l \in DOMAIN Overrides THEN Overrides[l] ELSE ProductPolicy
<1>1. p \in Policies /\ ReorderLevel \in Nat
  BY PolicyAssumption
<1>2. Policy(l) = [p EXCEPT !.reorder = IF @ = 0 THEN ReorderLevel ELSE @]
  BY DEF Policy
<1> HIDE DEF p
<1> QED BY <1>1, <1>2 DEF Policies

(* The greater of two numbers. *)
LEMMA MaxOfTwo ==
  ASSUME NEW a \in Int, NEW b \in Int
  PROVE  Max({a, b}) \in Int /\ (Max({a, b}) = a \/ Max({a, b}) = b) /\ a <= Max({a, b}) /\ b <= Max({a, b})
<1>1. \E x \in {a, b} : \A y \in {a, b} : x >= y
  OBVIOUS
<1>2. Max({a, b}) \in {a, b} /\ \A y \in {a, b} : Max({a, b}) >= y
  BY <1>1 DEF Max
<1> QED BY <1>2

(* The smaller of two numbers. *)
LEMMA MinOfTwo ==
  ASSUME NEW a \in Int, NEW b \in Int
  PROVE  Min({a, b}) \in Int /\ (Min({a, b}) = a \/ Min({a, b}) = b) /\ Min({a, b}) <= a /\ Min({a, b}) <= b
<1>1. \E x \in {a, b} : \A y \in {a, b} : x <= y
  OBVIOUS
<1>2. Min({a, b}) \in {a, b} /\ \A y \in {a, b} : Min({a, b}) <= y
  BY <1>1 DEF Min
<1> QED BY <1>2

(* Rounding up to the minimum and to whole packs adds less than a pack. *)
LEMMA RoundedUp ==
  ASSUME NEW need \in Int, NEW moq \in Nat, NEW pack \in Nat
  PROVE  /\ RoundOrderQty(need, moq, pack) \in Int
         /\ \/ RoundOrderQty(need, moq, pack) <= need + (IF pack = 0 THEN 0 ELSE pack - 1)
            \/ RoundOrderQty(need, moq, pack) <= moq + (IF pack = 0 THEN 0 ELSE pack - 1)
         /\ RoundOrderQty(need, moq, pack) >= need
<1> DEFINE q == Max({need, moq})
           n == q + pack - 1
           k == n \div pack
<1>1. q \in Int /\ (q = need \/ q = moq) /\ need <= q
  <2>1. need \in Int /\ moq \in Int
    OBVIOUS
  <2>2. /\ Max({need, moq}) \in Int /\ (Max({need, moq}) = need \/ Max({need, moq}) = moq)
        /\ need <= Max({need, moq})
    BY <2>1, MaxOfTwo, Zenon
  <2> QED BY <2>2
<1>2. RoundOrderQty(need, moq, pack) = IF pack = 0 THEN q ELSE k * pack
  BY DEF RoundOrderQty
<1> HIDE DEF q
<1>3. CASE pack = 0
  BY <1>1, <1>2, <1>3
<1>4. CASE pack # 0
  <2>1. n \in Int /\ pack \in Nat \ {0}
    BY <1>1, <1>4
  <2> HIDE DEF n
  <2>2. k \in Int /\ n % pack \in 0 .. pack - 1 /\ n = pack * k + (n % pack)
    BY <2>1, DivMod
  <2> HIDE DEF k
  <2>3. k * pack = pack * k /\ pack * k \in Int
    BY <2>1, <2>2
  <2>4. k * pack <= n /\ k * pack >= n - pack + 1
    BY <2>1, <2>2, <2>3
  <2> QED BY <1>1, <1>2, <1>4, <2>1, <2>3, <2>4 DEF n
<1> QED BY <1>3, <1>4

(* A set of numbers with a greatest one ... *)
HasGreatest(S) == S \subseteq Int /\ \E x \in S : \A y \in S : x >= y
(* ... still has one with one number more. *)
LEMMA GreatestWith ==
  ASSUME NEW S, HasGreatest(S), NEW a \in Int
  PROVE  HasGreatest(S \cup {a})
<1>1. PICK x \in S : \A y \in S : x >= y
  BY DEF HasGreatest
<1>2. S \subseteq Int
  BY DEF HasGreatest
<1>3. CASE x >= a
  BY <1>1, <1>2, <1>3 DEF HasGreatest
<1>4. CASE x < a
  <2>1. \A y \in S \cup {a} : a >= y
    BY <1>1, <1>2, <1>4
  <2> QED BY <1>2, <2>1 DEF HasGreatest
<1> QED BY <1>1, <1>2, <1>3, <1>4

(* What the ceiling allows. *)
LEMMA CeilingAllows ==
  ASSUME NEW l \in Places
  PROVE  LET p == Policy(l)
             slack == IF p.pack = 0 THEN 0 ELSE p.pack - 1
         IN  /\ Ceiling(l) \in Int /\ Supply[l] <= Ceiling(l) /\ ReorderLevel <= Ceiling(l)
             /\ p.max + slack <= Ceiling(l) /\ p.reorder + slack <= Ceiling(l)
             /\ p.reorder - 1 + p.qty + slack <= Ceiling(l) /\ p.reorder - 1 + p.moq + slack <= Ceiling(l)
<1> DEFINE p == Policy(l)
           slack == IF p.pack = 0 THEN 0 ELSE p.pack - 1
           T == {p.qty, p.moq, 1}
           S == {Supply[l], p.max, p.reorder - 1 + Max(T), p.reorder, ReorderLevel}
<1>1. /\ p.reorder \in Nat /\ p.max \in Nat /\ p.qty \in Nat /\ p.moq \in Nat /\ p.pack \in Nat
      /\ Supply[l] \in Nat /\ ReorderLevel \in Nat
  BY PolicyTyped, PolicyAssumption DEF Policies
<1>2. Ceiling(l) = Max(S) + slack
  BY DEF Ceiling
<1>3. Max(T) \in Int /\ \A x \in T : Max(T) >= x
  <2>1. \E x \in T : \A y \in T : x >= y
    <3> HIDE DEF p
    <3>1. CASE p.qty >= p.moq /\ p.qty >= 1
      BY <1>1, <3>1
    <3>2. CASE p.moq >= p.qty /\ p.moq >= 1
      BY <1>1, <3>2
    <3>3. CASE 1 >= p.qty /\ 1 >= p.moq
      BY <1>1, <3>3
    <3> QED BY <1>1, <3>1, <3>2, <3>3
  <2>2. Max(T) \in T /\ \A x \in T : Max(T) >= x
    <3> HIDE DEF T
    <3> QED BY <2>1 DEF Max
  <2> QED BY <1>1, <2>2
<1>4. Max(S) \in Int /\ \A x \in S : Max(S) >= x
  <2> DEFINE S1 == {Supply[l]}  S2 == S1 \cup {p.max}  S3 == S2 \cup {p.reorder - 1 + Max(T)}
             S4 == S3 \cup {p.reorder}
  <2>1. HasGreatest(S1)
    BY <1>1 DEF HasGreatest
  <2>2. HasGreatest(S2)
    <3> HIDE DEF S1, p
    <3> QED BY <1>1, <2>1, GreatestWith
  <2>3. HasGreatest(S3)
    <3>1. p.reorder - 1 + Max(T) \in Int
      BY <1>1, <1>3
    <3> HIDE DEF S2, p, T
    <3> QED BY <2>2, <3>1, GreatestWith
  <2>4. HasGreatest(S4)
    <3> HIDE DEF S3, p
    <3> QED BY <1>1, <2>3, GreatestWith
  <2>5. S = S4 \cup {ReorderLevel}
    OBVIOUS
  <2>6. HasGreatest(S)
    <3> HIDE DEF S4, S
    <3> QED BY <1>1, <2>4, <2>5, GreatestWith
  <2> HIDE DEF S
  <2>7. Max(S) \in S /\ \A y \in S : Max(S) >= y
    BY <2>6 DEF Max, HasGreatest
  <2> QED BY <2>6, <2>7 DEF HasGreatest
<1> DEFINE m == Max(T)
           M == Max(S)
<1>5. m \in Int /\ p.qty <= m /\ p.moq <= m
  BY <1>1, <1>3
<1>6. /\ M \in Int /\ Supply[l] <= M /\ p.max <= M /\ p.reorder - 1 + m <= M /\ p.reorder <= M
      /\ ReorderLevel <= M
  BY <1>1, <1>4, <1>5
<1> HIDE DEF m, M, p
<1> QED BY <1>1, <1>2, <1>5, <1>6 DEF M, p

-----------------------------------------------------------------------------
(* The goods on their way to a place, as they are: a number, which changes by what one
   order does. *)
LEMMA ComingTyped ==
  ASSUME PlannerTyped, NEW l \in Places
  PROVE  Coming(l) \in Int /\ Position(l) \in Int
<1> DEFINE f == [i \in Slots |-> IF Destination(i) = l THEN order[i].left ELSE 0]
<1>1. f \in [Slots -> Int]
  BY DEF PlannerTyped, OrderTyped
<1>2. SumFunction(f) \in Int
  <2> HIDE DEF f
  <2> QED BY <1>1, SumInteger, PolicyAssumption
<1> HIDE DEF f
<1>3. Coming(l) = SumFunction(f)
  BY DEF Coming, f
<1>4. stock[l] \in [onhand : Int, reserved : Nat, transit : Nat]
  BY DEF PlannerTyped
<1> QED BY <1>2, <1>3, <1>4 DEF Position

(* What an order adds to what is coming to a place. *)
Brings(o, l) == IF (IF o.at = Nowhere THEN FirstLocation ELSE o.at) = l THEN o.left ELSE 0

(* What is coming changes by what one order does. *)
LEMMA ComingChanges ==
  ASSUME PlannerTyped, PlannerTyped', NEW i \in Slots, \A k \in Slots \ {i} : order'[k] = order[k],
         NEW l \in Places
  PROVE  Coming(l)' = Coming(l) + Brings(order'[i], l) - Brings(order[i], l)
<1> DEFINE f == [k \in Slots |-> Brings(order[k], l)]
           h == [k \in Slots |-> Brings(order'[k], l)]
<1>1. f \in [Slots -> Int]
  BY DEF PlannerTyped, OrderTyped, Brings
<1>2. h \in [Slots -> Int]
  BY DEF PlannerTyped, OrderTyped, Brings
<1>3. Coming(l) = SumFunction(f)
  BY DEF Coming, Brings, Destination
<1>4. Coming(l)' = SumFunction(h)
  BY DEF Coming, Brings, Destination
<1>5. \A k \in Slots \ {i} : h[k] = f[k]
  OBVIOUS
<1>6. f[i] = Brings(order[i], l) /\ h[i] = Brings(order'[i], l)
  OBVIOUS
<1> HIDE DEF f, h
<1>7. SumFunction(h) = SumFunction(f) + h[i] - f[i]
  BY <1>1, <1>2, <1>5, SumUpdate, PolicyAssumption
<1> QED BY <1>3, <1>4, <1>6, <1>7

(* While nothing is on its way that the plan cannot see, it projects what there will be. *)
LEMMA PlanSeesAll ==
  ASSUME PlannerTyped, ~ Unseen, NEW l \in Places
  PROVE  Projected(l) = Position(l)
<1>1. \A k \in Places : k \in Inferred => k = FirstLocation
  <2> DEFINE here == {k \in Places : SiteAt[k] = SiteAt[FirstLocation]}
  <2>1. FirstLocation \in here /\ IsFiniteSet(here)
    BY PolicyAssumption, FS_Subset
  <2>2. ASSUME Cardinality(here) = 1 PROVE here = {FirstLocation}
    <3> HIDE DEF here
    <3>1. PICK x : here = {x}
      BY <2>1, <2>2, FS_Singleton
    <3> QED BY <2>1, <3>1
  <2> QED BY <2>2 DEF Inferred
<1>2. ASSUME NEW i \in Slots
      PROVE  (IF Shows(i, l) THEN order[i].left ELSE 0) = (IF Destination(i) = l THEN order[i].left ELSE 0)
  <2>1. OrderTyped(order[i])
    BY DEF PlannerTyped
  <2>2. CASE order[i].status \in {"NONE", "DONE"}
    BY <2>1, <2>2 DEF OrderTyped
  <2>3. CASE order[i].status \in {"OPEN", "PARTIAL"}
    <3>1. CASE order[i].at = Nowhere
      <4>1. FirstLocation \in Inferred
        BY <2>3, <3>1 DEF Unseen
      <4> QED BY <1>1, <2>3, <3>1, <4>1 DEF Shows, Destination, OpenStatuses
    <3>2. CASE order[i].at # Nowhere
      BY <2>3, <3>2 DEF Shows, Destination, OpenStatuses
    <3> QED BY <3>1, <3>2
  <2> QED BY <2>1, <2>2, <2>3 DEF OrderTyped, Unseen
<1>3. OpenPo(l) = Coming(l)
  BY <1>2 DEF OpenPo, Coming
<1>4. stock[l] \in [onhand : Int, reserved : Nat, transit : Nat] /\ Coming(l) \in Int
  BY ComingTyped DEF PlannerTyped
<1> QED BY <1>3, <1>4 DEF Projected, Position

(* What the plan projects is a number. *)
LEMMA ProjectedTyped == ASSUME PlannerTyped, NEW l \in Places PROVE Projected(l) \in Int
<1> DEFINE f == [i \in Slots |-> IF Shows(i, l) THEN order[i].left ELSE 0]
<1>1. f \in [Slots -> Int]
  BY DEF PlannerTyped, OrderTyped
<1>2. SumFunction(f) \in Int
  <2> HIDE DEF f
  <2> QED BY <1>1, SumInteger, PolicyAssumption
<1> HIDE DEF f
<1>3. OpenPo(l) = SumFunction(f)
  BY DEF OpenPo, f
<1>4. stock[l] \in [onhand : Int, reserved : Nat, transit : Nat]
  BY DEF PlannerTyped
<1> QED BY <1>2, <1>3, <1>4 DEF Projected

(* An order of what the plan suggests keeps the place under its ceiling. *)
LEMMA SuggestionFits ==
  ASSUME PlannerTyped, NEW l \in Places
  PROVE  Suggested(l) \in Nat /\ (Suggested(l) > 0 => Projected(l) + Suggested(l) <= Ceiling(l))
<1> DEFINE p == Policy(l)
           need == IF p.max > 0 THEN p.max - Projected(l)
                   ELSE IF p.qty > 0 THEN p.qty ELSE p.reorder - Projected(l)
           slack == IF p.pack = 0 THEN 0 ELSE p.pack - 1
           r == RoundOrderQty(need, p.moq, p.pack)
<1>1. /\ p.reorder \in Nat /\ p.max \in Nat /\ p.qty \in Nat /\ p.moq \in Nat /\ p.pack \in Nat
      /\ Projected(l) \in Int
  BY PolicyTyped, ProjectedTyped DEF Policies
<1>2. need \in Int
  <2> HIDE DEF p
  <2> QED BY <1>1
<1>3. /\ Ceiling(l) \in Int
      /\ p.max + slack <= Ceiling(l) /\ p.reorder + slack <= Ceiling(l)
      /\ p.reorder - 1 + p.qty + slack <= Ceiling(l) /\ p.reorder - 1 + p.moq + slack <= Ceiling(l)
  BY CeilingAllows
<1>4. Suggested(l) = IF p.reorder = 0 \/ Projected(l) >= p.reorder \/ need <= 0 THEN 0 ELSE r
  BY DEF Suggested
<1> HIDE DEF p
<1>5. r \in Int /\ (r <= need + slack \/ r <= p.moq + slack) /\ r >= need
  <2> HIDE DEF need
  <2> QED BY <1>1, <1>2, RoundedUp
<1> HIDE DEF r
<1>6. slack \in Nat
  BY <1>1
<1> HIDE DEF slack
<1>7. CASE p.reorder = 0 \/ Projected(l) >= p.reorder \/ need <= 0
  BY <1>4, <1>7
<1>8. CASE Projected(l) < p.reorder /\ need > 0
  BY <1>1, <1>2, <1>3, <1>4, <1>5, <1>6, <1>8
<1> QED BY <1>1, <1>2, <1>7, <1>8

-----------------------------------------------------------------------------
(* The policies do not change. *)
LEMMA CeilingsStay == ASSUME NEW l \in Places PROVE Ceiling(l)' = Ceiling(l)
BY DEF Ceiling, Policy

(* What a place has, less what is promised, and what was dispatched to it. *)
Held(s) == s.onhand - s.reserved + s.transit

(* The numbers of a place and of an order. *)
LEMMA PlannerNumbers ==
  ASSUME PlannerTyped, NEW l \in Places, NEW i \in Slots
  PROVE  /\ stock[l] \in [onhand : Int, reserved : Nat, transit : Nat] /\ Held(stock[l]) \in Int
         /\ Brings(order[i], l) \in Nat /\ order[i].left \in Nat /\ Position(l) \in Int
         /\ Position(l) = Held(stock[l]) + Coming(l) /\ Coming(l) \in Int
<1>1. stock[l] \in [onhand : Int, reserved : Nat, transit : Nat]
  BY DEF PlannerTyped
<1>2. order[i].left \in Nat
  BY DEF PlannerTyped, OrderTyped
<1>3. Brings(order[i], l) \in Nat
  BY <1>2 DEF Brings
<1>4. Coming(l) \in Int /\ Position(l) \in Int
  BY ComingTyped
<1> QED BY <1>1, <1>2, <1>3, <1>4 DEF Held, Position

(* A place has and is getting what its own change and that of one order make it. *)
LEMMA PositionChanges ==
  ASSUME PlannerTyped, PlannerTyped', NEW i \in Slots, \A k \in Slots \ {i} : order'[k] = order[k],
         NEW l \in Places
  PROVE  Position(l)' = Position(l) + (Held(stock'[l]) - Held(stock[l]))
                        + (Brings(order'[i], l) - Brings(order[i], l))
<1>1. Coming(l)' = Coming(l) + Brings(order'[i], l) - Brings(order[i], l)
  BY ComingChanges
<1>2. /\ Position(l) = Held(stock[l]) + Coming(l) /\ Coming(l) \in Int /\ Held(stock[l]) \in Int
      /\ Brings(order[i], l) \in Nat
  BY PlannerNumbers
<1>3. /\ stock'[l] \in [onhand : Int, reserved : Nat, transit : Nat] /\ OrderTyped(order'[i])
  BY DEF PlannerTyped, OrderTyped
<1>4. Held(stock'[l]) \in Int /\ Brings(order'[i], l) \in Nat
  BY <1>3 DEF Held, Brings, OrderTyped
<1>5. Position(l)' = Held(stock'[l]) + Coming(l)'
  BY DEF Position, Held
<1> QED BY <1>1, <1>2, <1>4, <1>5

(* With the orders as they are, its own change. *)
LEMMA PositionMoves ==
  ASSUME PlannerTyped, PlannerTyped', UNCHANGED order, NEW l \in Places
  PROVE  Position(l)' = Position(l) + (Held(stock'[l]) - Held(stock[l]))
<1>1. Coming(l)' = Coming(l)
  BY DEF Coming, Destination
<1>2. /\ Position(l) = Held(stock[l]) + Coming(l) /\ Coming(l) \in Int /\ Held(stock[l]) \in Int
  <2>1. stock[l] \in [onhand : Int, reserved : Nat, transit : Nat] /\ Coming(l) \in Int
    BY ComingTyped DEF PlannerTyped
  <2> QED BY <2>1 DEF Position, Held
<1>3. stock'[l] \in [onhand : Int, reserved : Nat, transit : Nat]
  BY DEF PlannerTyped
<1>4. Held(stock'[l]) \in Int /\ Position(l)' = Held(stock'[l]) + Coming(l)'
  BY <1>3 DEF Held, Position
<1> QED BY <1>1, <1>2, <1>4

(* A new order is one of a free slot. *)
LEMMA NewOrder ==
  ASSUME PlannerTyped, NEW i \in Slots, order[i].status = "NONE", NEW o, OrderTyped(o),
         order' = [order EXCEPT ![i] = o], UNCHANGED stock
  PROVE  /\ PlannerTyped'
         /\ \A l \in Places : Position(l)' = Position(l) + Brings(o, l) /\ Position(l) \in Int
<1>1. order'[i] = o /\ (\A k \in Slots \ {i} : order'[k] = order[k]) /\ order' = [k \in Slots |-> order'[k]]
  BY DEF PlannerTyped
<1>2. PlannerTyped'
  BY <1>1 DEF PlannerTyped
<1>3. ASSUME NEW l \in Places
      PROVE  Position(l)' = Position(l) + Brings(o, l) /\ Position(l) \in Int
  <2>1. Position(l)' = Position(l) + (Held(stock'[l]) - Held(stock[l]))
                       + (Brings(order'[i], l) - Brings(order[i], l))
    BY <1>1, <1>2, PositionChanges
  <2>2. order[i].left = 0
    BY DEF PlannerTyped, OrderTyped
  <2>3. Brings(order[i], l) = 0 /\ Brings(o, l) \in Nat
    BY <2>2 DEF Brings, OrderTyped
  <2>4. Held(stock[l]) \in Int /\ Position(l) \in Int
    BY PlannerNumbers
  <2> QED BY <1>1, <2>1, <2>3, <2>4
<1> QED BY <1>2, <1>3

(* A requisition is written from a page. *)
LEMMA WriteKeeps ==
  ASSUME PlannerTyped, NotOverordered, PagesTyped, NEW c \in Clients, WriteReorder(c)
  PROVE  PlannerTyped' /\ NotOverordered'
<1> DEFINE r == req[c]
           o == [status |-> "REQ", for |-> r.for, at |-> Nowhere, left |-> r.qty]
<1>1. r.for \in Places /\ r.qty \in Nat /\ r # Idle
  BY DEF WriteReorder, PagesTyped, PageTyped
<1>2. PICK i \in Free : order' = [order EXCEPT ![i] = o]
  BY DEF WriteReorder, Request
<1>3. i \in Slots /\ order[i].status = "NONE" /\ UNCHANGED stock
  BY <1>2 DEF Free, WriteReorder
<1>4. OrderTyped(o) /\ o.at = Nowhere /\ o.left = r.qty
  BY <1>1 DEF OrderTyped
<1> HIDE DEF o
<1>5. /\ PlannerTyped'
      /\ \A l \in Places : Position(l)' = Position(l) + Brings(o, l) /\ Position(l) \in Int
  BY <1>2, <1>3, <1>4, NewOrder
<1>6. ASSUME ~ lapse', NEW l \in Places PROVE Position(l)' <= Ceiling(l)'
  <2>1. ~ lapse /\ ~ Unseen /\ r.for = FirstLocation /\ ~ (r.qty > Suggested(r.for))
    BY <1>6 DEF WriteReorder
  <2>2. Position(l) <= Ceiling(l) /\ Ceiling(l)' = Ceiling(l)
    BY <2>1, CeilingsStay DEF NotOverordered
  <2>3. CASE l # FirstLocation
    <3>1. Brings(o, l) = 0
      BY <1>4, <2>3 DEF Brings
    <3> QED BY <1>5, <2>2, <3>1
  <2>4. CASE l = FirstLocation
    <3>1. Brings(o, l) = r.qty
      BY <1>4, <2>4 DEF Brings
    <3>2. Suggested(l) \in Nat /\ (Suggested(l) > 0 => Projected(l) + Suggested(l) <= Ceiling(l))
      BY SuggestionFits
    <3>3. Projected(l) = Position(l)
      BY <2>1, PlanSeesAll
    <3>4. Ceiling(l) \in Int
      BY CeilingAllows
    <3>5. r.qty <= Suggested(l)
      BY <1>1, <2>1, <2>4, <3>2
    <3> HIDE DEF r
    <3> QED BY <1>1, <1>5, <2>2, <3>1, <3>2, <3>3, <3>4, <3>5
  <2> QED BY <2>3, <2>4
<1> QED BY <1>5, <1>6 DEF NotOverordered

(* What all places together are short of. *)
LEMMA ShortfallTyped ==
  ASSUME PlannerTyped
  PROVE  Shortfall \in Int
<1> DEFINE f == [l \in Places |-> stock[l].onhand]
<1>1. f \in [Places -> Int]
  BY DEF PlannerTyped
<1>2. Shortfall = ReorderLevel - SumFunction(f)
  BY DEF Shortfall
<1> HIDE DEF f
<1> QED BY <1>1, <1>2, SumInteger, PolicyAssumption

(* The low-stock list orders it, and what it asks for is no more unless there is a lapse. *)
LEMMA LowStockKeeps ==
  ASSUME PlannerTyped, NotOverordered, PagesTyped, NEW c \in Clients, LowStockReorder(c)
  PROVE  PlannerTyped' /\ NotOverordered'
<1> DEFINE f == [l \in Places |-> stock[l].onhand]
           total == SumFunction(f)
           short == req[c].qty
           o == [status |-> "REQ", for |-> Nowhere, at |-> Nowhere, left |-> short]
<1>1. f \in [Places -> Int]
  BY DEF PlannerTyped
<1>2. total \in Int
  <2> HIDE DEF f
  <2> QED BY <1>1, SumInteger, PolicyAssumption
<1>3. /\ UNCHANGED stock
      /\ \E i \in Free : order' = [order EXCEPT ![i] = o]
  <2>1. Request(Nowhere, short)
    BY DEF LowStockReorder
  <2>2. \E i \in Free : order' = [order EXCEPT ![i] = o]
    BY <2>1 DEF Request
  <2> QED BY <2>2 DEF LowStockReorder
<1>4. PICK i \in Free : order' = [order EXCEPT ![i] = o]
  BY <1>3
<1>5. i \in Slots /\ order[i].status = "NONE"
  BY DEF Free
<1>a. Shortfall = ReorderLevel - total
  BY DEF Shortfall
<1> HIDE DEF total
<1>6. short \in Nat
  BY DEF LowStockReorder, PagesTyped, PageTyped
<1> HIDE DEF short
<1>7. OrderTyped(o) /\ o.at = Nowhere /\ o.left = short
  BY <1>6 DEF OrderTyped
<1> HIDE DEF o
<1>8. /\ PlannerTyped'
      /\ \A l \in Places : Position(l)' = Position(l) + Brings(o, l) /\ Position(l) \in Int
  BY <1>3, <1>4, <1>5, <1>7, NewOrder
<1>9. ASSUME ~ lapse', NEW l \in Places PROVE Position(l)' <= Ceiling(l)'
  <2>1. /\ ~ lapse /\ (\A k \in Slots : order[k].status \in {"NONE", "DONE"})
        /\ (\A k \in Places : ~ (stock[k].transit > 0) /\ ~ (stock[k].onhand < 0))
        /\ ~ (short > Shortfall)
    BY <1>9 DEF LowStockReorder, short
  <2>2. Position(l) <= Ceiling(l) /\ Ceiling(l)' = Ceiling(l)
    BY <2>1, CeilingsStay DEF NotOverordered
  <2>3. CASE l # FirstLocation
    <3>1. Brings(o, l) = 0
      BY <1>7, <2>3 DEF Brings
    <3> QED BY <1>8, <2>2, <3>1
  <2>4. CASE l = FirstLocation
    <3>1. Brings(o, l) = short
      BY <1>7, <2>4 DEF Brings
    <3>2. /\ stock[l].onhand \in Nat /\ stock[l].reserved \in Nat /\ stock[l].transit = 0
      BY <2>1 DEF PlannerTyped
    <3>3. Coming(l) = 0
      <4> DEFINE g == [k \in Slots |-> IF Destination(k) = l THEN order[k].left ELSE 0]
      <4>1. \A k \in Slots : order[k].left = 0
        BY <2>1 DEF PlannerTyped, OrderTyped
      <4>2. g \in [Slots -> Int] /\ \A k \in Slots : g[k] = 0
        BY <4>1
      <4>3. Coming(l) = SumFunction(g)
        BY DEF Coming
      <4> HIDE DEF g
      <4> QED BY <4>2, <4>3, SumZero, PolicyAssumption
    <3>4. stock[l].onhand <= total
      <4>1. f \in [Places -> Nat] /\ f[l] = stock[l].onhand
        BY <2>1 DEF PlannerTyped
      <4> HIDE DEF f
      <4>2. f[l] <= SumFunction(f)
        BY <4>1, SumNatural, PolicyAssumption
      <4> QED BY <4>1, <4>2 DEF total
    <3>5. Position(l) = stock[l].onhand - stock[l].reserved
      BY <3>2, <3>3 DEF Position
    <3>6. ReorderLevel <= Ceiling(l) /\ Ceiling(l) \in Int /\ ReorderLevel \in Int
      BY CeilingAllows, PolicyAssumption
    <3>7. short <= ReorderLevel - total
      BY <1>2, <1>6, <1>a, <2>1, PolicyAssumption
    <3> QED BY <1>2, <1>6, <1>8, <2>2, <3>1, <3>2, <3>4, <3>5, <3>6, <3>7
  <2> QED BY <2>3, <2>4
<1> QED BY <1>8, <1>9 DEF NotOverordered

(* The buyer orders what the plan suggests for a place. *)
LEMMA DirectKeeps ==
  ASSUME PlannerTyped, NotOverordered, NEW p \in Places, OrderDirect(p)
  PROVE  PlannerTyped' /\ NotOverordered'
<1> DEFINE n == Suggested(p)
           o == [status |-> "DRAFT", for |-> p, at |-> p, left |-> n]
<1>1. n \in Nat /\ n > 0 /\ Projected(p) + n <= Ceiling(p)
  BY SuggestionFits DEF OrderDirect
<1>2. /\ UNCHANGED stock /\ lapse' = (lapse \/ Unseen)
      /\ \E i \in Free : order' = [order EXCEPT ![i] = o]
  BY DEF OrderDirect
<1>3. PICK i \in Free : order' = [order EXCEPT ![i] = o]
  BY <1>2
<1>4. i \in Slots /\ order[i].status = "NONE"
  BY DEF Free
<1> HIDE DEF n
<1>5. OrderTyped(o) /\ o.at = p /\ o.left = n
  BY <1>1 DEF OrderTyped
<1> HIDE DEF o
<1>6. /\ PlannerTyped'
      /\ \A l \in Places : Position(l)' = Position(l) + Brings(o, l) /\ Position(l) \in Int
  BY <1>2, <1>3, <1>4, <1>5, NewOrder
<1>7. ASSUME ~ lapse', NEW l \in Places PROVE Position(l)' <= Ceiling(l)'
  <2>1. ~ lapse /\ ~ Unseen
    BY <1>2, <1>7
  <2>2. Position(l) <= Ceiling(l) /\ Ceiling(l)' = Ceiling(l)
    BY <2>1, CeilingsStay DEF NotOverordered
  <2>3. p # Nowhere
    BY PolicyAssumption
  <2>4. Brings(o, l) = IF l = p THEN n ELSE 0
    BY <1>5, <2>3 DEF Brings
  <2>5. Projected(p) = Position(p)
    BY <2>1, PlanSeesAll
  <2> QED BY <1>1, <1>6, <2>2, <2>4, <2>5
<1> QED BY <1>6, <1>7 DEF NotOverordered

(* One order is withdrawn, made, approved or amended. *)
LEMMA OrderKeeps ==
  ASSUME PlannerTyped, NotOverordered, NEW i \in Slots,
         Withdraw(i) \/ Convert(i) \/ ApproveOrder(i) \/ AmendOrder(i)
  PROVE  PlannerTyped' /\ NotOverordered'
<1>1. OrderTyped(order[i]) /\ order = [k \in Slots |-> order[k]]
  BY DEF PlannerTyped
<1>2. /\ UNCHANGED stock /\ (~ lapse' => ~ lapse)
      /\ (\A k \in Slots \ {i} : order'[k] = order[k]) /\ order' = [k \in Slots |-> order'[k]]
  <2>1. CASE Withdraw(i)
    BY <1>1, <2>1 DEF Withdraw
  <2>2. CASE Convert(i) \/ ApproveOrder(i)
    BY <1>1, <2>2 DEF Convert, ApproveOrder
  <2>3. CASE AmendOrder(i)
    <3>1. UNCHANGED stock /\ (~ lapse' => ~ lapse)
      BY <2>3 DEF AmendOrder
    <3>2. order' = [order EXCEPT ![i] = [@ EXCEPT !.status = "DRAFT", !.at = Nowhere]]
      BY <1>1, <2>3 DEF AmendOrder
    <3> QED BY <1>1, <3>1, <3>2
  <2> QED BY <2>1, <2>2, <2>3
<1>3. OrderTyped(order'[i]) /\ (~ lapse' => \A l \in Places : Brings(order'[i], l) <= Brings(order[i], l))
  <2> DEFINE o == order[i]
  <2>1. ASSUME Withdraw(i) PROVE <1>3
    <3>1. order'[i] = Done
      BY <1>1, <2>1 DEF Withdraw
    <3>2. OrderTyped(Done) /\ Done.left = 0
      BY DEF OrderTyped, Done, NoOrder
    <3>3. \A l \in Places : Brings(order'[i], l) = 0 /\ Brings(order[i], l) \in Nat
      BY <1>1, <3>1, <3>2 DEF Brings, OrderTyped
    <3> QED BY <3>1, <3>2, <3>3
  <2>2. ASSUME Convert(i) \/ ApproveOrder(i) PROVE <1>3
    <3>1. PICK s \in {"DRAFT", "OPEN"} : order'[i] = [o EXCEPT !.status = s]
      BY <1>1, <2>2 DEF Convert, ApproveOrder
    <3> HIDE DEF o
    <3>2. OrderTyped(order'[i]) /\ order'[i].at = o.at /\ order'[i].left = o.left
      BY <1>1, <3>1 DEF OrderTyped, o
    <3>3. \A l \in Places : Brings(order'[i], l) = Brings(order[i], l) /\ Brings(order[i], l) \in Nat
      BY <1>1, <3>2 DEF Brings, OrderTyped, o
    <3> QED BY <3>2, <3>3
  <2>3. ASSUME AmendOrder(i) PROVE <1>3
    <3>1. order'[i] = [o EXCEPT !.status = "DRAFT", !.at = Nowhere]
      BY <1>1, <2>3 DEF AmendOrder
    <3> HIDE DEF o
    <3>2. OrderTyped(order'[i]) /\ order'[i].at = Nowhere /\ order'[i].left = o.left
      BY <1>1, <3>1 DEF OrderTyped, o
    <3>3. ~ lapse' => o.at \in {Nowhere, FirstLocation}
      BY <2>3 DEF AmendOrder, o
    <3>4. ASSUME ~ lapse', NEW l \in Places PROVE Brings(order'[i], l) <= Brings(order[i], l)
      BY <1>1, <3>2, <3>3, <3>4 DEF Brings, OrderTyped, o
    <3> QED BY <3>2, <3>4
  <2> QED BY <2>1, <2>2, <2>3
<1>4. PlannerTyped'
  BY <1>2, <1>3 DEF PlannerTyped
<1>5. ASSUME ~ lapse', NEW l \in Places PROVE Position(l)' <= Ceiling(l)'
  <2>1. Position(l)' = Position(l) + (Held(stock'[l]) - Held(stock[l]))
                       + (Brings(order'[i], l) - Brings(order[i], l))
    BY <1>2, <1>4, PositionChanges
  <2>2. Position(l) <= Ceiling(l) /\ Ceiling(l)' = Ceiling(l) /\ Ceiling(l) \in Int
    BY <1>2, <1>5, CeilingsStay, CeilingAllows DEF NotOverordered
  <2>3. Position(l) \in Int /\ Held(stock[l]) \in Int /\ Brings(order[i], l) \in Nat
    BY PlannerNumbers
  <2>4. Brings(order'[i], l) \in Nat
    BY <1>3 DEF Brings, OrderTyped
  <2> QED BY <1>2, <1>3, <1>5, <2>1, <2>2, <2>3, <2>4
<1> QED BY <1>4, <1>5 DEF NotOverordered

(* Goods come in: there is more of them, and as much less to come. *)
LEMMA ReceiptKeeps ==
  ASSUME PlannerTyped, NotOverordered, NEW i \in Slots, ReceiveGoods(i)
  PROVE  PlannerTyped' /\ NotOverordered'
<1> DEFINE o == order[i]
           d == Destination(i)
<1>1. OrderTyped(o) /\ order = [k \in Slots |-> order[k]] /\ o.left > 0 /\ o.status \in {"OPEN", "PARTIAL"}
  BY DEF PlannerTyped, ReceiveGoods
<1>2. d \in Places
  BY <1>1, PolicyAssumption DEF Destination, OrderTyped
<1>3. PICK n \in {1, o.left} :
        /\ stock' = [stock EXCEPT ![d].onhand = @ + n]
        /\ order' = [order EXCEPT ![i] = IF n = order[i].left THEN Done
                       ELSE [order[i] EXCEPT !.left = order[i].left - n, !.status = "PARTIAL"]]
  BY DEF ReceiveGoods
<1>4. n \in Nat /\ n <= o.left /\ o.left \in Nat
  BY <1>1, <1>3 DEF OrderTyped
<1>5. /\ (\A k \in Slots \ {i} : order'[k] = order[k]) /\ order' = [k \in Slots |-> order'[k]]
      /\ order'[i] = IF n = o.left THEN Done ELSE [o EXCEPT !.left = o.left - n, !.status = "PARTIAL"]
  <2> DEFINE m == IF n = o.left THEN Done ELSE [o EXCEPT !.left = o.left - n, !.status = "PARTIAL"]
  <2>1. (\A k \in Slots \ {i} : order'[k] = order[k]) /\ order' = [k \in Slots |-> order'[k]] /\ order'[i] = m
    <3>1. order' = [order EXCEPT ![i] = m]
      BY <1>3
    <3> HIDE DEF m, d, o
    <3> QED BY <1>1, <3>1
  <2> HIDE DEF d, o
  <2> QED BY <2>1
<1>6. /\ stock'[d] = [stock[d] EXCEPT !.onhand = stock[d].onhand + n]
      /\ \A l \in Places \ {d} : stock'[l] = stock[l]
      /\ stock' = [l \in Places |-> stock'[l]]
  <2>1. stock = [l \in Places |-> stock[l]]
    BY DEF PlannerTyped
  <2> HIDE DEF d
  <2> QED BY <1>2, <1>3, <2>1
<1>7. Brings(o, d) = o.left /\ \A l \in Places : l # d => Brings(o, l) = 0
  BY <1>1 DEF Brings, Destination, OrderTyped
<1>8. /\ OrderTyped(order'[i]) /\ order'[i].left = o.left - n
      /\ Brings(order'[i], d) = o.left - n /\ \A l \in Places : l # d => Brings(order'[i], l) = 0
  <2>1. CASE n = o.left
    <3>1. order'[i] = Done
      BY <1>5, <2>1
    <3>2. OrderTyped(Done) /\ Done.left = 0
      BY DEF OrderTyped, Done, NoOrder
    <3> HIDE DEF d, o
    <3> QED BY <1>4, <2>1, <3>1, <3>2 DEF Brings
  <2>2. CASE n # o.left
    <3>1. order'[i] = [o EXCEPT !.left = o.left - n, !.status = "PARTIAL"] /\ o.left - n \in Nat
      BY <1>4, <1>5, <2>2
    <3>2. d = IF o.at = Nowhere THEN FirstLocation ELSE o.at
      BY DEF Destination
    <3> HIDE DEF o, d
    <3>3. OrderTyped(order'[i]) /\ order'[i].left = o.left - n /\ order'[i].at = o.at
      BY <1>1, <3>1 DEF OrderTyped
    <3> QED BY <3>2, <3>3 DEF Brings
  <2> QED BY <2>1, <2>2
<1> HIDE DEF d, o
<1>9. /\ stock'[d] \in [onhand : Int, reserved : Nat, transit : Nat]
      /\ Held(stock'[d]) = Held(stock[d]) + n /\ Held(stock[d]) \in Int
  <2> DEFINE s == stock[d]
  <2>1. s \in [onhand : Int, reserved : Nat, transit : Nat]
    BY <1>2 DEF PlannerTyped
  <2>2. stock'[d] = [s EXCEPT !.onhand = s.onhand + n]
    BY <1>6
  <2> HIDE DEF s
  <2>3. /\ stock'[d] \in [onhand : Int, reserved : Nat, transit : Nat]
        /\ stock'[d].onhand = s.onhand + n /\ stock'[d].reserved = s.reserved /\ stock'[d].transit = s.transit
    BY <1>4, <2>1, <2>2
  <2>4. Held(stock'[d]) = Held(s) + n /\ Held(s) \in Int
    BY <1>4, <2>1, <2>3 DEF Held
  <2> QED BY <2>3, <2>4 DEF s
<1>10. PlannerTyped'
  BY <1>2, <1>5, <1>6, <1>8, <1>9 DEF PlannerTyped
<1>11. ASSUME NEW l \in Places PROVE Position(l)' = Position(l)
  <2>1. Position(l)' = Position(l) + (Held(stock'[l]) - Held(stock[l]))
                       + (Brings(order'[i], l) - Brings(order[i], l))
    BY <1>5, <1>10, PositionChanges
  <2>2. Position(l) \in Int /\ Held(stock[l]) \in Int
    BY PlannerNumbers
  <2>3. CASE l = d
    BY <1>4, <1>7, <1>8, <1>9, <2>1, <2>2, <2>3 DEF o
  <2>4. CASE l # d
    BY <1>6, <1>7, <1>8, <2>1, <2>2, <2>4 DEF o
  <2> QED BY <2>3, <2>4
<1>12. lapse' = lapse
  BY DEF ReceiveGoods
<1> QED BY <1>10, <1>11, <1>12, CeilingsStay DEF NotOverordered

(* Stock is sent from place to place, promised and shipped. *)
LEMMA StockKeeps ==
  ASSUME PlannerTyped, NotOverordered, NEW p \in Places, DispatchSpare(p) \/ ReceiveSpare(p) \/ Sell(p) \/ Ship(p)
  PROVE  PlannerTyped' /\ NotOverordered'
<1>1. \A l \in Places : stock[l] \in [onhand : Int, reserved : Nat, transit : Nat]
  BY DEF PlannerTyped
<1>2. UNCHANGED order /\ (~ lapse' => ~ lapse) /\ stock = [l \in Places |-> stock[l]]
  <2>1. UNCHANGED order /\ (~ lapse' => ~ lapse)
    <3>1. DispatchSpare(p) => UNCHANGED order /\ (~ lapse' => ~ lapse)
      <4>1. DispatchSpare(p) => UNCHANGED order /\ lapse' = (lapse \/ Unseen)
        BY DEF DispatchSpare
      <4> QED BY <4>1
    <3>2. ReceiveSpare(p) \/ Sell(p) \/ Ship(p) => UNCHANGED <<order, lapse>>
      BY DEF ReceiveSpare, Sell, Ship
    <3> QED BY <3>1, <3>2
  <2> QED BY <2>1 DEF PlannerTyped
<1> DEFINE Fits == /\ stock' \in [Places -> [onhand : Int, reserved : Nat, transit : Nat]]
                   /\ ~ lapse' => \A l \in Places :
                        \/ Held(stock'[l]) <= Held(stock[l])
                        \/ Position(l) + (Held(stock'[l]) - Held(stock[l])) <= Ceiling(l)
<1>3. ASSUME DispatchSpare(p) PROVE Fits
  <2>1. PICK k \in SpareFor(p) :
          LET n == Min({Suggested(p), Excess(k)})
          IN  stock' = [stock EXCEPT ![k].onhand = @ - n, ![p].transit = @ + n]
    BY <1>3 DEF DispatchSpare
  <2> DEFINE n == Min({Suggested(p), Excess(k)})
  <2>2. k \in Places /\ k # p /\ Excess(k) > 0
    BY DEF SpareFor
  <2>3. Suggested(p) \in Nat /\ Suggested(p) > 0 /\ Projected(p) + Suggested(p) <= Ceiling(p)
    BY <1>3, SuggestionFits DEF DispatchSpare
  <2>4. Excess(k) \in Int
    <3>1. Policy(k).max \in Nat /\ stock[k].onhand \in Int
      BY <1>1, <2>2, PolicyTyped DEF Policies
    <3> QED BY <3>1 DEF Excess
  <2>5. n \in Nat /\ n <= Suggested(p)
    <3>1. Suggested(p) \in Int
      BY <2>3
    <3>2. n \in Int /\ (n = Suggested(p) \/ n = Excess(k)) /\ n <= Suggested(p)
      BY <2>4, <3>1, MinOfTwo, Zenon
    <3> QED BY <2>2, <2>3, <2>4, <3>2
  <2>6. stock' = [stock EXCEPT ![k].onhand = @ - n, ![p].transit = @ + n]
    BY <2>1
  <2> HIDE DEF n
  <2>7. /\ stock'[k] = [stock[k] EXCEPT !.onhand = stock[k].onhand - n]
        /\ stock'[p] = [stock[p] EXCEPT !.transit = stock[p].transit + n]
        /\ \A l \in Places \ {k, p} : stock'[l] = stock[l]
        /\ stock' = [l \in Places |-> stock'[l]]
    BY <1>2, <2>2, <2>6
  <2>8. /\ stock'[k] \in [onhand : Int, reserved : Nat, transit : Nat]
        /\ Held(stock'[k]) = Held(stock[k]) - n /\ Held(stock[k]) \in Int
    <3> DEFINE s == stock[k]
    <3>1. s \in [onhand : Int, reserved : Nat, transit : Nat] /\ stock'[k] = [s EXCEPT !.onhand = s.onhand - n]
      BY <1>1, <2>2, <2>7
    <3> HIDE DEF s
    <3>2. /\ stock'[k] \in [onhand : Int, reserved : Nat, transit : Nat]
          /\ stock'[k].onhand = s.onhand - n /\ stock'[k].reserved = s.reserved /\ stock'[k].transit = s.transit
      BY <2>5, <3>1
    <3>3. Held(stock'[k]) = Held(s) - n /\ Held(s) \in Int
      BY <2>5, <3>1, <3>2 DEF Held
    <3> QED BY <3>2, <3>3 DEF s
  <2>9. /\ stock'[p] \in [onhand : Int, reserved : Nat, transit : Nat]
        /\ Held(stock'[p]) = Held(stock[p]) + n /\ Held(stock[p]) \in Int
    <3> DEFINE s == stock[p]
    <3>1. s \in [onhand : Int, reserved : Nat, transit : Nat] /\ stock'[p] = [s EXCEPT !.transit = s.transit + n]
      BY <1>1, <2>7
    <3> HIDE DEF s
    <3>2. /\ stock'[p] \in [onhand : Int, reserved : Nat, transit : Nat]
          /\ stock'[p].onhand = s.onhand /\ stock'[p].reserved = s.reserved /\ stock'[p].transit = s.transit + n
      BY <2>5, <3>1
    <3>3. Held(stock'[p]) = Held(s) + n /\ Held(s) \in Int
      BY <2>5, <3>1, <3>2 DEF Held
    <3> QED BY <3>2, <3>3 DEF s
  <2>10. stock' \in [Places -> [onhand : Int, reserved : Nat, transit : Nat]]
    BY <1>1, <2>7, <2>8, <2>9
  <2>11. ASSUME ~ lapse', NEW l \in Places
         PROVE  \/ Held(stock'[l]) <= Held(stock[l])
                \/ Position(l) + (Held(stock'[l]) - Held(stock[l])) <= Ceiling(l)
    <3>1. ~ Unseen
      BY <1>3, <2>11 DEF DispatchSpare
    <3>2. Projected(l) = Position(l) /\ Position(l) \in Int /\ Ceiling(l) \in Int
      BY <3>1, PlanSeesAll, ComingTyped, CeilingAllows
    <3>3. CASE l = p
      BY <2>3, <2>5, <2>9, <3>2, <3>3
    <3>4. CASE l = k
      BY <2>5, <2>8, <3>4
    <3>5. CASE l \notin {k, p}
      <4>1. stock'[l] = stock[l] /\ Held(stock[l]) \in Int
        BY <1>1, <2>7, <3>5 DEF Held
      <4> QED BY <4>1
    <3> QED BY <3>3, <3>4, <3>5
  <2> QED BY <2>10, <2>11
<1>4. ASSUME ReceiveSpare(p) \/ Sell(p) \/ Ship(p) PROVE Fits
  <2> DEFINE s == stock[p]
             v == stock'[p]
  <2>1. s \in [onhand : Int, reserved : Nat, transit : Nat]
    BY <1>1
  <2>2. (\A l \in Places \ {p} : stock'[l] = stock[l]) /\ stock' = [l \in Places |-> stock'[l]]
    BY <1>2, <1>4 DEF ReceiveSpare, Sell, Ship
  <2>3. v \in [onhand : Int, reserved : Nat, transit : Nat] /\ Held(v) <= Held(s)
    <3>1. CASE ReceiveSpare(p)
      <4>1. v = [s EXCEPT !.onhand = s.onhand + s.transit, !.transit = 0]
        BY <1>2, <3>1 DEF ReceiveSpare
      <4> HIDE DEF v, s
      <4>2. v.onhand = s.onhand + s.transit /\ v.reserved = s.reserved /\ v.transit = 0
        BY <2>1, <4>1
      <4>3. s.onhand + s.transit \in Int /\ 0 \in Nat
        BY <2>1, <4>1
      <4>4. v \in [onhand : Int, reserved : Nat, transit : Nat]
        BY <2>1, <4>1, <4>3
      <4> QED BY <2>1, <4>2, <4>4 DEF Held
    <3>2. CASE Sell(p)
      <4>1. v = [s EXCEPT !.reserved = s.reserved + 1]
        BY <1>2, <3>2 DEF Sell
      <4> HIDE DEF v, s
      <4>2. v.onhand = s.onhand /\ v.reserved = s.reserved + 1 /\ v.transit = s.transit
        BY <2>1, <4>1
      <4>3. v \in [onhand : Int, reserved : Nat, transit : Nat]
        BY <2>1, <4>1
      <4> QED BY <2>1, <4>2, <4>3 DEF Held
    <3>3. CASE Ship(p)
      <4>1. v = [s EXCEPT !.onhand = s.onhand - 1, !.reserved = s.reserved - 1] /\ s.reserved > 0
        BY <1>2, <3>3 DEF Ship
      <4> HIDE DEF v, s
      <4>2. v.onhand = s.onhand - 1 /\ v.reserved = s.reserved - 1 /\ v.transit = s.transit
        BY <2>1, <4>1
      <4>3. s.onhand - 1 \in Int /\ s.reserved - 1 \in Nat
        BY <2>1, <4>1
      <4>4. v \in [onhand : Int, reserved : Nat, transit : Nat]
        BY <2>1, <4>1, <4>3
      <4> QED BY <2>1, <4>2, <4>4 DEF Held
    <3> QED BY <1>4, <3>1, <3>2, <3>3
  <2>4. \A l \in Places : Held(stock[l]) \in Int
    BY <1>1 DEF Held
  <2> HIDE DEF v, s
  <2> QED BY <1>1, <2>2, <2>3, <2>4 DEF v, s
<1>5. Fits
  BY <1>3, <1>4
<1>6. PlannerTyped'
  BY <1>2, <1>5 DEF PlannerTyped
<1>7. ASSUME ~ lapse', NEW l \in Places PROVE Position(l)' <= Ceiling(l)'
  <2>1. Position(l)' = Position(l) + (Held(stock'[l]) - Held(stock[l]))
    BY <1>2, <1>6, PositionMoves
  <2>2. Position(l) <= Ceiling(l) /\ Ceiling(l)' = Ceiling(l) /\ Ceiling(l) \in Int /\ Position(l) \in Int
    BY <1>2, <1>7, CeilingsStay, CeilingAllows, ComingTyped DEF NotOverordered
  <2>3. Held(stock[l]) \in Int /\ Held(stock'[l]) \in Int
    BY <1>1, <1>5 DEF Held
  <2> QED BY <1>5, <1>7, <2>1, <2>2, <2>3
<1> QED BY <1>6, <1>7 DEF NotOverordered

(* A page of the plan carries what it showed, and a reorder a line of it. *)
LEMMA PagesStayTyped ==
  ASSUME PlannerTyped, PagesTyped, NEW c \in Clients, NEW p \in Places,
         ShowPlan(c) \/ PostReorder(c, p) \/ WriteReorder(c) \/ ShowLowStock(c) \/ LowStockReorder(c)
  PROVE  PagesTyped'
<1>1. PICK r : req' = [req EXCEPT ![c] = r] /\ (r = Idle \/ PageTyped(r))
  <2>1. CASE ShowPlan(c)
    <3> DEFINE r == [op |-> "plan", ask |-> [l \in Places |-> Suggested(l)]]
    <3>1. [l \in Places |-> Suggested(l)] \in [Places -> Int]
      BY SuggestionFits
    <3>2. PageTyped(r)
      BY <3>1 DEF PageTyped
    <3>3. req' = [req EXCEPT ![c] = r]
      BY <2>1 DEF ShowPlan
    <3> QED BY <3>2, <3>3
  <2>2. CASE PostReorder(c, p)
    <3> DEFINE r == [op |-> "reorder", for |-> p, qty |-> req[c].ask[p]]
    <3>1. req[c].ask[p] \in Int /\ req[c].ask[p] > 0
      BY <2>2 DEF PostReorder, PagesTyped, PageTyped
    <3>2. PageTyped(r)
      BY <3>1 DEF PageTyped
    <3>3. req' = [req EXCEPT ![c] = IF OnRequisition THEN Idle ELSE r]
      BY <2>2 DEF PostReorder
    <3> HIDE DEF r
    <3> QED BY <3>2, <3>3
  <2>3. CASE WriteReorder(c) \/ LowStockReorder(c)
    BY <2>3 DEF WriteReorder, LowStockReorder
  <2>4. CASE ShowLowStock(c)
    <3> DEFINE r == [op |-> "low", qty |-> Shortfall]
    <3>1. Shortfall \in Nat
      BY <2>4, ShortfallTyped DEF ShowLowStock
    <3>2. PageTyped(r)
      BY <3>1 DEF PageTyped
    <3>3. req' = [req EXCEPT ![c] = r]
      BY <2>4 DEF ShowLowStock
    <3> QED BY <3>2, <3>3
  <2> QED BY <2>1, <2>2, <2>3, <2>4
<1> QED BY <1>1 DEF PagesTyped

-----------------------------------------------------------------------------
(* The planner's tables, whatever it does. *)
LEMMA PlannerKeeps ==
  ASSUME PlannerTyped, PagesTyped, NotOverordered, NextPlanner
  PROVE  PlannerTyped' /\ PagesTyped' /\ NotOverordered'
<1> DEFINE Goal == PlannerTyped' /\ PagesTyped' /\ NotOverordered'
<1>1. UNCHANGED req => PagesTyped'
  BY DEF PagesTyped
<1>2. ASSUME UNCHANGED replenishment PROVE PlannerTyped' /\ NotOverordered'
  <2>1. UNCHANGED <<stock, order, lapse>>
    BY <1>2 DEF replenishment
  <2>2. PlannerTyped'
    BY <2>1 DEF PlannerTyped
  <2>3. \A l \in Places : Position(l)' = Position(l) /\ Ceiling(l)' = Ceiling(l)
    BY <2>1, CeilingsStay DEF Position, Coming, Destination
  <2> QED BY <2>1, <2>2, <2>3 DEF NotOverordered
<1> HIDE DEF Goal
<1>3. ASSUME NEW c \in Clients, ShowPlan(c) \/ ShowLowStock(c) PROVE Goal
  <2>1. UNCHANGED replenishment /\ \E p \in Places : TRUE
    BY <1>3, PolicyAssumption DEF ShowPlan, ShowLowStock
  <2> QED BY <1>2, <1>3, <2>1, PagesStayTyped DEF Goal
<1>4. ASSUME NEW c \in Clients, NEW l \in Places, PostReorder(c, l) PROVE Goal
  <2>1. UNCHANGED replenishment
    BY <1>4 DEF PostReorder, replenishment
  <2> QED BY <1>2, <1>4, <2>1, PagesStayTyped DEF Goal
<1>5. ASSUME NEW c \in Clients, WriteReorder(c) PROVE Goal
  <2>1. FirstLocation \in Places
    BY PolicyAssumption
  <2>2. PagesTyped'
    BY <1>5, <2>1, PagesStayTyped
  <2> QED BY <1>5, <2>2, WriteKeeps DEF Goal
<1>6. ASSUME NEW c \in Clients, LowStockReorder(c) PROVE Goal
  <2>1. FirstLocation \in Places
    BY PolicyAssumption
  <2>2. PagesTyped'
    BY <1>6, <2>1, PagesStayTyped
  <2> QED BY <1>6, <2>2, LowStockKeeps DEF Goal
<1>7. ASSUME NEW l \in Places, OrderDirect(l) PROVE Goal
  <2>1. UNCHANGED req
    BY <1>7 DEF OrderDirect
  <2> QED BY <1>1, <1>7, <2>1, DirectKeeps DEF Goal
<1>8. ASSUME NEW i \in Slots, Withdraw(i) \/ Convert(i) \/ ApproveOrder(i) \/ AmendOrder(i) PROVE Goal
  <2>1. UNCHANGED req
    BY <1>8 DEF Withdraw, Convert, ApproveOrder, AmendOrder
  <2> QED BY <1>1, <1>8, <2>1, OrderKeeps DEF Goal
<1>9. ASSUME NEW i \in Slots, ReceiveGoods(i) PROVE Goal
  <2>1. UNCHANGED req
    BY <1>9 DEF ReceiveGoods
  <2> QED BY <1>1, <1>9, <2>1, ReceiptKeeps DEF Goal
<1>10. ASSUME NEW l \in Places, DispatchSpare(l) \/ ReceiveSpare(l) \/ Sell(l) \/ Ship(l) PROVE Goal
  <2>1. UNCHANGED req
    BY <1>10 DEF DispatchSpare, ReceiveSpare, Sell, Ship
  <2> QED BY <1>1, <1>10, <2>1, StockKeeps DEF Goal
<1>11. Goal
  BY <1>3, <1>4, <1>5, <1>6, <1>7, <1>8, <1>9, <1>10 DEF NextPlanner
<1> QED BY <1>11 DEF Goal

(* Every step keeps it. *)
LEMMA PlannerInductive == PlannerInv /\ [Next]_vars => PlannerInv'
<1> SUFFICES ASSUME PlannerInv, [Next]_vars PROVE PlannerInv'
  OBVIOUS
<1>1. CASE UNCHANGED vars
  <2>1. UNCHANGED <<replenishment, req, desk>>
    BY <1>1 DEF vars
  <2>2. UNCHANGED <<stock, order, lapse>>
    BY <2>1 DEF replenishment
  <2>3. (PlannerTyped' <=> PlannerTyped) /\ (PagesTyped' <=> PagesTyped) /\ (InitReplenishment' <=> InitReplenishment)
    BY <2>1, <2>2 DEF PlannerTyped, PagesTyped, InitReplenishment
  <2>4. \A l \in Places : Position(l)' = Position(l) /\ Ceiling(l)' = Ceiling(l)
    BY <2>2, CeilingsStay DEF Position, Coming, Destination
  <2>5. NotOverordered' <=> NotOverordered
    BY <2>2, <2>4 DEF NotOverordered
  <2> QED BY <2>1, <2>3, <2>5 DEF PlannerInv
<1>2. CASE Next /\ desk # "planner"
  <2>1. UNCHANGED replenishment /\ desk' = desk
    BY <1>2, OtherTables, OneDesk
  <2>2. UNCHANGED <<stock, order, lapse>>
    BY <2>1 DEF replenishment
  <2> QED BY <1>2, <2>1, <2>2 DEF PlannerInv, InitReplenishment
<1>3. CASE Next /\ desk = "planner"
  <2>1. NextPlanner /\ desk' = desk
    BY <1>3, OneDesk
  <2> QED BY <1>3, <2>1, PlannerKeeps DEF PlannerInv
<1> QED BY <1>1, <1>2, <1>3

(* To begin with a place has its supply, and nothing is ordered. *)
LEMMA PlannerBegins == InitReplenishment => PlannerTyped /\ NotOverordered
<1> SUFFICES ASSUME InitReplenishment PROVE PlannerTyped /\ NotOverordered
  OBVIOUS
<1>1. OrderTyped(NoOrder) /\ NoOrder.left = 0
  BY DEF OrderTyped, NoOrder
<1>2. \A i \in Slots : order[i] = NoOrder
  BY DEF InitReplenishment
<1>3. \A l \in Places : /\ stock[l] = [onhand |-> Supply[l], reserved |-> 0, transit |-> 0]
                        /\ stock[l] \in [onhand : Int, reserved : Nat, transit : Nat] /\ Supply[l] \in Nat
  BY PolicyAssumption DEF InitReplenishment
<1>4. PlannerTyped
  BY <1>1, <1>2, <1>3 DEF PlannerTyped, InitReplenishment
<1>5. ASSUME NEW l \in Places PROVE Position(l) <= Ceiling(l)
  <2> DEFINE g == [k \in Slots |-> IF Destination(k) = l THEN order[k].left ELSE 0]
  <2>1. g \in [Slots -> Int] /\ \A k \in Slots : g[k] = 0
    BY <1>1, <1>2
  <2>2. Coming(l) = SumFunction(g)
    BY DEF Coming
  <2> HIDE DEF g
  <2>3. Coming(l) = 0
    BY <2>1, <2>2, SumZero, PolicyAssumption
  <2>4. Position(l) = Supply[l]
    <3>1. stock[l].onhand = Supply[l] /\ stock[l].reserved = 0 /\ stock[l].transit = 0 /\ Supply[l] \in Nat
      <4>1. stock[l] = [onhand |-> Supply[l], reserved |-> 0, transit |-> 0] /\ Supply[l] \in Nat
        BY <1>3
      <4> QED BY <4>1
    <3> QED BY <2>3, <3>1 DEF Position
  <2> QED BY <2>4, CeilingAllows
<1> QED BY <1>4, <1>5 DEF NotOverordered

(* However requests race and orders are withdrawn, amended and received in parts: unless
   something was ordered that the plan did not see or ask for, no place has and is getting
   more than its policy aims at. *)
THEOREM ReordersStayWithinPolicy == Spec => []NotOverordered
<1>1. Init => PlannerInv
  <2> SUFFICES ASSUME Init PROVE PlannerInv
    OBVIOUS
  <2>1. InitReplenishment /\ RequestsOK /\ AllIdle
    BY RequestsBegin DEF Init
  <2>2. PagesTyped
    BY <2>1 DEF PagesTyped, AllIdle, RequestsOK
  <2> QED BY <2>1, <2>2, PlannerBegins DEF PlannerInv
<1>2. PlannerInv => NotOverordered
  BY PlannerBegins DEF PlannerInv
<1> QED BY <1>1, <1>2, PlannerInductive, PTL DEF Spec

-----------------------------------------------------------------------------
(* Channel orders.  While posts come one at a time, an order that was never refused half
   way holds what it asked for while it is a draft and has sent nothing; the reservations
   are theirs and nobody else's; and a pending post has read a draft. *)

(* What a draft keeps reserved. *)
OnHold(o, p) == IF sale[o].status = "DRAFT" /\ o \notin torn THEN Total(ToHold(o), p) ELSE 0

ChannelTables ==
  /\ sale = [o \in ChannelOrderIds |-> sale[o]]
  /\ sent = [o \in ChannelOrderIds |-> sent[o]]
  /\ shelf = [p \in Parts |-> [onhand |-> shelf[p].onhand, reserved |-> shelf[p].reserved]]

HoldsBooked ==
  \A o \in ChannelOrderIds :
    /\ \A p \in Parts : sale[o].held[p] = OnHold(o, p)
    /\ o \in torn => sale[o].status \in {"DRAFT", "POSTED"}
SentOnce(o) ==
  IF sale[o].status # "POSTED" THEN sent[o] = NoParts /\ sale[o].cogs = 0
  ELSE sent[o] = [p \in Parts |-> Total(ToShip(o), p)] /\ sale[o].cogs = Worth(sent[o])
ShelfBooked ==
  \A p \in Parts : shelf[p].reserved = SumFunction([o \in ChannelOrderIds |-> OnHold(o, p)])
ReadDrafts ==
  \A c \in Clients : req[c] # Idle =>
    req[c].sale \in ChannelOrderIds /\ (calm => sale[req[c].sale].status = "DRAFT")

ChannelKept == HoldsBooked /\ ShelfBooked /\ \A o \in ChannelOrderIds \ torn : SentOnce(o)
ChannelWell == ChannelTables /\ RequestsOK /\ ReadDrafts /\ (calm => ChannelKept)
ChannelInv == IF desk = "channel" THEN ChannelWell ELSE InitChannel

(* The first wants that ask for a part ask for a number of it. *)
LEMMA AskedNatural ==
  ASSUME NEW wants, NEW n \in Nat, NEW p,
         \A i \in 1 .. n : wants[i].qty \in Nat
  PROVE  Asked(wants, n, p) \in Nat
<1> DEFINE f == [i \in 1 .. n |-> IF wants[i].part = p THEN wants[i].qty ELSE 0]
<1>1. IsFiniteSet(1 .. n)
  <2>1. 1 \in Int /\ n \in Int
    OBVIOUS
  <2> QED BY <2>1, FS_Interval
<1>2. f \in [1 .. n -> Nat]
  OBVIOUS
<1>3. Asked(wants, n, p) = SumFunction(f)
  BY DEF Asked
<1> HIDE DEF f
<1>4. n \in Int
  OBVIOUS
<1> QED BY <1>1, <1>2, <1>3, SumNatural

(* A draft books a natural number of each part. *)
LEMMA HoldNatural ==
  ASSUME NEW o \in ChannelOrderIds, NEW p \in Parts
  PROVE  Total(ToHold(o), p) \in Nat
<1> DEFINE w == ToHold(o)
<1>1. w \in Seq([part : Parts, qty : Nat])
  BY WantsAssumption
<1> HIDE DEF w
<1>2. Len(w) \in Nat /\ \A i \in 1 .. Len(w) : w[i].qty \in Nat
  <2> DEFINE Wants == [part : Parts, qty : Nat]
  <2>1. \A x \in Wants : x.qty \in Nat
    OBVIOUS
  <2>2. w \in Seq(Wants)
    BY <1>1
  <2> HIDE DEF Wants
  <2>3. Len(w) \in Nat /\ \A i \in 1 .. Len(w) : w[i] \in Wants
    BY <2>2
  <2> QED BY <2>1, <2>3
<1>3. Asked(w, Len(w), p) \in Nat
  BY <1>2, AskedNatural
<1> QED BY <1>3 DEF Total, w

(* What an order asks for does not change. *)
LEMMA WantsStay ==
  ASSUME NEW o, NEW p
  PROVE  Total(ToHold(o), p)' = Total(ToHold(o), p) /\ Total(ToShip(o), p)' = Total(ToShip(o), p)
BY DEF Total, Asked, ToHold, ToShip, Explode, ToBaseQty, Rates, RatesFor, Refusal, HalfUp

(* A greatest of one number and some of the numbers up to n. *)
LEMMA GreatestUpTo ==
  ASSUME NEW n \in Nat, NEW T \in SUBSET (1 .. n)
  PROVE  Max({0} \cup T) \in {0} \cup T
<1> DEFINE S == {0} \cup T
           Gap == {n - x : x \in S}
<1>1. Gap \in SUBSET Nat /\ Gap # {}
  OBVIOUS
<1> HIDE DEF Gap
<1>2. PICK g \in Gap : \A h \in Gap : g <= h
  BY <1>1, SmallestNumber
<1>3. PICK x \in S : g = n - x
  BY DEF Gap
<1>4. \A y \in S : x >= y
  <2> TAKE y \in S
  <2>1. n - y \in Gap
    BY DEF Gap
  <2>2. n - x <= n - y /\ x \in Int /\ y \in Int
    BY <1>2, <1>3, <2>1
  <2> QED BY <2>2
<1> HIDE DEF S
<1>5. Max(S) \in S
  BY <1>4 DEF Max
<1> QED BY <1>5 DEF S

(* What goes out whole is all that was asked for, in numbers. *)
LEMMA WholeShipment ==
  ASSUME NEW o \in ChannelOrderIds, Shipping(ToShip(o)).ok
  PROVE  /\ Shipping(ToShip(o)).out = [p \in Parts |-> Total(ToShip(o), p)]
         /\ \A p \in Parts : Total(ToShip(o), p) \in Nat
<1> DEFINE w == ToShip(o)
           there == [p \in Parts |-> shelf[p].onhand]
           T == {n \in DOMAIN w : \A k \in 1 .. n : Goes(w, k, there)}
<1>1. w \in Seq([part : Parts, qty : Nat] \cup {Refusal})
  BY WantsAssumption
<1>2. Moved(w) = Len(w)
  BY DEF Shipping
<1>3. Moved(w) = Max({0} \cup T)
  BY DEF Moved
<1>4. Shipping(w).out = [p \in Parts |-> Asked(w, Moved(w), p)]
  BY DEF Shipping
<1> HIDE DEF w, there
<1>5. Len(w) \in Nat /\ DOMAIN w = 1 .. Len(w)
  BY <1>1
<1>6. T \in SUBSET (1 .. Len(w))
  BY <1>5
<1> HIDE DEF T
<1>7. Len(w) \in {0} \cup T
  BY <1>2, <1>3, <1>5, <1>6, GreatestUpTo
<1>8. \A k \in 1 .. Len(w) : w[k] # Refusal
  BY <1>5, <1>7 DEF T, Goes
<1>9. \A k \in 1 .. Len(w) : w[k].qty \in Nat
  BY <1>1, <1>5, <1>8
<1>10. \A p \in Parts : Asked(w, Len(w), p) \in Nat
  BY <1>5, <1>9, AskedNatural
<1> QED BY <1>2, <1>4, <1>10 DEF Total, w

(* What drafts reserve together is a number. *)
LEMMA ReservedNumbers ==
  ASSUME ChannelKept, NEW p \in Parts
  PROVE  shelf[p].reserved \in Int
<1> DEFINE f == [x \in ChannelOrderIds |-> OnHold(x, p)]
<1>1. f \in [ChannelOrderIds -> Int]
  BY HoldNatural DEF OnHold
<1>2. shelf[p].reserved = SumFunction(f)
  BY DEF ChannelKept, ShelfBooked
<1> HIDE DEF f
<1> QED BY <1>1, <1>2, SumInteger, ChannelAssumption

(* What is reserved moves with the one order that changes what it books. *)
LEMMA ShelfFollows ==
  ASSUME ShelfBooked, NEW o \in ChannelOrderIds,
         \A x \in ChannelOrderIds \ {o} : \A p \in Parts : OnHold(x, p)' = OnHold(x, p),
         \A p \in Parts : shelf'[p].reserved = shelf[p].reserved + OnHold(o, p)' - OnHold(o, p)
  PROVE  ShelfBooked'
<1> SUFFICES ASSUME NEW p \in Parts
             PROVE  shelf'[p].reserved = SumFunction([x \in ChannelOrderIds |-> OnHold(x, p)'])
  BY DEF ShelfBooked
<1> DEFINE f == [x \in ChannelOrderIds |-> OnHold(x, p)]
           h == [x \in ChannelOrderIds |-> OnHold(x, p)']
<1>1. f \in [ChannelOrderIds -> Int] /\ h \in [ChannelOrderIds -> Int]
  <2>1. \A x \in ChannelOrderIds : Total(ToHold(x), p)' = Total(ToHold(x), p) /\ Total(ToHold(x), p) \in Nat
    BY HoldNatural, WantsStay
  <2>2. \A x \in ChannelOrderIds : OnHold(x, p) \in Int /\ OnHold(x, p)' \in Int
    BY <2>1 DEF OnHold
  <2> QED BY <2>2
<1>2. \A x \in ChannelOrderIds \ {o} : h[x] = f[x]
  OBVIOUS
<1>3. f[o] = OnHold(o, p) /\ h[o] = OnHold(o, p)'
  OBVIOUS
<1>4. shelf[p].reserved = SumFunction(f)
  BY DEF ShelfBooked
<1> HIDE DEF f, h
<1>5. SumFunction(h) = SumFunction(f) + h[o] - f[o]
  BY <1>1, <1>2, SumUpdate, ChannelAssumption
<1>6. shelf'[p].reserved = SumFunction(h)
  BY <1>3, <1>4, <1>5
<1> QED BY <1>6 DEF h

(* What one order does to itself, the others keep to theirs. *)
LEMMA OrderKeepsBooks ==
  ASSUME ChannelKept, NEW o \in ChannelOrderIds,
         \A x \in ChannelOrderIds \ {o} :
           sale'[x] = sale[x] /\ sent'[x] = sent[x] /\ (x \in torn' <=> x \in torn),
         \A p \in Parts : /\ sale'[o].held[p] = OnHold(o, p)'
                          /\ shelf'[p].reserved = shelf[p].reserved + OnHold(o, p)' - OnHold(o, p),
         o \in torn' => sale'[o].status \in {"DRAFT", "POSTED"},
         o \notin torn' => SentOnce(o)'
  PROVE  ChannelKept'
<1>1. ASSUME NEW x \in ChannelOrderIds \ {o}, NEW p \in Parts PROVE OnHold(x, p)' = OnHold(x, p)
  BY WantsStay DEF OnHold
<1>2. ShelfBooked'
  BY <1>1, ShelfFollows DEF ChannelKept
<1>3. HoldsBooked'
  BY <1>1 DEF HoldsBooked, ChannelKept
<1>4. ASSUME NEW x \in ChannelOrderIds \ torn' PROVE SentOnce(x)'
  <2>1. CASE x = o
    BY <2>1
  <2>2. CASE x # o
    <3>1. sale'[x] = sale[x] /\ sent'[x] = sent[x] /\ SentOnce(x)
      BY <2>2 DEF ChannelKept
    <3>2. Worth(sent[x])' = Worth(sent[x])
      BY <3>1 DEF Worth
    <3>3. NoParts' = NoParts
      BY DEF NoParts
    <3>4. [p \in Parts |-> Total(ToShip(x), p)]' = [p \in Parts |-> Total(ToShip(x), p)]
      BY WantsStay
    <3> QED BY <3>1, <3>2, <3>3, <3>4 DEF SentOnce
  <2> QED BY <2>1, <2>2
<1> QED BY <1>2, <1>3, <1>4 DEF ChannelKept

(* A draft holds what it asks for ... *)
LEMMA DraftKept ==
  ASSUME ChannelWell, NEW o \in ChannelOrderIds, CreateSalesOrder(o)
  PROVE  ChannelWell'
<1>1. RequestsOK' /\ (calm' => calm /\ AllIdle)
  BY RequestRuns DEF ChannelWell, CreateSalesOrder
<1> DEFINE holds == [p \in Parts |-> Total(ToHold(o), p)]
<1>2. /\ sale'[o] = [status |-> "DRAFT", cogs |-> 0, held |-> holds]
      /\ \A x \in ChannelOrderIds \ {o} : sale'[x] = sale[x]
      /\ sale' = [x \in ChannelOrderIds |-> sale'[x]]
  BY DEF ChannelWell, ChannelTables, CreateSalesOrder
<1>3. UNCHANGED <<sent, torn, req>> /\ sale[o].status = "NONE"
  BY DEF CreateSalesOrder
<1>4. \A p \in Parts : shelf'[p] = [shelf[p] EXCEPT !.reserved = @ + Total(ToHold(o), p)]
  BY DEF CreateSalesOrder
<1>5. \A p \in Parts : /\ shelf'[p] = [onhand |-> shelf'[p].onhand, reserved |-> shelf'[p].reserved]
                       /\ shelf'[p].reserved = shelf[p].reserved + Total(ToHold(o), p)
  <2> TAKE p \in Parts
  <2>1. shelf[p] = [onhand |-> shelf[p].onhand, reserved |-> shelf[p].reserved]
    BY DEF ChannelWell, ChannelTables
  <2> QED BY <1>4, <2>1
<1>6. ChannelTables'
  <2>1. shelf' = [p \in Parts |-> shelf'[p]] /\ sent = [x \in ChannelOrderIds |-> sent[x]]
    BY DEF ChannelWell, ChannelTables, CreateSalesOrder
  <2> QED BY <1>2, <1>3, <1>5, <2>1 DEF ChannelTables
<1>7. ReadDrafts'
  BY <1>1, <1>2, <1>3 DEF ChannelWell, ReadDrafts, AllIdle
<1>8. ASSUME calm' PROVE ChannelKept'
  <2>1. ChannelKept
    BY <1>1, <1>8 DEF ChannelWell
  <2>2. o \notin torn /\ SentOnce(o)
    BY <1>3, <2>1 DEF ChannelKept, HoldsBooked
  <2>3. \A p \in Parts : /\ OnHold(o, p) = 0 /\ OnHold(o, p)' = Total(ToHold(o), p)
                         /\ sale'[o].held[p] = Total(ToHold(o), p)
    BY <1>2, <1>3, <2>2, WantsStay DEF OnHold
  <2>4. SentOnce(o)'
    BY <1>2, <1>3, <2>2 DEF SentOnce, NoParts
  <2>5. \A p \in Parts : shelf[p].reserved \in Int /\ Total(ToHold(o), p) \in Nat
    <3> TAKE p \in Parts
    <3>1. Total(ToHold(o), p) \in Nat
      BY HoldNatural
    <3>2. shelf[p].reserved \in Int
      BY <2>1, ReservedNumbers
    <3> QED BY <3>1, <3>2
  <2>6. \A p \in Parts : /\ sale'[o].held[p] = OnHold(o, p)'
                         /\ shelf'[p].reserved = shelf[p].reserved + OnHold(o, p)' - OnHold(o, p)
    <3> TAKE p \in Parts
    <3>1. /\ OnHold(o, p) = 0 /\ OnHold(o, p)' = Total(ToHold(o), p)
          /\ sale'[o].held[p] = Total(ToHold(o), p)
      BY <2>3
    <3>2. shelf'[p].reserved = shelf[p].reserved + Total(ToHold(o), p)
      BY <1>5
    <3>3. shelf[p].reserved \in Int /\ Total(ToHold(o), p) \in Nat
      BY <2>5
    <3> QED BY <3>1, <3>2, <3>3
  <2> QED BY <1>2, <1>3, <2>1, <2>2, <2>4, <2>6, OrderKeepsBooks
<1> QED BY <1>1, <1>6, <1>7, <1>8 DEF ChannelWell

(* ... and one posted at once ships it. *)
LEMMA PostedKept ==
  ASSUME ChannelWell, NEW o \in ChannelOrderIds, CreatePosted(o)
  PROVE  ChannelWell'
<1> DEFINE s == Shipping(ToShip(o))
<1>0. s.ok
  BY DEF CreatePosted
<1>1. RequestsOK' /\ (calm' => calm /\ AllIdle)
  BY RequestRuns DEF ChannelWell, CreatePosted
<1>2. /\ sale'[o] = [status |-> "POSTED", held |-> NoParts, cogs |-> Worth(s.out)]
      /\ \A x \in ChannelOrderIds \ {o} : sale'[x] = sale[x] /\ sent'[x] = sent[x]
      /\ sale' = [x \in ChannelOrderIds |-> sale'[x]] /\ sent' = [x \in ChannelOrderIds |-> sent'[x]]
      /\ sent'[o] = s.out
  BY DEF ChannelWell, ChannelTables, CreatePosted
<1>3. UNCHANGED <<torn, req>> /\ sale[o].status = "NONE"
  BY DEF CreatePosted
<1>4. \A p \in Parts : shelf'[p] = [shelf[p] EXCEPT !.onhand = s.left[p]]
  BY DEF CreatePosted
<1>5. shelf' = [p \in Parts |-> shelf'[p]]
  BY DEF CreatePosted
<1>6. s.out = [p \in Parts |-> Total(ToShip(o), p)]
  BY <1>0, WholeShipment
<1> HIDE DEF s
<1>7. \A p \in Parts : /\ shelf'[p] = [onhand |-> shelf'[p].onhand, reserved |-> shelf'[p].reserved]
                       /\ shelf'[p].reserved = shelf[p].reserved
  <2> TAKE p \in Parts
  <2>1. shelf[p] = [onhand |-> shelf[p].onhand, reserved |-> shelf[p].reserved]
    BY DEF ChannelWell, ChannelTables
  <2> QED BY <1>4, <2>1
<1>8. ChannelTables'
  BY <1>2, <1>5, <1>7 DEF ChannelTables
<1>9. ReadDrafts'
  BY <1>1, <1>2, <1>3 DEF ChannelWell, ReadDrafts, AllIdle
<1>10. ASSUME calm' PROVE ChannelKept'
  <2>1. ChannelKept
    BY <1>1, <1>10 DEF ChannelWell
  <2>2. o \notin torn
    BY <1>3, <2>1 DEF ChannelKept, HoldsBooked
  <2>3. \A p \in Parts : OnHold(o, p) = 0 /\ OnHold(o, p)' = 0 /\ sale'[o].held[p] = 0
    BY <1>2, <1>3 DEF OnHold, NoParts
  <2>4. SentOnce(o)'
    <3>1. sent'[o] = [p \in Parts |-> Total(ToShip(o), p)']
      BY <1>2, <1>6, WantsStay
    <3>2. sale'[o].status = "POSTED" /\ sale'[o].cogs = Worth(sent[o])'
      BY <1>2 DEF Worth
    <3> QED BY <3>1, <3>2 DEF SentOnce
  <2>5. \A p \in Parts : shelf[p].reserved \in Int
    BY <2>1, ReservedNumbers
  <2>6. \A p \in Parts : /\ sale'[o].held[p] = OnHold(o, p)'
                         /\ shelf'[p].reserved = shelf[p].reserved + OnHold(o, p)' - OnHold(o, p)
    <3> TAKE p \in Parts
    <3>1. OnHold(o, p) = 0 /\ OnHold(o, p)' = 0 /\ sale'[o].held[p] = 0
      BY <2>3
    <3>2. shelf'[p].reserved = shelf[p].reserved /\ shelf[p].reserved \in Int
      BY <1>7, <2>5
    <3> QED BY <3>1, <3>2
  <2> QED BY <1>2, <1>3, <2>1, <2>2, <2>4, <2>6, OrderKeepsBooks
<1> QED BY <1>1, <1>8, <1>9, <1>10 DEF ChannelWell

(* Posting a draft ships it whole and releases what it held, or stops half way. *)
LEMMA PostKept ==
  ASSUME ChannelWell, NEW c \in Clients, CommitPostSale(c)
  PROVE  ChannelWell'
<1>0. PICK o \in ChannelOrderIds : o = req[c].sale
  BY DEF ChannelWell, ReadDrafts, CommitPostSale
<1> DEFINE s == Shipping(ToShip(o))
<1>1. RequestsOK' /\ (calm' => calm) /\ (calm => \A d \in Clients : req'[d] = Idle)
      /\ \A d \in Clients : req'[d] = Idle \/ req'[d] = req[d]
  <2>1. RequestsOK /\ req' = [req EXCEPT ![c] = Idle] /\ UNCHANGED overlaps /\ req[c] # Idle
    BY DEF ChannelWell, CommitPostSale
  <2>2. /\ RequestsOK' /\ (calm' => calm) /\ req'[c] = Idle
        /\ \A d \in Clients \ {c} : req'[d] = req[d] /\ (calm /\ req[c] # Idle => req'[d] = Idle)
    BY <2>1, RequestEnds
  <2> QED BY <2>1, <2>2
<1>2. calm => sale[o].status = "DRAFT"
  BY <1>0 DEF ChannelWell, ReadDrafts, CommitPostSale
<1>3. PostSalesOrder(o)
  BY <1>0 DEF CommitPostSale
<1>4. /\ s.ok => Shipping(ToShip(o)).out = [p \in Parts |-> Total(ToShip(o), p)]
      /\ s.ok => \A p \in Parts : Total(ToShip(o), p) \in Nat
  BY WholeShipment
<1>5. /\ sale' = [sale EXCEPT ![o] =
             [status |-> IF s.ok THEN "POSTED" ELSE sale[o].status,
              held   |-> [p \in Parts |-> sale[o].held[p] - Consumed(o, p)],
              cogs   |-> IF s.ok THEN Cogs(o, s.out) ELSE sale[o].cogs]]
      /\ shelf' = [p \in Parts |->
             [onhand |-> s.left[p], reserved |-> shelf[p].reserved - Consumed(o, p)]]
      /\ sent' = [sent EXCEPT ![o] = [p \in Parts |-> sent[o][p] + s.out[p]]]
      /\ torn' = IF s.ok THEN torn ELSE torn \cup {o}
  BY <1>3 DEF PostSalesOrder
<1> HIDE DEF s
<1>6. /\ sale'[o].status = IF s.ok THEN "POSTED" ELSE sale[o].status
      /\ \A p \in Parts : sale'[o].held[p] = sale[o].held[p] - sale[o].held[p]
      /\ sale'[o].cogs = IF s.ok THEN Cogs(o, s.out) ELSE sale[o].cogs
      /\ sent'[o] = [p \in Parts |-> sent[o][p] + s.out[p]]
      /\ \A x \in ChannelOrderIds \ {o} : sale'[x] = sale[x] /\ sent'[x] = sent[x]
  BY <1>2, <1>5 DEF ChannelWell, ChannelTables, Consumed
<1>7. \A p \in Parts : shelf'[p].reserved = shelf[p].reserved - sale[o].held[p]
  BY <1>5 DEF Consumed
<1>8. ChannelTables'
  <2>1. sale' = [x \in ChannelOrderIds |-> sale'[x]] /\ sent' = [x \in ChannelOrderIds |-> sent'[x]]
    BY <1>5 DEF ChannelWell, ChannelTables
  <2>2. shelf' = [p \in Parts |-> [onhand |-> shelf'[p].onhand, reserved |-> shelf'[p].reserved]]
    BY <1>5
  <2> QED BY <2>1, <2>2 DEF ChannelTables
<1>9. ReadDrafts'
  <2> SUFFICES ASSUME NEW d \in Clients, req'[d] # Idle
               PROVE  req'[d].sale \in ChannelOrderIds /\ (calm' => sale'[req'[d].sale].status = "DRAFT")
    BY DEF ReadDrafts
  <2>1. ~ calm /\ ~ calm' /\ req'[d] = req[d]
    BY <1>1
  <2> QED BY <2>1 DEF ChannelWell, ReadDrafts
<1>10. ASSUME calm' PROVE ChannelKept'
  <2>1. ChannelKept /\ sale[o].status = "DRAFT"
    BY <1>1, <1>2, <1>10 DEF ChannelWell
  <2>2. o \in torn' => sale'[o].status \in {"DRAFT", "POSTED"}
    BY <1>6, <2>1
  <2>3. \A p \in Parts : /\ sale'[o].held[p] = OnHold(o, p)'
                         /\ shelf'[p].reserved = shelf[p].reserved + OnHold(o, p)' - OnHold(o, p)
    <3> TAKE p \in Parts
    <3>1. sale[o].held[p] = OnHold(o, p) /\ OnHold(o, p) \in Int
      BY <1>2, <2>1, HoldNatural DEF ChannelKept, HoldsBooked, OnHold
    <3>2. OnHold(o, p)' = 0
      BY <1>5, <1>6 DEF OnHold
    <3>3. shelf[p].reserved \in Int
      BY <2>1, ReservedNumbers
    <3>4. sale'[o].held[p] = sale[o].held[p] - sale[o].held[p]
      BY <1>6
    <3>5. shelf'[p].reserved = shelf[p].reserved - sale[o].held[p]
      BY <1>7
    <3> QED BY <3>1, <3>2, <3>3, <3>4, <3>5
  <2>4. ASSUME o \notin torn' PROVE SentOnce(o)'
    <3>1. s.ok /\ o \notin torn /\ sale'[o].status = "POSTED"
      BY <1>5, <1>6, <2>4
    <3>2. sent[o] = NoParts /\ sale[o].cogs = 0
      BY <1>2, <2>1, <3>1 DEF ChannelKept, SentOnce
    <3>3. s.out = [p \in Parts |-> Total(ToShip(o), p)] /\ \A p \in Parts : Total(ToShip(o), p) \in Nat
      BY <1>4, <3>1 DEF s
    <3>4. \A p \in Parts : sent[o][p] + s.out[p] = Total(ToShip(o), p)
      <4> TAKE p \in Parts
      <4>1. sent[o][p] = 0 /\ s.out[p] = Total(ToShip(o), p) /\ Total(ToShip(o), p) \in Nat
        BY <3>2, <3>3 DEF NoParts
      <4> QED BY <4>1
    <3>5. sent'[o] = [p \in Parts |-> Total(ToShip(o), p)]
      BY <1>6, <3>4
    <3>6. sale'[o].cogs = Worth(s.out) /\ s.out = sent'[o]
      BY <1>6, <3>1, <3>2, <3>3, <3>5 DEF Cogs
    <3>7. sale'[o].cogs = Worth(sent[o])'
      BY <3>6 DEF Worth
    <3>8. sent'[o] = [p \in Parts |-> Total(ToShip(o), p)']
      BY <3>5, WantsStay
    <3> QED BY <3>1, <3>7, <3>8 DEF SentOnce
  <2>5. \A x \in ChannelOrderIds \ {o} : x \in torn' <=> x \in torn
    BY <1>5
  <2> QED BY <1>2, <1>6, <2>1, <2>2, <2>3, <2>4, <2>5, OrderKeepsBooks
<1> QED BY <1>1, <1>8, <1>9, <1>10 DEF ChannelWell

(* Where only the stock on hand changes, what is kept stays. *)
LEMMA TablesStay ==
  ASSUME ChannelTables, UNCHANGED <<sale, sent, torn>>,
         shelf' = [p \in Parts |-> [onhand |-> shelf'[p].onhand, reserved |-> shelf'[p].reserved]],
         \A p \in Parts : shelf'[p].reserved = shelf[p].reserved
  PROVE  ChannelTables' /\ (ChannelKept' <=> ChannelKept)
<1>1. ChannelTables'
  BY DEF ChannelTables
<1>2. \A o \in ChannelOrderIds, p \in Parts : OnHold(o, p)' = OnHold(o, p)
  BY WantsStay DEF OnHold
<1>3. HoldsBooked' <=> HoldsBooked
  BY <1>2 DEF HoldsBooked
<1>4. ShelfBooked' <=> ShelfBooked
  BY <1>2 DEF ShelfBooked
<1>5. \A o \in ChannelOrderIds : SentOnce(o)' <=> SentOnce(o)
  <2> TAKE o \in ChannelOrderIds
  <2>1. [p \in Parts |-> Total(ToShip(o), p)]' = [p \in Parts |-> Total(ToShip(o), p)]
    BY WantsStay
  <2>2. Worth(sent[o])' = Worth(sent[o]) /\ NoParts' = NoParts
    BY DEF Worth, NoParts
  <2> QED BY <2>1, <2>2 DEF SentOnce
<1> QED BY <1>1, <1>3, <1>4, <1>5 DEF ChannelKept

(* A step of the desk keeps it so ... *)
LEMMA ChannelKeeps == ASSUME ChannelWell, NextChannel PROVE ChannelWell'
<1>1. ASSUME NEW c \in Clients, NEW o \in ChannelOrderIds, LoadPostSale(c, o) PROVE ChannelWell'
  <2>1. /\ RequestsOK' /\ (calm' => calm /\ AllIdle) /\ req'[c] = [sale |-> o]
        /\ \A d \in Clients \ {c} : req'[d] = req[d]
    BY <1>1, RequestLoads DEF ChannelWell, LoadPostSale
  <2>2. UNCHANGED <<sale, sent, shelf, torn>> /\ sale[o].status = "DRAFT"
    BY <1>1 DEF LoadPostSale, channel
  <2>3. ReadDrafts'
    BY <2>1, <2>2 DEF ChannelWell, ReadDrafts, AllIdle
  <2>4. ChannelTables' /\ (ChannelKept' <=> ChannelKept)
    BY <2>2, TablesStay DEF ChannelWell, ChannelTables
  <2> QED BY <2>1, <2>3, <2>4 DEF ChannelWell
<1>2. ASSUME NEW p \in Parts, Restock(p) PROVE ChannelWell'
  <2>1. UNCHANGED <<sale, sent, torn, req, overlaps>>
    BY <1>2 DEF Restock
  <2>2. /\ shelf' = [q \in Parts |-> [onhand |-> shelf'[q].onhand, reserved |-> shelf'[q].reserved]]
        /\ \A q \in Parts : shelf'[q].reserved = shelf[q].reserved
    <3>1. shelf' = [shelf EXCEPT ![p].onhand = @ + 2]
      BY <1>2 DEF Restock
    <3>2. /\ shelf' = [q \in Parts |-> shelf'[q]]
          /\ \A q \in Parts : shelf[q] = [onhand |-> shelf[q].onhand, reserved |-> shelf[q].reserved]
      BY <3>1 DEF ChannelWell, ChannelTables
    <3>3. \A q \in Parts : shelf'[q] = IF q = p THEN [shelf[q] EXCEPT !.onhand = @ + 2] ELSE shelf[q]
      BY <3>1, <3>2 DEF ChannelWell, ChannelTables
    <3>4. \A q \in Parts : /\ shelf'[q] = [onhand |-> shelf'[q].onhand, reserved |-> shelf'[q].reserved]
                           /\ shelf'[q].reserved = shelf[q].reserved
      BY <3>2, <3>3
    <3> QED BY <3>2, <3>4
  <2>3. ChannelTables' /\ (ChannelKept' <=> ChannelKept)
    BY <2>1, <2>2, TablesStay DEF ChannelWell
  <2>4. RequestsOK' /\ ReadDrafts' /\ (calm' <=> calm)
    BY <2>1 DEF ChannelWell, RequestsOK, Alone, ReadDrafts, calm
  <2> QED BY <2>3, <2>4 DEF ChannelWell
<1> QED BY <1>1, <1>2, DraftKept, PostedKept, PostKept DEF NextChannel

(* ... and so does any step. *)
LEMMA ChannelInductive == ChannelInv /\ [Next]_vars => ChannelInv'
<1> SUFFICES ASSUME ChannelInv, [Next]_vars PROVE ChannelInv'
  OBVIOUS
<1>1. CASE UNCHANGED vars
  <2>1. UNCHANGED <<channel, req, overlaps, desk>>
    BY <1>1 DEF vars
  <2>2. UNCHANGED <<sale, sent, shelf, torn, arrivals>>
    BY <2>1 DEF channel
  <2>3. CASE desk = "channel"
    <3>1. ChannelWell
      BY <2>3 DEF ChannelInv
    <3>2. ChannelTables' /\ (ChannelKept' <=> ChannelKept)
      BY <2>2, <3>1, TablesStay DEF ChannelWell, ChannelTables
    <3>3. RequestsOK' /\ ReadDrafts' /\ (calm' <=> calm)
      BY <2>1, <2>2, <3>1 DEF ChannelWell, RequestsOK, Alone, ReadDrafts, calm
    <3> QED BY <2>1, <2>3, <3>1, <3>2, <3>3 DEF ChannelInv, ChannelWell
  <2>4. CASE desk # "channel"
    BY <2>1, <2>2, <2>4 DEF ChannelInv, InitChannel, NoParts
  <2> QED BY <2>3, <2>4
<1>2. CASE Next /\ desk # "channel"
  <2>1. UNCHANGED channel /\ desk' = desk
    BY <1>2, OtherTables, OneDesk
  <2>2. UNCHANGED <<sale, sent, shelf, torn, arrivals>>
    BY <2>1 DEF channel
  <2> QED BY <1>2, <2>1, <2>2 DEF ChannelInv, InitChannel, NoParts
<1>3. CASE Next /\ desk = "channel"
  <2>1. NextChannel /\ desk' = desk
    BY <1>3, OneDesk
  <2> QED BY <1>3, <2>1, ChannelKeeps DEF ChannelInv
<1> QED BY <1>1, <1>2, <1>3

(* To begin with there is no order, and nothing is reserved. *)
LEMMA ChannelBegins == InitChannel => ChannelTables /\ ChannelKept
<1> SUFFICES ASSUME InitChannel PROVE ChannelTables /\ ChannelKept
  OBVIOUS
<1>1. \A o \in ChannelOrderIds : /\ sale[o] = [status |-> "NONE", held |-> NoParts, cogs |-> 0]
                                 /\ sent[o] = NoParts
  BY DEF InitChannel
<1>2. torn = {} /\ \A p \in Parts : shelf[p] = [onhand |-> Shelf[p], reserved |-> 0]
  BY DEF InitChannel
<1>3. ChannelTables
  <2>1. sale = [o \in ChannelOrderIds |-> sale[o]] /\ sent = [o \in ChannelOrderIds |-> sent[o]]
    BY DEF InitChannel
  <2>2. shelf = [p \in Parts |-> [onhand |-> shelf[p].onhand, reserved |-> shelf[p].reserved]]
    BY DEF InitChannel
  <2> QED BY <2>1, <2>2 DEF ChannelTables
<1>4. \A o \in ChannelOrderIds, p \in Parts : OnHold(o, p) = 0
  BY <1>1 DEF OnHold
<1>5. HoldsBooked
  BY <1>1, <1>2, <1>4 DEF HoldsBooked, NoParts
<1>6. ShelfBooked
  <2> SUFFICES ASSUME NEW p \in Parts
               PROVE  shelf[p].reserved = SumFunction([o \in ChannelOrderIds |-> OnHold(o, p)])
    BY DEF ShelfBooked
  <2> DEFINE f == [o \in ChannelOrderIds |-> OnHold(o, p)]
  <2>1. f \in [ChannelOrderIds -> Int] /\ \A o \in ChannelOrderIds : f[o] = 0
    BY <1>4
  <2> HIDE DEF f
  <2>2. SumFunction(f) = 0
    BY <2>1, SumZero, ChannelAssumption
  <2>3. SumFunction([o \in ChannelOrderIds |-> OnHold(o, p)]) = 0
    BY <2>2 DEF f
  <2>4. shelf[p].reserved = 0
    <3>1. shelf[p] = [onhand |-> Shelf[p], reserved |-> 0]
      BY <1>2
    <3> QED BY <3>1
  <2> QED BY <2>3, <2>4
<1>7. \A o \in ChannelOrderIds : SentOnce(o)
  BY <1>1 DEF SentOnce
<1> QED BY <1>3, <1>5, <1>6, <1>7 DEF ChannelKept

(* As long as posts come one at a time, an order of a channel ships what its lines ask for
   and once, with its cost in one journal, unless its post was refused half way; and stock
   is reserved for the drafts that wait and for no other. *)
THEOREM ChannelOrdersShipOnce == Spec => []ChannelShipsOnce
<1>1. Init => ChannelInv
  <2> SUFFICES ASSUME Init PROVE ChannelInv
    OBVIOUS
  <2>1. InitChannel /\ RequestsOK /\ AllIdle
    BY RequestsBegin DEF Init
  <2>2. ReadDrafts
    BY <2>1 DEF ReadDrafts, AllIdle
  <2> QED BY <2>1, <2>2, ChannelBegins DEF ChannelInv, ChannelWell
<1>2. ChannelInv => ChannelShipsOnce
  <2>1. ChannelKept => ChannelShipsOnce
    <3> SUFFICES ASSUME ChannelKept PROVE ChannelShipsOnce
      OBVIOUS
    <3>1. \A o \in ChannelOrderIds \ torn : SentOnce(o)
      BY DEF ChannelKept
    <3>2. \A p \in Parts : shelf[p].reserved =
            SumFunction([o \in ChannelOrderIds |->
              IF sale[o].status = "DRAFT" /\ o \notin torn THEN Total(ToHold(o), p) ELSE 0])
      BY DEF ChannelKept, ShelfBooked, OnHold
    <3> QED BY <3>1, <3>2 DEF ChannelShipsOnce, SentOnce
  <2>2. ChannelInv => (calm => ChannelKept)
    BY ChannelBegins DEF ChannelInv, ChannelWell
  <2>3. ~ calm => ChannelShipsOnce
    BY DEF ChannelShipsOnce
  <2> QED BY <2>1, <2>2, <2>3
<1> QED BY <1>1, <1>2, ChannelInductive, PTL DEF Spec

-----------------------------------------------------------------------------
(* Planning runs, a specification of its own over the same requests.  While requests come
   one at a time, an order and its document know each other, what a request has yet to
   handle is as it read it, and a run under way has planned each need once but those it
   reported or has yet to come to. *)

Listed(o) == {d \in DocIds : o \in created[d].lines}
OrdersOf(n) == {o \in Live : po[o].need = n}
PlannedOnce(n, except) ==
  IF n \in except THEN OrdersOf(n) = {} ELSE \E o \in Orders : OrdersOf(n) = {o}

OrdersWell ==
  /\ po = [o \in Orders |-> [status |-> po[o].status, need |-> po[o].need, docs |-> po[o].docs]]
  /\ mrpRun = [status |-> mrpRun.status, reported |-> mrpRun.reported]
OrderLinked(o) ==
  /\ Exists(o) => po[o].docs = Listed(o)
  /\ Exists(o) /\ po[o].status = "CONVERTED" => \E d \in DocIds : po[o].docs = {d}
  /\ Exists(o) /\ po[o].status # "CONVERTED" => po[o].docs = {}
  /\ po[o].status = "NONE" => Listed(o) = {}
DocumentsLinked ==
  /\ \A o \in Orders : OrderLinked(o)
  /\ \A d \in DocIds : created[d].kind = "NONE" => created[d].lines = {}
NeedsPlanned == mrpRun.status = "COMPLETED" => \A n \in Needs : PlannedOnce(n, mrpRun.reported)

Unconverted(o) == o \in Orders => Exists(o) /\ po[o].status # "CONVERTED"
RowsAsRead(r) ==
  /\ r = [op |-> r.op, arg |-> r.arg, left |-> r.left]
  /\ r.op \in {"start", "clear"} => r.left = Needs
  /\ r.op \in {"clear", "plan"} => mrpRun.status # "COMPLETED"
  /\ r.op = "plan" => /\ r.left \cap mrpRun.reported = {}
                      /\ \A n \in Needs : PlannedOnce(n, r.left \cup mrpRun.reported)
  /\ r.op = "status" => r.arg \in StatusActions /\ \A o \in r.left : Unconverted(o)
  /\ r.op = "apply" => \A row \in r.left : Unconverted(row.order)
  /\ r.op = "convert" =>
       /\ r.arg \in BuyTargets
       /\ \A row \in r.left : /\ row.order \in Orders /\ Unconverted(row.order)
                              /\ row = [order |-> row.order, need |-> po[row.order].need]

PlanKept ==
  /\ OrdersWell /\ DocumentsLinked /\ NeedsPlanned
  /\ \A c \in Clients : req[c] # Idle => RowsAsRead(req[c])
PlanWell ==
  /\ RequestsOK /\ created = [d \in DocIds |-> created[d]] /\ sourceOf \in Sourcings
  /\ calm => PlanKept

(* A request goes on, and is still alone. *)
LEMMA RequestGoesOn ==
  ASSUME RequestsOK, NEW c \in Clients, NEW r, req[c] # Idle, req' = [req EXCEPT ![c] = r],
         UNCHANGED overlaps
  PROVE  /\ RequestsOK' /\ (calm' <=> calm) /\ req'[c] = r
         /\ calm => \A d \in Clients \ {c} : req[d] = Idle /\ req'[d] = Idle
BY DEF RequestsOK, Alone, calm

(* A free number is free. *)
LEMMA FreeOrder ==
  ASSUME \E o \in Orders : po[o].status = "NONE"
  PROVE  NextOrder \in Orders /\ po[NextOrder].status = "NONE"
<1> DEFINE S == {o \in Orders : po[o].status = "NONE"}
<1>1. S \in SUBSET Nat /\ S # {}
  BY RowsAssumption DEF Orders
<1>2. NextOrder = Min(S)
  BY DEF NextOrder
<1>3. S \subseteq Orders /\ \A o \in S : po[o].status = "NONE"
  OBVIOUS
<1> HIDE DEF S
<1>4. \E n \in S : \A m \in S : n <= m
  BY <1>1, SmallestNumber
<1>5. Min(S) \in S
  BY <1>4 DEF Min
<1> QED BY <1>2, <1>3, <1>5

(* And so is one for a document. *)
LEMMA FreeDoc ==
  ASSUME \E d \in DocIds : created[d].kind = "NONE"
  PROVE  NextDoc \in DocIds /\ created[NextDoc].kind = "NONE"
<1> DEFINE S == {d \in DocIds : created[d].kind = "NONE"}
<1>1. S \in SUBSET Nat /\ S # {}
  BY RowsAssumption DEF DocIds
<1>2. NextDoc = Min(S)
  BY DEF NextDoc
<1>3. S \subseteq DocIds /\ \A d \in S : created[d].kind = "NONE"
  OBVIOUS
<1> HIDE DEF S
<1>4. \E n \in S : \A m \in S : n <= m
  BY <1>1, SmallestNumber
<1>5. Min(S) \in S
  BY <1>4 DEF Min
<1> QED BY <1>2, <1>3, <1>5

(* Orders of a need are the same while nothing but their status changes. *)
LEMMA PlannedStay ==
  ASSUME \A o \in Orders : po'[o].need = po[o].need /\ (Exists(o)' <=> Exists(o)),
         UNCHANGED mrpRun
  PROVE  /\ \A n : OrdersOf(n)' = OrdersOf(n)
         /\ NeedsPlanned => NeedsPlanned'
<1>1. \A n : OrdersOf(n)' = OrdersOf(n)
  BY DEF OrdersOf, Live
<1> QED BY <1>1 DEF NeedsPlanned, PlannedOnce

(* Where no row of an order, a document or the run changes. *)
LEMMA PlanStays ==
  ASSUME UNCHANGED <<po, created, mrpRun>>
  PROVE  /\ (OrdersWell' <=> OrdersWell) /\ (DocumentsLinked' <=> DocumentsLinked)
         /\ (NeedsPlanned' <=> NeedsPlanned)
         /\ \A c \in Clients : req'[c] = req[c] => (RowsAsRead(req[c])' <=> RowsAsRead(req[c]))
<1>1. \A o : (Exists(o)' <=> Exists(o)) /\ Listed(o)' = Listed(o)
  BY DEF Exists, Listed
<1>2. \A n : OrdersOf(n)' = OrdersOf(n)
  BY <1>1 DEF OrdersOf, Live
<1>3. OrdersWell' <=> OrdersWell
  BY DEF OrdersWell
<1>4. DocumentsLinked' <=> DocumentsLinked
  BY <1>1 DEF DocumentsLinked, OrderLinked
<1>5. NeedsPlanned' <=> NeedsPlanned
  BY <1>2 DEF NeedsPlanned, PlannedOnce
<1>6. \A o : Unconverted(o)' <=> Unconverted(o)
  BY <1>1 DEF Unconverted
<1>7. ASSUME NEW c \in Clients, req'[c] = req[c] PROVE RowsAsRead(req[c])' <=> RowsAsRead(req[c])
  BY <1>2, <1>6, <1>7 DEF RowsAsRead, PlannedOnce
<1> QED BY <1>3, <1>4, <1>5, <1>7

(* A request is read in. *)
LEMMA LoadKept ==
  ASSUME PlanWell, NEW c \in Clients, NEW op, NEW arg, NEW left, LoadRows(c, op, arg, left),
         UNCHANGED sourceOf,
         PlanKept => RowsAsRead([op |-> op, arg |-> arg, left |-> left])
  PROVE  PlanWell'
<1>0. PICK r : r = [op |-> op, arg |-> arg, left |-> left]
  OBVIOUS
<1>1. /\ req[c] = Idle /\ Start /\ req' = [req EXCEPT ![c] = r]
      /\ UNCHANGED <<po, created, mrpRun>>
  BY <1>0 DEF LoadRows
<1>2. PlanKept => RowsAsRead(r)
  BY <1>0
<1>3. /\ RequestsOK' /\ (calm' => calm /\ AllIdle) /\ req'[c] = r
      /\ \A d \in Clients \ {c} : req'[d] = req[d]
  BY <1>1, RequestLoads DEF PlanWell
<1>4. ASSUME calm' PROVE PlanKept'
  <2>1. calm /\ PlanKept /\ \A d \in Clients : req[d] = Idle
    BY <1>3, <1>4 DEF PlanWell, AllIdle
  <2>2. OrdersWell' /\ DocumentsLinked' /\ NeedsPlanned'
    BY <1>1, <2>1, PlanStays DEF PlanKept
  <2>3. RowsAsRead(r)
    BY <1>2, <2>1
  <2>4. RowsAsRead(r)'
    <3>1. \A o : (Exists(o)' <=> Exists(o))
      BY <1>1 DEF Exists
    <3>2. \A n : OrdersOf(n)' = OrdersOf(n)
      BY <1>1, <3>1 DEF OrdersOf, Live
    <3>3. \A o : Unconverted(o)' <=> Unconverted(o)
      BY <1>1, <3>1 DEF Unconverted
    <3> QED BY <1>1, <2>3, <3>2, <3>3 DEF RowsAsRead, PlannedOnce
  <2>5. \A d \in Clients : req'[d] # Idle => RowsAsRead(req[d])'
    <3> SUFFICES ASSUME NEW d \in Clients, req'[d] # Idle PROVE RowsAsRead(req[d])'
      OBVIOUS
    <3>1. d = c /\ req'[d] = r
      BY <1>3, <2>1
    <3> QED BY <2>4, <3>1
  <2> QED BY <2>2, <2>5 DEF PlanKept
<1> QED BY <1>1, <1>3, <1>4 DEF PlanWell

(* What requests read. *)
LEMMA LoadsKept ==
  ASSUME PlanWell, UNCHANGED sourceOf, NEW c \in Clients, NEW chosen, NEW status \in StatusActions,
         NEW buyTarget \in BuyTargets,
         \/ LoadMrpRun(c) \/ LoadApply(c, chosen) \/ LoadReject(c, chosen)
         \/ chosen \subseteq Live /\ (LoadStatus(c, status, chosen) \/ LoadConvert(c, buyTarget, chosen))
  PROVE  PlanWell'
<1>0. \A o \in Orders : po[o].status \in Undecided => Exists(o) /\ po[o].status # "CONVERTED"
  BY DEF Undecided, Exists
<1>1. CASE LoadMrpRun(c)
  <2>1. RowsAsRead([op |-> "start", arg |-> "", left |-> Needs])
    BY DEF RowsAsRead
  <2> QED BY <1>1, <2>1, LoadKept DEF LoadMrpRun
<1>2. CASE LoadStatus(c, status, chosen)
  <2>1. PICK left : left = {o \in chosen : Changeable(o)}
    OBVIOUS
  <2>2. \A o \in left : Unconverted(o)
    BY <1>0, <2>1 DEF Unconverted, Changeable
  <2>3. RowsAsRead([op |-> "status", arg |-> status, left |-> left])
    BY <2>2 DEF RowsAsRead
  <2>4. LoadRows(c, "status", status, left)
    BY <1>2, <2>1 DEF LoadStatus
  <2> QED BY <2>3, <2>4, LoadKept
<1>3. CASE chosen \subseteq Live /\ LoadConvert(c, buyTarget, chosen)
  <2>1. PICK left : left = {[order |-> o, need |-> po[o].need] : o \in {p \in chosen : Eligible(p, buyTarget)}}
    OBVIOUS
  <2>2. ASSUME NEW row \in left
        PROVE  /\ row.order \in Orders /\ Unconverted(row.order)
               /\ row = [order |-> row.order, need |-> po[row.order].need]
    <3>1. PICK o \in chosen : row = [order |-> o, need |-> po[o].need] /\ Eligible(o, buyTarget)
      BY <2>1
    <3>2. o \in Orders /\ po[o].status \in Undecided
      BY <1>3, <3>1 DEF Live, Eligible
    <3> QED BY <1>0, <3>1, <3>2 DEF Unconverted
  <2>3. RowsAsRead([op |-> "convert", arg |-> buyTarget, left |-> left])
    BY <2>2 DEF RowsAsRead
  <2>4. LoadRows(c, "convert", buyTarget, left)
    BY <1>3, <2>1 DEF LoadConvert
  <2> QED BY <2>3, <2>4, LoadKept
<1>4. CASE LoadApply(c, chosen)
  <2>1. PICK left : left = {[id |-> s, order |-> sug[s].order] : s \in {t \in chosen : Applicable(t)}}
    OBVIOUS
  <2>2. \A row \in left : Unconverted(row.order)
    BY <1>0, <2>1 DEF Unconverted, Applicable
  <2>3. RowsAsRead([op |-> "apply", arg |-> "", left |-> left])
    BY <2>2 DEF RowsAsRead
  <2>4. LoadRows(c, "apply", "", left)
    BY <1>4, <2>1 DEF LoadApply
  <2> QED BY <2>3, <2>4, LoadKept
<1>5. CASE LoadReject(c, chosen)
  <2>1. PICK left : left = {s \in chosen : sug[s].status = "SUGGESTED"}
    OBVIOUS
  <2>2. RowsAsRead([op |-> "reject", arg |-> "", left |-> left])
    BY DEF RowsAsRead
  <2>3. LoadRows(c, "reject", "", left)
    BY <1>5, <2>1 DEF LoadReject
  <2> QED BY <2>2, <2>3, LoadKept
<1> QED BY <1>1, <1>2, <1>3, <1>4, <1>5

(* A request that handles rows stays in step if its rows do. *)
LEMMA GoesOnKept ==
  ASSUME PlanWell, NEW c \in Clients, NEW r, req[c] # Idle, req' = [req EXCEPT ![c] = r],
         UNCHANGED <<overlaps, sourceOf>>, created' = [d \in DocIds |-> created'[d]],
         PlanKept => OrdersWell' /\ DocumentsLinked' /\ NeedsPlanned',
         PlanKept => r = Idle \/ RowsAsRead(r)'
  PROVE  PlanWell'
<1>1. /\ RequestsOK' /\ (calm' <=> calm) /\ req'[c] = r
      /\ calm => \A d \in Clients \ {c} : req[d] = Idle /\ req'[d] = Idle
  BY RequestGoesOn DEF PlanWell
<1>2. ASSUME calm PROVE PlanKept'
  <2>1. PlanKept
    BY <1>2 DEF PlanWell
  <2>2. \A d \in Clients : req'[d] # Idle => RowsAsRead(req[d])'
    BY <1>1, <1>2, <2>1
  <2> QED BY <2>1, <2>2 DEF PlanKept
<1> QED BY <1>1, <1>2 DEF PlanWell

(* An order that is no document's may be firmed, ignored or cancelled. *)
LEMMA StatusChange ==
  ASSUME PlanKept, NEW o \in Orders, Unconverted(o), NEW status,
         status \notin {"NONE", "DELETED", "CONVERTED"},
         po' = [po EXCEPT ![o].status = status], UNCHANGED <<created, mrpRun>>
  PROVE  /\ OrdersWell' /\ DocumentsLinked' /\ NeedsPlanned'
         /\ \A x : Unconverted(x) => Unconverted(x)'
<1>1. /\ po' = [x \in Orders |-> IF x = o THEN [status |-> status, need |-> po[x].need, docs |-> po[x].docs]
                                ELSE [status |-> po[x].status, need |-> po[x].need, docs |-> po[x].docs]]
  BY DEF PlanKept, OrdersWell
<1>2. \A x \in Orders : /\ po'[x].need = po[x].need /\ po'[x].docs = po[x].docs
                        /\ po'[x].status = IF x = o THEN status ELSE po[x].status
  BY <1>1
<1>3. Exists(o) /\ po[o].status # "CONVERTED"
  BY DEF Unconverted
<1>4. \A x \in Orders : (Exists(x)' <=> Exists(x)) /\ Listed(x)' = Listed(x)
  BY <1>2, <1>3 DEF Exists, Listed
<1>5. OrdersWell'
  BY <1>1, <1>2 DEF OrdersWell, PlanKept
<1>6. \A x : Unconverted(x) => Unconverted(x)'
  BY <1>2, <1>4 DEF Unconverted
<1>7. DocumentsLinked'
  <2>1. \A x \in Orders : OrderLinked(x)'
    <3> SUFFICES ASSUME NEW x \in Orders PROVE OrderLinked(x)'
      OBVIOUS
    <3>1. OrderLinked(x) /\ (Exists(x)' <=> Exists(x)) /\ Listed(x)' = Listed(x) /\ po'[x].docs = po[x].docs
      BY <1>2, <1>4 DEF PlanKept, DocumentsLinked
    <3>2. po'[x].status = IF x = o THEN status ELSE po[x].status
      BY <1>2
    <3> QED BY <1>3, <3>1, <3>2 DEF OrderLinked, Exists
  <2> QED BY <2>1 DEF PlanKept, DocumentsLinked
<1>8. NeedsPlanned'
  BY <1>2, <1>4, PlannedStay DEF PlanKept
<1> QED BY <1>5, <1>6, <1>7, <1>8

(* Changes of status, suggestions applied and rejected. *)
LEMMA DecisionsKept ==
  ASSUME PlanWell, NEW c \in Clients, UNCHANGED sourceOf,
         \/ \E o \in Orders : SetStatus(c, o)
         \/ \E s, o : o \in Orders /\ ApplySuggestion(c, [id |-> s, order |-> o])
         \/ \E s : Reject(c, s)
  PROVE  PlanWell'
<1>1. /\ req[c] # Idle /\ UNCHANGED <<overlaps, created, mrpRun>>
      /\ req[c].op \in {"status", "apply", "reject"}
  BY DEF SetStatus, ApplySuggestion, Reject, Handling, counters
<1>2. PICK rows : Abort(c) \/ Handled(c, rows)
  BY DEF SetStatus, ApplySuggestion, Reject
<1>3. PICK r : /\ req' = [req EXCEPT ![c] = r]
               /\ r = Idle \/ r = [req[c] EXCEPT !.left = req[c].left \ rows]
  BY <1>2 DEF Abort, Handled
<1>4. ASSUME PlanKept
      PROVE  /\ OrdersWell' /\ DocumentsLinked' /\ NeedsPlanned'
             /\ req[c].op # "reject" => \A x : Unconverted(x) => Unconverted(x)'
  <2>1. CASE UNCHANGED po
    <3>1. \A x : Unconverted(x)' <=> Unconverted(x)
      BY <2>1 DEF Unconverted, Exists
    <3> QED BY <1>1, <1>4, <2>1, <3>1, PlanStays DEF PlanKept
  <2>2. ASSUME NEW o \in Orders, SetStatus(c, o), ~ UNCHANGED po
        PROVE  \E status : /\ status \notin {"NONE", "DELETED", "CONVERTED"} /\ Unconverted(o)
                           /\ po' = [po EXCEPT ![o].status = status]
    <3>1. o \in req[c].left /\ req[c].op = "status" /\ po' = [po EXCEPT ![o].status = req[c].arg]
      BY <2>2 DEF SetStatus, Handling
    <3>2. req[c].arg \in StatusActions /\ Unconverted(o)
      BY <1>1, <1>4, <3>1 DEF PlanKept, RowsAsRead
    <3> QED BY <3>1, <3>2 DEF StatusActions
  <2>3. ASSUME NEW s, NEW o \in Orders, ApplySuggestion(c, [id |-> s, order |-> o]), ~ UNCHANGED po
        PROVE  \E status : /\ status \notin {"NONE", "DELETED", "CONVERTED"} /\ Unconverted(o)
                           /\ po' = [po EXCEPT ![o].status = status]
    <3>1. /\ [id |-> s, order |-> o] \in req[c].left /\ req[c].op = "apply"
          /\ po' = [po EXCEPT ![o].status = "CANCELLED"]
      BY <2>3 DEF ApplySuggestion, Handling
    <3>2. Unconverted(o)
      BY <1>1, <1>4, <3>1 DEF PlanKept, RowsAsRead
    <3> QED BY <3>1, <3>2
  <2>4. CASE ~ UNCHANGED po
    <3>1. PICK o \in Orders : SetStatus(c, o) \/ \E s : ApplySuggestion(c, [id |-> s, order |-> o])
      BY <2>4 DEF Reject
    <3>2. PICK status : /\ status \notin {"NONE", "DELETED", "CONVERTED"} /\ Unconverted(o)
                        /\ po' = [po EXCEPT ![o].status = status]
      BY <2>2, <2>3, <2>4, <3>1
    <3> QED BY <1>1, <1>4, <3>2, StatusChange
  <2> QED BY <2>1, <2>4
<1>5. PlanKept => r = Idle \/ RowsAsRead(r)'
  <2> SUFFICES ASSUME PlanKept, r # Idle PROVE RowsAsRead(r)'
    OBVIOUS
  <2>1. RowsAsRead(req[c])
    BY <1>1 DEF PlanKept
  <2>2. r = [op |-> req[c].op, arg |-> req[c].arg, left |-> req[c].left \ rows]
    BY <1>3, <2>1 DEF RowsAsRead
  <2>3. r.op = req[c].op /\ r.arg = req[c].arg /\ r.left \subseteq req[c].left
        /\ r = [op |-> r.op, arg |-> r.arg, left |-> r.left]
    BY <2>2
  <2> QED BY <1>1, <1>4, <2>1, <2>3 DEF RowsAsRead
<1>6. created' = [d \in DocIds |-> created'[d]]
  BY <1>1 DEF PlanWell
<1> QED BY <1>1, <1>3, <1>4, <1>5, <1>6, GoesOnKept

(* A run begins, clears what it planned before, and ends. *)
LEMMA RunsKept ==
  ASSUME PlanWell, NEW c \in Clients, UNCHANGED sourceOf,
         \/ StartRun(c) \/ ClearRun(c) \/ \E status \in {"COMPLETED", "CANCELLED"} : FinishRun(c, status)
  PROVE  PlanWell'
<1>1. req[c] # Idle /\ UNCHANGED <<overlaps, created>>
  BY DEF StartRun, ClearRun, FinishRun, Running, counters
<1>2. created' = [d \in DocIds |-> created'[d]]
  BY <1>1 DEF PlanWell
<1>3. CASE StartRun(c)
  <2>1. PICK r : r = [req[c] EXCEPT !.op = "clear"] /\ req' = [req EXCEPT ![c] = r]
    BY <1>3 DEF StartRun
  <2>2. ASSUME PlanKept
        PROVE  OrdersWell' /\ DocumentsLinked' /\ NeedsPlanned' /\ RowsAsRead(r)'
    <3>1. req[c].op = "start" /\ UNCHANGED <<po, created>>
          /\ mrpRun' = [status |-> "RUNNING", reported |-> mrpRun.reported]
      BY <1>3, <2>2 DEF StartRun, Running, PlanKept, OrdersWell
    <3>2. \A o : (Exists(o)' <=> Exists(o)) /\ Listed(o)' = Listed(o)
      BY <3>1 DEF Exists, Listed
    <3>3. OrdersWell' /\ DocumentsLinked'
      BY <2>2, <3>1, <3>2 DEF PlanKept, OrdersWell, DocumentsLinked, OrderLinked
    <3>4. NeedsPlanned'
      BY <3>1 DEF NeedsPlanned
    <3>5. RowsAsRead(req[c])
      BY <1>1, <2>2 DEF PlanKept
    <3>6. r = [op |-> "clear", arg |-> req[c].arg, left |-> Needs]
      BY <2>1, <3>1, <3>5 DEF RowsAsRead
    <3>7. RowsAsRead(r)'
      BY <3>1, <3>6 DEF RowsAsRead
    <3> QED BY <3>3, <3>4, <3>7
  <2> QED BY <1>1, <1>2, <2>1, <2>2, GoesOnKept
<1>4. CASE ClearRun(c)
  <2>1. PICK r : r = [req[c] EXCEPT !.op = "plan"] /\ req' = [req EXCEPT ![c] = r]
    BY <1>4 DEF ClearRun
  <2>2. ASSUME PlanKept
        PROVE  OrdersWell' /\ DocumentsLinked' /\ NeedsPlanned' /\ RowsAsRead(r)'
    <3>1. /\ req[c].op = "clear" /\ UNCHANGED created
          /\ mrpRun' = [status |-> mrpRun.status, reported |-> {}]
          /\ po' = [o \in Orders |-> Cleared(o)]
      BY <1>4, <2>2 DEF ClearRun, Running, PlanKept, OrdersWell
    <3>2. RowsAsRead(req[c])
      BY <1>1, <2>2 DEF PlanKept
    <3>3. mrpRun.status # "COMPLETED"
          /\ r = [op |-> "plan", arg |-> req[c].arg, left |-> Needs]
      BY <2>1, <3>1, <3>2 DEF RowsAsRead
    <3>4. \A o \in Orders :
            /\ po'[o] = [status |-> po'[o].status, need |-> po'[o].need, docs |-> po'[o].docs]
            /\ po'[o].status \in {"NONE", "DELETED"}
            /\ po'[o].status = "NONE" => po[o].status = "NONE"
      <4> TAKE o \in Orders
      <4>1. po[o] = [status |-> po[o].status, need |-> po[o].need, docs |-> po[o].docs]
        BY <2>2 DEF PlanKept, OrdersWell
      <4>2. po'[o] = IF Exists(o) THEN [status |-> "DELETED", need |-> NoNeed, docs |-> {}] ELSE po[o]
        BY <3>1 DEF Cleared, DeletedOrder, NoPlannedOrder
      <4>3. CASE Exists(o)
        BY <4>2, <4>3
      <4>4. CASE ~ Exists(o)
        BY <4>1, <4>2, <4>4 DEF Exists
      <4> QED BY <4>3, <4>4
    <3>5. OrdersWell'
      BY <3>1, <3>4 DEF OrdersWell
    <3>6. \A o \in Orders : ~ Exists(o)' /\ Listed(o)' = Listed(o)
      BY <3>1, <3>4 DEF Exists, Listed
    <3>7. DocumentsLinked'
      BY <2>2, <3>1, <3>4, <3>6 DEF PlanKept, DocumentsLinked, OrderLinked
    <3>8. NeedsPlanned' /\ \A n : OrdersOf(n)' = {}
      BY <3>1, <3>3, <3>6 DEF NeedsPlanned, OrdersOf, Live
    <3>9. RowsAsRead(r)'
      BY <3>1, <3>3, <3>8 DEF RowsAsRead, PlannedOnce
    <3> QED BY <3>5, <3>7, <3>8, <3>9
  <2> QED BY <1>1, <1>2, <2>1, <2>2, GoesOnKept
<1>5. ASSUME NEW status \in {"COMPLETED", "CANCELLED"}, FinishRun(c, status) PROVE PlanWell'
  <2>1. req' = [req EXCEPT ![c] = Idle]
    BY <1>5 DEF FinishRun, Abort
  <2>2. ASSUME PlanKept PROVE OrdersWell' /\ DocumentsLinked' /\ NeedsPlanned'
    <3>1. req[c].op = "plan" /\ req[c].left = {} /\ UNCHANGED <<po, created>>
          /\ mrpRun' = [status |-> status, reported |-> mrpRun.reported]
      BY <1>5, <2>2 DEF FinishRun, Running, PlanKept, OrdersWell
    <3>2. \A o : (Exists(o)' <=> Exists(o)) /\ Listed(o)' = Listed(o)
      BY <3>1 DEF Exists, Listed
    <3>3. OrdersWell' /\ DocumentsLinked'
      BY <2>2, <3>1, <3>2 DEF PlanKept, OrdersWell, DocumentsLinked, OrderLinked
    <3>4. \A n : OrdersOf(n)' = OrdersOf(n)
      BY <3>1, <3>2 DEF OrdersOf, Live
    <3>5. RowsAsRead(req[c])
      BY <1>1, <2>2 DEF PlanKept
    <3>6. \A n \in Needs : PlannedOnce(n, mrpRun.reported)
      <4>1. {} \cup mrpRun.reported = mrpRun.reported
        OBVIOUS
      <4>2. \A n \in Needs : PlannedOnce(n, req[c].left \cup mrpRun.reported)
        BY <3>1, <3>5 DEF RowsAsRead
      <4> QED BY <3>1, <4>1, <4>2
    <3>7. NeedsPlanned'
      BY <3>1, <3>4, <3>6 DEF NeedsPlanned, PlannedOnce
    <3> QED BY <3>3, <3>7
  <2> QED BY <1>1, <1>2, <2>1, <2>2, GoesOnKept
<1> QED BY <1>3, <1>4, <1>5

(* A need is planned, or reported. *)
LEMMA PlanNeedKept ==
  ASSUME PlanWell, NEW c \in Clients, UNCHANGED sourceOf, NEW n \in Needs, PlanNeed(c, n)
  PROVE  PlanWell'
<1>1. /\ req[c] # Idle /\ UNCHANGED <<overlaps, created>> /\ req[c].op = "plan" /\ n \in req[c].left
  BY DEF PlanNeed, Handling, counters
<1>2. created' = [d \in DocIds |-> created'[d]]
  BY <1>1 DEF PlanWell
<1>3. PICK r : r = [req[c] EXCEPT !.left = req[c].left \ {n}] /\ req' = [req EXCEPT ![c] = r]
  BY DEF PlanNeed
<1>4. ASSUME PlanKept PROVE OrdersWell' /\ DocumentsLinked' /\ NeedsPlanned' /\ RowsAsRead(r)'
  <2>1. /\ RowsAsRead(req[c]) /\ mrpRun.status # "COMPLETED" /\ req[c].left \cap mrpRun.reported = {}
        /\ \A m \in Needs : PlannedOnce(m, req[c].left \cup mrpRun.reported)
    BY <1>1, <1>4 DEF PlanKept, RowsAsRead
  <2>2. r = [op |-> "plan", arg |-> req[c].arg, left |-> req[c].left \ {n}]
    BY <1>1, <1>3, <2>1 DEF RowsAsRead
  <2>3. CASE UNCHANGED po /\ mrpRun' = [mrpRun EXCEPT !.reported = @ \cup {n}]
    <3>1. mrpRun' = [status |-> mrpRun.status, reported |-> mrpRun.reported \cup {n}]
      BY <1>4, <2>3 DEF PlanKept, OrdersWell
    <3>2. \A o : (Exists(o)' <=> Exists(o)) /\ Listed(o)' = Listed(o)
      BY <1>1, <2>3 DEF Exists, Listed
    <3>3. OrdersWell' /\ DocumentsLinked'
      BY <1>1, <1>4, <2>3, <3>1, <3>2 DEF PlanKept, OrdersWell, DocumentsLinked, OrderLinked
    <3>4. \A m : OrdersOf(m)' = OrdersOf(m)
      BY <2>3, <3>2 DEF OrdersOf, Live
    <3>5. NeedsPlanned'
      BY <2>1, <3>1 DEF NeedsPlanned
    <3>6. r.left \cup mrpRun'.reported = req[c].left \cup mrpRun.reported
          /\ r.left \cap mrpRun'.reported = {}
      BY <1>1, <2>1, <2>2, <3>1
    <3>7. RowsAsRead(r)'
      BY <2>1, <2>2, <3>1, <3>4, <3>6 DEF RowsAsRead, PlannedOnce
    <3> QED BY <3>3, <3>5, <3>7
  <2>4. CASE /\ \E o \in Orders : po[o].status = "NONE"
             /\ po' = [po EXCEPT ![NextOrder] = [status |-> "SUGGESTED", need |-> n, docs |-> {}]]
             /\ UNCHANGED mrpRun
    <3>1. PICK new \in Orders : new = NextOrder /\ po[new].status = "NONE"
      BY <2>4, FreeOrder
    <3>2. /\ po'[new] = [status |-> "SUGGESTED", need |-> n, docs |-> {}]
          /\ \A o \in Orders \ {new} : po'[o] = po[o]
          /\ po' = [o \in Orders |-> po'[o]]
      BY <1>4, <2>4, <3>1 DEF PlanKept, OrdersWell
    <3>3. OrdersWell'
      BY <1>4, <2>4, <3>2 DEF PlanKept, OrdersWell
    <3>4. \A o \in Orders : Listed(o)' = Listed(o) /\ (Exists(o)' <=> Exists(o) \/ o = new)
      BY <1>1, <3>2 DEF Exists, Listed
    <3>5. DocumentsLinked'
      <4>1. \A o \in Orders \ {new} : OrderLinked(o)'
        BY <1>1, <1>4, <3>2, <3>4 DEF PlanKept, DocumentsLinked, OrderLinked
      <4>2. OrderLinked(new)'
        <5>1. Listed(new) = {}
          BY <1>4, <3>1 DEF PlanKept, DocumentsLinked, OrderLinked
        <5> QED BY <3>2, <3>4, <5>1 DEF OrderLinked
      <4> QED BY <1>1, <1>4, <4>1, <4>2 DEF PlanKept, DocumentsLinked
    <3>6. NeedsPlanned'
      BY <2>1, <2>4 DEF NeedsPlanned
    <3>7. ~ Exists(new)
      BY <3>1 DEF Exists
    <3>8. \A m \in Needs : OrdersOf(m)' = IF m = n THEN OrdersOf(m) \cup {new} ELSE OrdersOf(m)
      BY <3>2, <3>4, <3>7 DEF OrdersOf, Live
    <3>9. \A m \in Needs : PlannedOnce(m, r.left \cup mrpRun.reported)'
      <4> SUFFICES ASSUME NEW m \in Needs PROVE PlannedOnce(m, r.left \cup mrpRun.reported)'
        OBVIOUS
      <4>1. PlannedOnce(m, req[c].left \cup mrpRun.reported)
        BY <2>1
      <4>2. CASE m = n
        <5>1. OrdersOf(m)' = {new} /\ m \notin r.left \cup mrpRun.reported
          BY <1>1, <2>1, <2>2, <3>8, <4>1, <4>2 DEF PlannedOnce
        <5> QED BY <2>4, <5>1 DEF PlannedOnce
      <4>3. CASE m # n
        <5>1. OrdersOf(m)' = OrdersOf(m)
              /\ (m \in r.left \cup mrpRun.reported <=> m \in req[c].left \cup mrpRun.reported)
          BY <2>2, <3>8, <4>3
        <5> QED BY <2>4, <4>1, <5>1 DEF PlannedOnce
      <4> QED BY <4>2, <4>3
    <3>10. RowsAsRead(r)'
      BY <2>1, <2>2, <2>4, <3>9 DEF RowsAsRead
    <3> QED BY <3>3, <3>5, <3>6, <3>10
  <2> QED BY <2>3, <2>4 DEF PlanNeed
<1> QED BY <1>1, <1>2, <1>3, <1>4, GoesOnKept

(* What a group is converted to is a document of some kind. *)
LEMMA TargetIsKind ==
  ASSUME NEW need \in Needs, NEW buyTarget \in BuyTargets, sourceOf \in Sourcings
  PROVE  ConversionTarget(need, buyTarget) # "NONE"
<1>1. sourceOf[need] \in {"BUY", "SUBCONTRACT", "TRANSFER", "MAKE"}
  BY NeedAssumption
<1> QED BY <1>1 DEF ConversionTarget, BuyTargets

(* A group of orders and their new document know each other. *)
LEMMA GroupDrafted ==
  ASSUME PlanKept, NEW new \in DocIds, created[new].kind = "NONE",
         NEW orders \in SUBSET Orders, \A o \in orders : Exists(o) /\ po[o].status # "CONVERTED",
         NEW target, target # "NONE",
         created = [d \in DocIds |-> created[d]],
         created' = [created EXCEPT ![new] = Drafted(target, orders)],
         po' = [o \in Orders |-> IF o \in orders THEN Marked(po[o], new) ELSE po[o]],
         UNCHANGED mrpRun
  PROVE  /\ OrdersWell' /\ DocumentsLinked' /\ NeedsPlanned'
         /\ \A o \in Orders : po'[o].need = po[o].need /\ (o \notin orders => po'[o] = po[o])
<1>1. \A o \in Orders :
        po'[o] = IF o \in orders
                   THEN [status |-> "CONVERTED", need |-> po[o].need, docs |-> po[o].docs \cup {new}]
                   ELSE [status |-> po[o].status, need |-> po[o].need, docs |-> po[o].docs]
  <2> TAKE o \in Orders
  <2>1. po[o] = [status |-> po[o].status, need |-> po[o].need, docs |-> po[o].docs]
    BY DEF PlanKept, OrdersWell
  <2>2. CASE o \in orders
    <3>1. po'[o] = Marked(po[o], new)
      BY <2>2
    <3>2. Marked(po[o], new) = [status |-> "CONVERTED", need |-> po[o].need, docs |-> po[o].docs \cup {new}]
      <4>1. PICK x, more : x = po[o] /\ more = po[o].docs \cup {new}
        OBVIOUS
      <4>2. x = [status |-> x.status, need |-> x.need, docs |-> x.docs]
        BY <2>1, <4>1
      <4>3. Marked(po[o], new) = [[x EXCEPT !.status = "CONVERTED"] EXCEPT !.docs = more]
        BY <4>1, <4>2 DEF Marked
      <4>4. [x EXCEPT !.status = "CONVERTED"] = [status |-> "CONVERTED", need |-> x.need, docs |-> x.docs]
        BY <4>2
      <4> QED BY <4>1, <4>3, <4>4
    <3> QED BY <2>2, <3>1, <3>2
  <2>3. CASE o \notin orders
    BY <2>1, <2>3
  <2> QED BY <2>2, <2>3
<1>2. OrdersWell'
  <2>1. \A o \in Orders : po'[o] = [status |-> po'[o].status, need |-> po'[o].need, docs |-> po'[o].docs]
    BY <1>1
  <2>2. po' = [o \in Orders |-> po'[o]]
    OBVIOUS
  <2> QED BY <2>1, <2>2 DEF PlanKept, OrdersWell
<1>3. \A o \in Orders : /\ po'[o].need = po[o].need /\ (Exists(o)' <=> Exists(o))
                        /\ o \in orders => po'[o].status = "CONVERTED" /\ po'[o].docs = po[o].docs \cup {new}
                        /\ o \notin orders => po'[o].status = po[o].status /\ po'[o].docs = po[o].docs
  <2> TAKE o \in Orders
  <2>1. CASE o \in orders
    <3>1. Exists(o)
      BY <2>1
    <3>2. po'[o] = [status |-> "CONVERTED", need |-> po[o].need, docs |-> po[o].docs \cup {new}]
      BY <1>1, <2>1
    <3>3. po'[o].status = "CONVERTED" /\ po'[o].need = po[o].need /\ po'[o].docs = po[o].docs \cup {new}
      BY <3>2
    <3>4. Exists(o)'
      BY <3>3 DEF Exists
    <3> QED BY <2>1, <3>1, <3>3, <3>4
  <2>2. CASE o \notin orders
    BY <1>1, <2>2 DEF Exists
  <2> QED BY <2>1, <2>2
<1>4. NeedsPlanned'
  BY <1>3, PlannedStay DEF PlanKept
<1>5. /\ created'[new] = [kind |-> target, lines |-> orders]
      /\ \A d \in DocIds \ {new} : created'[d] = created[d]
  BY DEF Drafted
<1>6. created[new].lines = {}
  BY DEF PlanKept, DocumentsLinked
<1>7. \A o \in Orders : Listed(o)' = IF o \in orders THEN Listed(o) \cup {new} ELSE Listed(o)
  <2> TAKE o \in Orders
  <2>1. created'[new].lines = orders /\ o \notin created[new].lines
    BY <1>5, <1>6
  <2>2. Listed(o)' = {d \in DocIds : o \in created'[d].lines}
    BY DEF Listed
  <2> QED BY <1>5, <2>1, <2>2 DEF Listed
<1>8. DocumentsLinked'
  <2>1. \A d \in DocIds : created'[d].kind = "NONE" => created'[d].lines = {}
    <3> TAKE d \in DocIds
    <3>1. created'[new].kind = target
      BY <1>5
    <3> QED BY <1>5, <3>1 DEF PlanKept, DocumentsLinked
  <2>2. ASSUME NEW o \in Orders PROVE OrderLinked(o)'
    <3>1. OrderLinked(o)
      BY DEF PlanKept, DocumentsLinked
    <3>2. CASE o \in orders
      <4>1. Exists(o)' /\ po'[o].status = "CONVERTED" /\ po'[o].docs = Listed(o)'
            /\ po'[o].docs = {new}
        BY <1>3, <1>7, <3>1, <3>2 DEF OrderLinked
      <4> QED BY <4>1 DEF OrderLinked
    <3>3. CASE o \notin orders
      <4>1. po'[o].status = po[o].status /\ po'[o].docs = po[o].docs /\ Listed(o)' = Listed(o)
            /\ (Exists(o)' <=> Exists(o))
        BY <1>3, <1>7, <3>3
      <4> QED BY <3>1, <4>1 DEF OrderLinked
    <3> QED BY <3>2, <3>3
  <2> QED BY <2>1, <2>2 DEF DocumentsLinked
<1>9. \A o \in Orders : po'[o].need = po[o].need /\ (o \notin orders => po'[o] = po[o])
  BY <1>3
<1> QED BY <1>2, <1>4, <1>8, <1>9

(* A group is converted, or rolled back. *)
LEMMA ConvertKept ==
  ASSUME PlanWell, NEW c \in Clients, UNCHANGED sourceOf, NEW i \in Orders, NEW n \in Needs,
         ConvertGroup(c, [order |-> i, need |-> n])
  PROVE  PlanWell'
<1> DEFINE row == [order |-> i, need |-> n]
           target == ConversionTarget(n, req[c].arg)
<1>1. /\ req[c] # Idle /\ UNCHANGED <<overlaps, mrpRun>> /\ req[c].op = "convert" /\ row \in req[c].left
  BY DEF ConvertGroup, Handling, counters
<1>2. PICK group : group = Together(c, row)
  OBVIOUS
<1>3. PICK orders : orders = {r.order : r \in group}
  OBVIOUS
<1>4. \/ /\ Missing(orders) = {} /\ \E d \in DocIds : created[d].kind = "NONE"
         /\ created' = [created EXCEPT ![NextDoc] = Drafted(target, orders)]
         /\ po' = [o \in Orders |-> IF o \in orders THEN Marked(po[o], NextDoc) ELSE po[o]]
         /\ Handled(c, group)
      \/ (Handled(c, group) \/ Abort(c)) /\ UNCHANGED <<po, created>>
  BY <1>2, <1>3 DEF ConvertGroup
<1>5. PICK r : /\ req' = [req EXCEPT ![c] = r]
               /\ r = Idle \/ r = [req[c] EXCEPT !.left = req[c].left \ group]
  BY <1>4 DEF Abort, Handled
<1>6. created' = [d \in DocIds |-> created'[d]]
  BY <1>4 DEF PlanWell
<1>7. group \subseteq req[c].left
  BY <1>1, <1>2 DEF Together
<1>8. ASSUME PlanKept
      PROVE  /\ OrdersWell' /\ DocumentsLinked' /\ NeedsPlanned'
             /\ r = Idle \/ RowsAsRead(r)'
  <2>1. RowsAsRead(req[c])
    BY <1>1, <1>8 DEF PlanKept
  <2>2. /\ req[c].arg \in BuyTargets
        /\ \A x \in req[c].left : /\ x.order \in Orders /\ Exists(x.order) /\ po[x.order].status # "CONVERTED"
                                   /\ x = [order |-> x.order, need |-> po[x.order].need]
    BY <1>1, <2>1 DEF RowsAsRead, Unconverted
  <2>3. r # Idle => r = [op |-> "convert", arg |-> req[c].arg, left |-> req[c].left \ group]
    BY <1>1, <1>5, <2>1 DEF RowsAsRead
  <2>4. orders \in SUBSET Orders /\ \A o \in orders : Exists(o) /\ po[o].status # "CONVERTED"
    BY <1>3, <1>7, <2>2
  <2>5. ASSUME NEW x \in req[c].left \ group PROVE x.order \notin orders
    <3> SUFFICES ASSUME NEW y \in group, y.order = x.order PROVE FALSE
      BY <1>3
    <3>1. x = [order |-> x.order, need |-> po[x.order].need] /\ y = [order |-> y.order, need |-> po[y.order].need]
      BY <1>7, <2>2
    <3> QED BY <2>5, <3>1
  <2>6. CASE UNCHANGED <<po, created>>
    <3>1. OrdersWell' /\ DocumentsLinked' /\ NeedsPlanned'
      BY <1>1, <1>8, <2>6, PlanStays DEF PlanKept
    <3>2. \A x \in req[c].left : Unconverted(x.order)'
      BY <2>2, <2>6 DEF Unconverted, Exists
    <3>3. r # Idle => RowsAsRead(r)'
      BY <2>2, <2>3, <2>6, <3>2 DEF RowsAsRead
    <3> QED BY <3>1, <3>3
  <2>7. CASE ~ UNCHANGED <<po, created>>
    <3>1. /\ \E d \in DocIds : created[d].kind = "NONE"
          /\ created' = [created EXCEPT ![NextDoc] = Drafted(target, orders)]
          /\ po' = [o \in Orders |-> IF o \in orders THEN Marked(po[o], NextDoc) ELSE po[o]]
      BY <1>4, <2>7
    <3>2. PICK new \in DocIds : new = NextDoc /\ created[new].kind = "NONE"
      BY <3>1, FreeDoc
    <3>3. PICK kind : kind = target /\ kind # "NONE"
      BY <2>2, TargetIsKind DEF PlanWell
    <3>4. /\ created' = [created EXCEPT ![new] = Drafted(kind, orders)]
          /\ po' = [o \in Orders |-> IF o \in orders THEN Marked(po[o], new) ELSE po[o]]
      BY <3>1, <3>2, <3>3
    <3>5. /\ OrdersWell' /\ DocumentsLinked' /\ NeedsPlanned'
          /\ \A o \in Orders : po'[o].need = po[o].need /\ (o \notin orders => po'[o] = po[o])
      BY <1>1, <1>8, <2>4, <3>2, <3>3, <3>4, GroupDrafted DEF PlanWell
    <3>6. \A x \in req[c].left \ group : /\ x.order \in Orders /\ Unconverted(x.order)'
                                         /\ x = [order |-> x.order, need |-> po'[x.order].need]
      BY <2>2, <2>5, <3>5 DEF Unconverted, Exists
    <3>7. r # Idle => RowsAsRead(r)'
      BY <2>2, <2>3, <3>6 DEF RowsAsRead
    <3> QED BY <3>5, <3>7
  <2> QED BY <2>6, <2>7
<1> QED BY <1>1, <1>5, <1>6, <1>8, GoesOnKept

(* A request that stops leaves the others as they were. *)
LEMMA CrashKept ==
  ASSUME PlanWell, NEW c \in Clients, UNCHANGED sourceOf, Crash(c)
  PROVE  PlanWell'
<1>1. req[c] # Idle /\ req' = [req EXCEPT ![c] = Idle] /\ UNCHANGED <<overlaps, po, created, mrpRun>>
  BY DEF Crash, Abort
<1>2. created' = [d \in DocIds |-> created'[d]]
  BY <1>1 DEF PlanWell
<1>3. PlanKept => OrdersWell' /\ DocumentsLinked' /\ NeedsPlanned'
  BY <1>1, PlanStays DEF PlanKept
<1> QED BY <1>1, <1>2, <1>3, GoesOnKept

(* Where only suggestions change, or nothing does. *)
LEMMA SuggestionsKept ==
  ASSUME PlanWell, UNCHANGED <<sourceOf, po, created, mrpRun, req, overlaps>>
  PROVE  PlanWell'
<1>1. RequestsOK' /\ (calm' <=> calm)
  BY DEF PlanWell, RequestsOK, Alone, calm
<1>2. PlanKept => PlanKept'
  BY PlanStays DEF PlanKept
<1> QED BY <1>1, <1>2 DEF PlanWell

(* No step of a planning run breaks the invariant. *)
LEMMA PlanKeeps ==
  ASSUME PlanWell, [NextPlanning]_planningVars
  PROVE  PlanWell'
<1>1. CASE UNCHANGED planningVars
  BY <1>1, SuggestionsKept DEF planningVars
<1>2. ASSUME NEW c \in Clients, LoadMrpRun(c), UNCHANGED sourceOf PROVE PlanWell'
  <2>1. "FIRMED" \in StatusActions /\ "REQUISITION" \in BuyTargets
    BY DEF StatusActions, BuyTargets
  <2> QED BY <1>2, <2>1, LoadsKept
<1>3. ASSUME NEW c \in Clients, NEW chosen \in SUBSET Live, BulkAction(c, chosen), UNCHANGED sourceOf
      PROVE  PlanWell'
  <2>1. "FIRMED" \in StatusActions /\ "REQUISITION" \in BuyTargets
    BY DEF StatusActions, BuyTargets
  <2>2. CASE \E status \in StatusActions : LoadStatus(c, status, chosen)
    BY <1>3, <2>1, <2>2, LoadsKept
  <2>3. CASE \E target \in BuyTargets : LoadConvert(c, target, chosen)
    BY <1>3, <2>1, <2>3, LoadsKept
  <2> QED BY <1>3, <2>2, <2>3 DEF BulkAction
<1>4. ASSUME NEW c \in Clients, NEW chosen, LoadApply(c, chosen) \/ LoadReject(c, chosen), UNCHANGED sourceOf
      PROVE  PlanWell'
  <2>1. "FIRMED" \in StatusActions /\ "REQUISITION" \in BuyTargets
    BY DEF StatusActions, BuyTargets
  <2> QED BY <1>4, <2>1, LoadsKept
<1>5. ASSUME NEW c \in Clients, UNCHANGED sourceOf,
             \/ StartRun(c) \/ ClearRun(c)
             \/ \E status \in {"COMPLETED", "CANCELLED"} : FinishRun(c, status)
      PROVE  PlanWell'
  BY <1>5, RunsKept
<1>6. ASSUME NEW c \in Clients, UNCHANGED sourceOf,
             \/ \E o \in Orders : SetStatus(c, o)
             \/ \E s \in Suggestions, o \in Orders : ApplySuggestion(c, [id |-> s, order |-> o])
             \/ \E s \in Suggestions : Reject(c, s)
      PROVE  PlanWell'
  BY <1>6, DecisionsKept
<1>7. ASSUME NEW about, Generate(about), UNCHANGED sourceOf PROVE PlanWell'
  BY <1>7, SuggestionsKept DEF Generate, counters
<1>8. CASE NextPlanning
  <2>1. UNCHANGED sourceOf
    BY <1>8 DEF NextPlanning
  <2>2. CASE \E about \in SUBSET Live \ {{}} : Generate(about)
    BY <1>7, <2>1, <2>2
  <2>3. ASSUME NEW c \in Clients, \E n \in Needs : PlanNeed(c, n) PROVE PlanWell'
    BY <2>1, <2>3, PlanNeedKept
  <2>4. ASSUME NEW c \in Clients,
               \E o \in Orders, n \in Needs : ConvertGroup(c, [order |-> o, need |-> n])
        PROVE  PlanWell'
    BY <2>1, <2>4, ConvertKept
  <2>5. ASSUME NEW c \in Clients, Crash(c) PROVE PlanWell'
    BY <2>1, <2>5, CrashKept
  <2> QED BY <1>2, <1>3, <1>4, <1>5, <1>6, <1>8, <2>1, <2>2, <2>3, <2>4, <2>5 DEF NextPlanning, PlanningStep
<1> QED BY <1>1, <1>8

(* A planning run begins with nothing planned. *)
LEMMA PlanningBegins ==
  ASSUME InitPlanning
  PROVE  PlanWell
<1>1. RequestsOK /\ \A c \in Clients : req[c] = Idle
  BY RequestsBegin DEF InitPlanning, InitRequests
<1>2. created = [d \in DocIds |-> created[d]] /\ sourceOf \in Sourcings
  BY DEF InitPlanning
<1>3. OrdersWell
  BY DEF InitPlanning, OrdersWell, NoPlannedOrder
<1>4. \A o \in Orders : po[o].status = "NONE" /\ Listed(o) = {}
  BY DEF InitPlanning, NoPlannedOrder, NoDoc, Listed
<1>5. DocumentsLinked
  BY <1>4 DEF InitPlanning, DocumentsLinked, OrderLinked, Exists, NoDoc
<1>6. NeedsPlanned
  BY DEF InitPlanning, NeedsPlanned
<1> QED BY <1>1, <1>2, <1>3, <1>5, <1>6 DEF PlanWell, PlanKept

(* The invariant holds of every behaviour. *)
LEMMA PlanningIsWell == PlanningSpec => []PlanWell
<1>1. InitPlanning => PlanWell
  BY PlanningBegins
<1>2. PlanWell /\ [NextPlanning]_planningVars => PlanWell'
  BY PlanKeeps
<1> QED BY <1>1, <1>2, PTL DEF PlanningSpec

(* One order has one document: see OneDocument. *)
THEOREM OrdersHaveOneDocument == PlanningSpec => []OneDocument
<1>1. ASSUME PlanWell PROVE OneDocument
  <2> SUFFICES ASSUME calm, NEW o \in Live
               PROVE  /\ (po[o].status = "CONVERTED") = (po[o].docs # {})
                      /\ Cardinality(po[o].docs) <= 1
                      /\ po[o].docs = {d \in DocIds : o \in created[d].lines}
    BY DEF OneDocument
  <2>1. o \in Orders /\ Exists(o) /\ OrderLinked(o)
    BY <1>1 DEF PlanWell, PlanKept, DocumentsLinked, Live
  <2>2. po[o].docs = {d \in DocIds : o \in created[d].lines}
    BY <2>1 DEF OrderLinked, Listed
  <2>3. CASE po[o].status = "CONVERTED"
    <3>1. PICK d : po[o].docs = {d}
      BY <2>1, <2>3 DEF OrderLinked
    <3>2. Cardinality(po[o].docs) = 1
      BY <3>1, FS_Singleton
    <3> QED BY <2>2, <2>3, <3>1, <3>2
  <2>4. CASE po[o].status # "CONVERTED"
    <3>1. po[o].docs = {}
      BY <2>1, <2>4 DEF OrderLinked
    <3>2. Cardinality(po[o].docs) = 0
      BY <3>1, FS_EmptySet
    <3> QED BY <2>2, <2>4, <3>1, <3>2
  <2> QED BY <2>3, <2>4
<1> QED BY <1>1, PlanningIsWell, PTL

(* One order is planned for one need: see EachNeedOnce. *)
THEOREM NeedsPlannedOnce == PlanningSpec => []EachNeedOnce
<1>1. ASSUME PlanWell PROVE EachNeedOnce
  <2> SUFFICES ASSUME calm, mrpRun.status = "COMPLETED", NEW n \in Needs
               PROVE  Cardinality({o \in Live : po[o].need = n}) = IF n \in mrpRun.reported THEN 0 ELSE 1
    BY DEF EachNeedOnce
  <2>1. PlannedOnce(n, mrpRun.reported)
    BY <1>1 DEF PlanWell, PlanKept, NeedsPlanned
  <2>2. CASE n \in mrpRun.reported
    <3>1. {o \in Live : po[o].need = n} = {}
      BY <2>1, <2>2 DEF PlannedOnce, OrdersOf
    <3> QED BY <2>2, <3>1, FS_EmptySet
  <2>3. CASE n \notin mrpRun.reported
    <3>1. PICK o \in Orders : {p \in Live : po[p].need = n} = {o}
      BY <2>1, <2>3 DEF PlannedOnce, OrdersOf
    <3> QED BY <2>3, <3>1, FS_Singleton
  <2> QED BY <2>2, <2>3
<1> QED BY <1>1, PlanningIsWell, PTL

(* A document is made for orders that are there: see DocumentsHaveOrders. *)
THEOREM DocumentsListOrders == PlanningSpec => DocumentsHaveOrders
<1>1. ASSUME PlanWell, [NextPlanning]_planningVars
      PROVE  [\A d \in DocIds : created'[d] # created[d] => \A o \in created'[d].lines : Exists(o)]_planningVars
  <2> SUFFICES ASSUME NEW d \in DocIds, created'[d] # created[d]
               PROVE  \A o \in created'[d].lines : Exists(o)
    OBVIOUS
  <2>1. ~ UNCHANGED created
    OBVIOUS
  <2>2. NextPlanning
    BY <1>1, <2>1 DEF planningVars
  <2>3. PICK c \in Clients, i \in Orders, n \in Needs : ConvertGroup(c, [order |-> i, need |-> n])
    BY <2>1, <2>2
       DEF NextPlanning, PlanningStep, LoadMrpRun, LoadRows, StartRun, ClearRun, PlanNeed, FinishRun,
           BulkAction, LoadStatus, LoadConvert, LoadApply, LoadReject, SetStatus, Reject,
           ApplySuggestion, Crash, Generate
  <2>4. PICK target, orders : /\ Missing(orders) = {} /\ \E e \in DocIds : created[e].kind = "NONE"
                              /\ created' = [created EXCEPT ![NextDoc] = Drafted(target, orders)]
    BY <2>1, <2>3 DEF ConvertGroup
  <2>5. PICK new \in DocIds : new = NextDoc
    BY <2>4, FreeDoc
  <2>6. d = new /\ created'[d] = Drafted(target, orders)
    <3>1. created = [e \in DocIds |-> created[e]]
      BY <1>1 DEF PlanWell
    <3> QED BY <2>4, <2>5, <3>1
  <2> QED BY <2>4, <2>6 DEF Drafted, Missing
<1> QED BY <1>1, PlanningIsWell, PTL DEF PlanningSpec, DocumentsHaveOrders

-----------------------------------------------------------------------------
(* Corrections of stock, a specification of its own over the same requests.  What a
   request posts is what it read; while no document is submitted twice at once, the
   document is still as it was read, so its journal is not booked yet. *)

IsLines(lines) == DOMAIN lines \subseteq CountLines /\ \A l \in DOMAIN lines : lines[l] \in Line
CountWell(s, statuses) == IsCount(s, statuses) /\ s = [status |-> s.status, lines |-> s.lines]
References ==
  {<<"CYCLE_COUNT", "cycle">>, <<"STOCK_TAKE", "take">>} \cup ({"STOCK_ADJ"} \X Adjustments)
    \cup ({"RMA_RETURN", "RMA_SCRAP", "RMA_HOLD_SCRAP"} \X Returns)
Posts == {"cycle", "take"}
ReadWell(r) ==
  /\ r.op \in Posts \cup {"approve", "reject", "receive", "release", "scrap"}
  /\ r.op \in Posts => /\ r.doc = r.op /\ IsLines(r.lines) /\ r.seen \in [Products -> Nat]
                       /\ \A l \in DOMAIN r.lines : r.lines[l].expected = r.seen[l[1]]
  /\ r.op \in {"approve", "reject"} => r.doc \in Adjustments
  /\ r.op \in {"receive", "release", "scrap"} => r.doc \in Returns

StockWell ==
  /\ onHand \in [Products -> Nat] /\ held \in [Products -> Nat] /\ control \in Int
  /\ refs \subseteq References
SheetsWell ==
  /\ CountWell(cycle, CycleStatuses) /\ CountWell(take, TakeStatuses)
  /\ adj \in [Adjustments -> StockAdjustment] /\ rma \in [Returns -> ReturnAuthorization]
ReadsWell ==
  /\ req = [c \in Clients |-> req[c]] /\ overlaps \in Nat
  /\ \A c \in Clients : req[c] # Idle => ReadWell(req[c])
CorrectionsTyped == StockWell /\ SheetsWell /\ ReadsWell

(* Counts of whatever is entered are counts, and so are the same lines refreshed. *)
LEMMA LinesRefreshed ==
  ASSUME NEW lines, IsLines(lines), onHand \in [Products -> Nat]
  PROVE  /\ IsLines(Refreshed(lines))
         /\ ~ Stale(lines) => \A l \in DOMAIN lines : lines[l].expected = onHand[l[1]]
<1>1. \A l \in DOMAIN lines : onHand[l[1]] \in Nat
  BY DEF IsLines, CountLines
<1>2. \A l \in DOMAIN lines : [lines[l] EXCEPT !.expected = onHand[l[1]]] \in Line
  BY <1>1 DEF IsLines, Line
<1>3. IsLines(Refreshed(lines))
  BY <1>2 DEF IsLines, Refreshed
<1>4. ASSUME ~ Stale(lines), NEW l \in DOMAIN lines PROVE lines[l].expected = onHand[l[1]]
  <2>1. Refreshed(lines) = lines
    BY <1>4 DEF Stale
  <2>2. lines[l] = [lines[l] EXCEPT !.expected = onHand[l[1]]]
    BY <1>4, <2>1 DEF Refreshed
  <2>3. lines[l] \in Line
    BY <1>4 DEF IsLines
  <2> QED BY <2>2, <2>3 DEF Line
<1> QED BY <1>3, <1>4

(* A line changes stock by an integer, and so do the lines of a product. *)
LEMMA ChangesAreIntegers ==
  ASSUME NEW lines, IsLines(lines)
  PROVE  /\ Changes(lines) \in [Products -> Int]
         /\ \A l \in DOMAIN lines : LineVariance(lines[l]) \in Int
<1>1. \A l \in DOMAIN lines : LineVariance(lines[l]) \in Int
  <2> TAKE l \in DOMAIN lines
  <2>1. lines[l].expected \in Nat /\ lines[l].counted \in Nat \cup {Uncounted}
    BY DEF IsLines, Line
  <2> QED BY <2>1 DEF LineVariance
<1>2. IsFiniteSet(DOMAIN lines)
  <2>1. IsFiniteSet({1, 2})
    BY FS_Interval, 1 \in Int /\ 2 \in Int, 1 .. 2 = {1, 2}
  <2>2. IsFiniteSet(CountLines)
    BY <2>1, GoodsAssumption, FS_Product DEF CountLines
  <2> QED BY <2>2, FS_Subset DEF IsLines
<1>3. ASSUME NEW p \in Products
      PROVE  SumFunction([l \in {k \in DOMAIN lines : k[1] = p} |-> LineVariance(lines[l])]) \in Int
  <2> DEFINE heap == {k \in DOMAIN lines : k[1] = p}
             f == [l \in heap |-> LineVariance(lines[l])]
  <2>1. IsFiniteSet(heap)
    BY <1>2, FS_Subset
  <2>2. f \in [heap -> Int]
    BY <1>1
  <2> HIDE DEF heap, f
  <2>3. SumFunction(f) \in Int
    BY <2>1, <2>2, SumInteger
  <2> QED BY <2>3 DEF f, heap
<1> QED BY <1>1, <1>3 DEF Changes

(* Stock after a count is what it was and what the lines change; a journal that is not
   booked yet books it. *)
LEMMA VariancesPost ==
  ASSUME StockWell, NEW lines, IsLines(lines), NEW ref \in References, PostVariances(lines, ref)
  PROVE  /\ StockWell' /\ refs' \subseteq refs \cup {ref}
         /\ ref \notin refs => control' = control + SumFunction(onHand') - SumFunction(onHand)
<1>1. PICK d : d = Changes(lines)
  OBVIOUS
<1>2. d \in [Products -> Int]
  BY <1>1, ChangesAreIntegers
<1>3. /\ \A p \in Products : onHand[p] + d[p] >= 0
      /\ onHand' = [p \in Products |-> onHand[p] + d[p]]
      /\ control' = control + BookedFor(ref, SumFunction(d))
      /\ refs' = IF SumFunction(d) = 0 THEN refs ELSE refs \cup {ref}
      /\ UNCHANGED held
  BY <1>1 DEF PostVariances
<1>4. SumFunction(d) \in Int
  BY <1>2, GoodsAssumption, SumInteger
<1>5. onHand' \in [Products -> Nat]
  BY <1>2, <1>3 DEF StockWell
<1>6. SumFunction(onHand') = SumFunction(onHand) + SumFunction(d) /\ SumFunction(onHand) \in Int
  <2>1. onHand \in [Products -> Int] /\ onHand' \in [Products -> Int]
    BY <1>5 DEF StockWell
  <2>2. \A p \in Products : onHand'[p] = onHand[p] + d[p]
    BY <1>3
  <2> QED BY <1>2, <2>1, <2>2, GoodsAssumption, SumPlus, SumInteger
<1>7. BookedFor(ref, SumFunction(d)) \in Int /\ (ref \notin refs => BookedFor(ref, SumFunction(d)) = SumFunction(d))
  BY <1>4 DEF BookedFor
<1>8. StockWell'
  BY <1>3, <1>5, <1>7 DEF StockWell
<1>9. ASSUME ref \notin refs PROVE control' = control + SumFunction(onHand') - SumFunction(onHand)
  BY <1>3, <1>4, <1>6, <1>7, <1>9 DEF StockWell
<1> QED BY <1>3, <1>8, <1>9

(* Goods that come or go are one unit of each product. *)
LEMMA GoodsMove ==
  ASSUME NEW f \in [Products -> Int], NEW goods \in SUBSET Products, NEW d \in {-1, 1},
         NEW h, h = With(f, goods, d)
  PROVE  /\ h \in [Products -> Int] /\ Cardinality(goods) \in Nat
         /\ SumFunction(f) \in Int /\ SumFunction(h) \in Int
         /\ d = 1 => SumFunction(h) = SumFunction(f) + Cardinality(goods)
         /\ d = -1 => SumFunction(h) = SumFunction(f) - Cardinality(goods)
<1>0. IsFiniteSet(Products) /\ IsFiniteSet(goods) /\ Cardinality(goods) \in Nat
  BY GoodsAssumption, FS_Subset, FS_CardinalityType
<1>1. h \in [Products -> Int] /\ \A p \in Products : h[p] = f[p] + IF p \in goods THEN d ELSE 0
  BY DEF With
<1> DEFINE units == [p \in Products |-> IF p \in goods THEN 1 ELSE 0]
           ones == [p \in goods |-> 1]
<1>2. units \in [Products -> Int] /\ ones \in [goods -> Int]
      /\ (\A p \in Products : units[p] = IF p \in goods THEN ones[p] ELSE 0)
      /\ \A p \in Products : units[p] = IF p \in goods THEN 1 ELSE 0
  OBVIOUS
<1>3. SumFunction(ones) = Cardinality(goods)
  BY <1>0, SumCounts
<1> HIDE DEF units, ones
<1>4. SumFunction(units) = Cardinality(goods)
  BY <1>0, <1>2, <1>3, SumSubset
<1>5. SumFunction(f) \in Int /\ SumFunction(h) \in Int
  BY <1>0, <1>1, SumInteger
<1>6. ASSUME d = 1 PROVE SumFunction(h) = SumFunction(f) + Cardinality(goods)
  <2>1. \A p \in Products : h[p] = f[p] + units[p]
    BY <1>1, <1>2, <1>6
  <2> QED BY <1>0, <1>1, <1>2, <1>4, <2>1, SumPlus
<1>7. ASSUME d = -1 PROVE SumFunction(h) = SumFunction(f) - Cardinality(goods)
  <2>1. \A p \in Products : f[p] = h[p] + units[p]
    BY <1>1, <1>2, <1>7
  <2>2. SumFunction(f) = SumFunction(h) + SumFunction(units)
    BY <1>0, <1>1, <1>2, <2>1, SumPlus
  <2> QED BY <1>0, <1>4, <1>5, <2>2
<1> QED BY <1>0, <1>1, <1>5, <1>6, <1>7

(* What a request has read it keeps, whatever others do: the part of the invariant that
   is about requests where none begins or ends. *)
CalmReads(r) ==
  /\ r.op = "cycle" => cycle.status # "POSTED"
  /\ r.op = "take" => take.status # "POSTED"
  /\ r.op \in {"approve", "reject"} => adj[r.doc].status = "PENDING"
  /\ r.op = "receive" => rma[r.doc].status \in {"DRAFT", "APPROVED"}
  /\ r.op \in {"release", "scrap"} => Awaits(r.doc)
Exclusive ==
  \A c, d \in Clients : req[c] # Idle /\ req[d] # Idle /\ req[c].doc = req[d].doc => c = d
RefsFollow ==
  /\ <<"CYCLE_COUNT", "cycle">> \in refs => cycle.status = "POSTED"
  /\ <<"STOCK_TAKE", "take">> \in refs => take.status = "POSTED"
  /\ \A a \in Adjustments : <<"STOCK_ADJ", a>> \in refs => adj[a].status = "POSTED"
  /\ \A r \in Returns :
       /\ <<"RMA_RETURN", r>> \in refs \/ <<"RMA_SCRAP", r>> \in refs => rma[r].status = "RECEIVED"
       /\ <<"RMA_HOLD_SCRAP", r>> \in refs => rma[r].final # "NONE"
       /\ rma[r].final # "NONE" => rma[r].status = "RECEIVED"
ControlFollows ==
  control = SumFunction(onHand) + SumFunction(held) + SumFunction([r \in Returns |-> Unbooked(r)])
HeldFor(p) == {r \in Returns : Awaits(r) /\ p \in rma[r].goods}
HoldFollows == \A p \in Products : held[p] = Cardinality(HeldFor(p))

CalmCorrections ==
  /\ Exclusive /\ RefsFollow /\ ControlFollows /\ HoldFollows
  /\ \A c \in Clients : req[c] # Idle => CalmReads(req[c])
CorrectionsInv == CorrectionsTyped /\ (calm => CalmCorrections)

(* What a return did not book is a number. *)
LEMMA UnbookedIsInteger ==
  ASSUME rma \in [Returns -> ReturnAuthorization]
  PROVE  [r \in Returns |-> Unbooked(r)] \in [Returns -> Int]
<1>1. ASSUME NEW r \in Returns PROVE Unbooked(r) \in Int
  <2>1. rma[r].goods \in SUBSET Products
    BY GoodsAssumption DEF ReturnAuthorization
  <2>2. Cardinality(rma[r].goods) \in Nat
    BY <2>1, GoodsAssumption, FS_Subset, FS_CardinalityType
  <2> QED BY <2>2 DEF Unbooked
<1> QED BY <1>1

(* A request is answered: the others go on. *)
LEMMA AnswerKeeps ==
  ASSUME ReadsWell, NEW c \in Clients, req[c] # Idle, Answer(c)
  PROVE  /\ ReadsWell' /\ (calm' <=> calm) /\ (Exclusive => Exclusive')
         /\ req'[c] = Idle /\ \A d \in Clients \ {c} : req'[d] = req[d]
BY DEF ReadsWell, Answer, Exclusive, calm, ReadWell, IsLines, Line

(* Nothing about requests changes. *)
LEMMA RequestsStay ==
  ASSUME ReadsWell, UNCHANGED requests
  PROVE  ReadsWell' /\ (calm' <=> calm) /\ (Exclusive => Exclusive')
BY DEF ReadsWell, requests, Exclusive, calm, ReadWell, IsLines, Line

(* While the tables of returns stay, so do what they hold and what they did not book. *)
LEMMA ReturnsStay ==
  ASSUME UNCHANGED <<held, rma>>
  PROVE  /\ \A r : (Awaits(r)' <=> Awaits(r)) /\ Unbooked(r)' = Unbooked(r)
         /\ HoldFollows => HoldFollows'
         /\ SumFunction([r \in Returns |-> Unbooked(r)])' = SumFunction([r \in Returns |-> Unbooked(r)])
<1>1. \A r : (Awaits(r)' <=> Awaits(r)) /\ Unbooked(r)' = Unbooked(r)
  BY DEF Awaits, Unbooked
<1>2. \A p : HeldFor(p)' = HeldFor(p)
  BY <1>1 DEF HeldFor
<1>3. HoldFollows => HoldFollows'
  BY <1>2 DEF HoldFollows
<1> QED BY <1>1, <1>3

(* Steps that change the two sheets and no stock. *)
LEMMA SheetsKeep ==
  ASSUME CorrectionsInv, UNCHANGED <<stockTables, adj, rma, requests>>,
         CountWell(cycle, CycleStatuses)', CountWell(take, TakeStatuses)',
         cycle'.status = "POSTED" <=> cycle.status = "POSTED",
         take'.status = "POSTED" <=> take.status = "POSTED"
  PROVE  CorrectionsInv'
<1>1. ReadsWell' /\ (calm' <=> calm) /\ (Exclusive => Exclusive') /\ UNCHANGED <<req, onHand, held, control, refs>>
  BY RequestsStay DEF CorrectionsInv, CorrectionsTyped, requests, stockTables
<1>2. CorrectionsTyped'
  BY <1>1 DEF CorrectionsInv, CorrectionsTyped, StockWell, SheetsWell
<1>3. ASSUME calm PROVE CalmCorrections'
  <2>1. CalmCorrections
    BY <1>3 DEF CorrectionsInv
  <2>2. RefsFollow'
    BY <1>1, <2>1 DEF CalmCorrections, RefsFollow
  <2>3. ControlFollows' /\ HoldFollows'
    BY <1>1, <2>1, ReturnsStay DEF CalmCorrections, ControlFollows
  <2>4. \A c \in Clients : req'[c] # Idle => CalmReads(req[c])'
    BY <1>1, <2>1 DEF CalmCorrections, CalmReads, Awaits
  <2> QED BY <1>1, <2>1, <2>2, <2>3, <2>4 DEF CalmCorrections
<1> QED BY <1>1, <1>2, <1>3 DEF CorrectionsInv

(* The steps of a cycle count before it is posted. *)
LEMMA CycleKeeps ==
  ASSUME CorrectionsInv,
         \/ \E L \in SUBSET CountLines : \E f \in [L -> 0 .. MaxStock] : CycleCreate(f)
         \/ CycleSubmit \/ CycleApprove \/ CycleBounce
  PROVE  CorrectionsInv'
<1>1. /\ CountWell(cycle, CycleStatuses) /\ CountWell(take, TakeStatuses) /\ IsLines(cycle.lines)
      /\ onHand \in [Products -> Nat]
  BY DEF CorrectionsInv, CorrectionsTyped, StockWell, SheetsWell, CountWell, IsCount, IsLines
<1>2. OnlyCycle
  BY DEF CycleCreate, CycleSubmit, CycleApprove, CycleBounce
<1>3. IsLines(Refreshed(cycle.lines))
  BY <1>1, LinesRefreshed
<1>4. CountWell(cycle, CycleStatuses)' /\ cycle'.status # "POSTED" /\ cycle.status # "POSTED"
  <2>1. CASE \E L \in SUBSET CountLines : \E f \in [L -> 0 .. MaxStock] : CycleCreate(f)
    <3>1. PICK L \in SUBSET CountLines : \E f \in [L -> 0 .. MaxStock] : CycleCreate(f)
      BY <2>1
    <3>2. PICK f \in [L -> 0 .. MaxStock] : CycleCreate(f)
      BY <3>1
    <3>3. PICK lines : lines = [l \in L |-> [expected |-> 0, counted |-> f[l]]]
      OBVIOUS
    <3>4. cycle' = [status |-> "DRAFT", lines |-> lines] /\ cycle.status = "NONE"
      BY <3>2, <3>3 DEF CycleCreate
    <3>5. IsLines(lines)
      <4>1. DOMAIN lines = L
        BY <3>3
      <4>2. ASSUME NEW l \in L PROVE lines[l] \in Line
        <5>1. lines[l] = [expected |-> 0, counted |-> f[l]]
          BY <3>3
        <5>2. f[l] \in 0 .. MaxStock
          OBVIOUS
        <5>3. f[l] \in Nat
          BY <5>2, StockAssumption
        <5> QED BY <5>1, <5>3 DEF Line
      <4> QED BY <4>1, <4>2 DEF IsLines
    <3> QED BY <3>4, <3>5 DEF CountWell, IsCount, IsLines, CycleStatuses
  <2>2. CASE CycleSubmit
    BY <1>3, <2>2 DEF CycleSubmit, CountWell, IsCount, IsLines, CycleStatuses
  <2>3. CASE CycleApprove
    BY <1>1, <2>3 DEF CycleApprove, CountWell, IsCount, IsLines, CycleStatuses
  <2>4. CASE CycleBounce
    BY <1>3, <2>4 DEF CycleBounce, CountWell, IsCount, IsLines, CycleStatuses
  <2> QED BY <2>1, <2>2, <2>3, <2>4
<1>5. UNCHANGED <<stockTables, adj, rma, requests, take>>
  BY <1>2 DEF OnlyCycle
<1>6. CountWell(take, TakeStatuses)'
  BY <1>1, <1>5 DEF CountWell, IsCount
<1> QED BY <1>4, <1>5, <1>6, SheetsKeep

(* The steps of a stock take before it is posted, and its cancellation. *)
LEMMA TakeKeeps ==
  ASSUME CorrectionsInv,
         \/ TakeCreate \/ TakeSnapshot \/ TakeSubmit \/ TakeApprove \/ TakeBounce \/ TakeCancel
         \/ \E l \in CountLines, n \in 0 .. MaxStock : TakeCount(l, n)
         \/ \E p \in Products, n \in 0 .. MaxStock : TakeAddLine(p, n)
  PROVE  CorrectionsInv'
<1>1. /\ CountWell(cycle, CycleStatuses) /\ CountWell(take, TakeStatuses) /\ IsLines(take.lines)
      /\ onHand \in [Products -> Nat]
  BY DEF CorrectionsInv, CorrectionsTyped, StockWell, SheetsWell, CountWell, IsCount, IsLines
<1>2. OnlyTake
  BY DEF TakeCreate, TakeSnapshot, TakeSubmit, TakeApprove, TakeBounce, TakeCancel, TakeCount, TakeAddLine
<1>3. IsLines(Refreshed(take.lines))
  BY <1>1, LinesRefreshed
<1>4. \A n \in 0 .. MaxStock : n \in Nat
  BY StockAssumption
<1>5. PICK status, lines : take' = [status |-> status, lines |-> lines] /\ IsLines(lines)
                           /\ status \in TakeStatuses \ {"POSTED"} /\ take.status # "POSTED"
  <2>1. CASE TakeCreate \/ TakeSubmit \/ TakeCancel
    <3>1. PICK status : take' = [take EXCEPT !.status = status] /\ status \in TakeStatuses \ {"POSTED"}
                        /\ take.status # "POSTED"
      BY <2>1 DEF TakeCreate, TakeSubmit, TakeCancel, TakeStatuses
    <3>2. take' = [status |-> status, lines |-> take.lines]
      BY <1>1, <3>1 DEF CountWell
    <3> QED BY <1>1, <3>1, <3>2
  <2>2. CASE TakeApprove \/ TakeBounce
    <3>1. PICK status : take' = [status |-> status, lines |-> Refreshed(take.lines)]
                        /\ status \in TakeStatuses \ {"POSTED"} /\ take.status # "POSTED"
      BY <2>2 DEF TakeApprove, TakeBounce, TakeStatuses
    <3> QED BY <1>3, <3>1
  <2>3. CASE TakeSnapshot
    <3>1. PICK found : found = {p \in Products : onHand[p] > 0} \X {1}
      OBVIOUS
    <3>2. PICK lines : lines = [l \in found |-> [expected |-> onHand[l[1]], counted |-> Uncounted]]
      OBVIOUS
    <3>3. take' = [status |-> "SNAPSHOTTED", lines |-> lines] /\ take.status # "POSTED"
      BY <2>3, <3>1, <3>2 DEF TakeSnapshot
    <3>4. IsLines(lines)
      BY <1>1, <3>1, <3>2 DEF IsLines, CountLines, Line
    <3> QED BY <3>3, <3>4 DEF TakeStatuses
  <2>4. CASE \E l \in CountLines, n \in 0 .. MaxStock : TakeCount(l, n)
    <3>1. PICK l \in CountLines, n \in 0 .. MaxStock : TakeCount(l, n)
      BY <2>4
    <3>2. PICK lines : lines = [take.lines EXCEPT ![l].counted = n]
      OBVIOUS
    <3>3. PICK status : take' = [status |-> status, lines |-> lines]
                        /\ status \in TakeStatuses \ {"POSTED"} /\ take.status # "POSTED"
      BY <3>1, <3>2 DEF TakeCount, TakeStatuses
    <3>4. IsLines(lines)
      <4>1. DOMAIN lines = DOMAIN take.lines
        BY <3>2
      <4>2. ASSUME NEW k \in DOMAIN lines PROVE lines[k] \in Line
        <5>1. take.lines[k] \in Line
          BY <1>1, <4>1 DEF IsLines
        <5>2. lines[k] = IF k = l THEN [take.lines[k] EXCEPT !.counted = n] ELSE take.lines[k]
          BY <3>2, <4>1, <4>2
        <5> QED BY <1>4, <5>1, <5>2 DEF Line
      <4> QED BY <1>1, <4>1, <4>2 DEF IsLines
    <3> QED BY <3>3, <3>4
  <2>5. CASE \E p \in Products, n \in 0 .. MaxStock : TakeAddLine(p, n)
    <3>1. PICK p \in Products, n \in 0 .. MaxStock : TakeAddLine(p, n)
      BY <2>5
    <3>2. PICK new \in CountLines : new = <<p, 2>>
      <4>1. <<p, 2>> \in CountLines
        BY <3>1 DEF CountLines
      <4> QED BY <4>1
    <3>3. PICK lines : lines = [l \in DOMAIN take.lines \cup {new} |->
                                  IF l = new THEN [expected |-> 0, counted |-> n] ELSE take.lines[l]]
      OBVIOUS
    <3>4. take' = [take EXCEPT !.lines = lines] /\ take.status \in TakeStatuses \ {"POSTED"}
      BY <3>1, <3>2, <3>3 DEF TakeAddLine, TakeStatuses
    <3>5. take' = [status |-> take.status, lines |-> lines]
      BY <1>1, <3>4 DEF CountWell
    <3>6. IsLines(lines)
      BY <1>1, <1>4, <3>2, <3>3 DEF IsLines, Line
    <3> QED BY <3>4, <3>5, <3>6
  <2> QED BY <2>1, <2>2, <2>3, <2>4, <2>5
<1>6. CountWell(take, TakeStatuses)' /\ take'.status # "POSTED"
  BY <1>5 DEF CountWell, IsCount, IsLines
<1>7. UNCHANGED <<stockTables, adj, rma, requests, cycle>>
  BY <1>2 DEF OnlyTake
<1>8. CountWell(cycle, CycleStatuses)'
  BY <1>1, <1>7 DEF CountWell, IsCount
<1> QED BY <1>5, <1>6, <1>7, <1>8, SheetsKeep

(* A request reads its document. *)
LEMMA ReadKeeps ==
  ASSUME CorrectionsInv, NEW c \in Clients, NEW op, NEW sheet, NEW lines, ReadIn(c, op, sheet, lines),
         NEW r, r = [op |-> op, doc |-> sheet, lines |-> lines, seen |-> onHand],
         ReadWell(r), calm => CalmReads(r)
  PROVE  CorrectionsInv'
<1>1. /\ req[c] = Idle /\ req' = [req EXCEPT ![c] = r] /\ r.doc = sheet
      /\ UNCHANGED <<onHand, held, control, refs, cycle, take, adj, rma>>
      /\ \/ UNCHANGED overlaps /\ \A k \in Clients : req[k] # Idle => req[k].doc # sheet
         \/ overlaps' = overlaps + 1
  BY DEF ReadIn, stockTables
<1>2. ReadsWell' /\ (calm' => calm) /\ req'[c] = r /\ \A d \in Clients \ {c} : req'[d] = req[d]
  BY <1>1 DEF CorrectionsInv, CorrectionsTyped, ReadsWell, ReadWell, IsLines, Line, calm
<1>3. CorrectionsTyped'
  BY <1>1, <1>2 DEF CorrectionsInv, CorrectionsTyped, StockWell, SheetsWell, CountWell, IsCount
<1>4. ASSUME calm' PROVE CalmCorrections'
  <2>1. CalmCorrections /\ CalmReads(r)
    BY <1>2, <1>4 DEF CorrectionsInv
  <2>2. \A k \in Clients : req[k] # Idle => req[k].doc # sheet
    BY <1>1, <1>4 DEF calm, CorrectionsInv, CorrectionsTyped, ReadsWell
  <2>3. Exclusive'
    BY <1>1, <1>2, <2>1, <2>2 DEF CalmCorrections, Exclusive
  <2>4. RefsFollow'
    BY <1>1, <2>1 DEF CalmCorrections, RefsFollow
  <2>5. ControlFollows' /\ HoldFollows'
    BY <1>1, <2>1, ReturnsStay DEF CalmCorrections, ControlFollows
  <2>6. \A d \in Clients : req'[d] # Idle => CalmReads(req[d])'
    BY <1>1, <1>2, <2>1 DEF CalmCorrections, CalmReads, Awaits
  <2> QED BY <2>3, <2>4, <2>5, <2>6 DEF CalmCorrections
<1> QED BY <1>3, <1>4 DEF CorrectionsInv

(* What requests read. *)
LEMMA ReadsKeep ==
  ASSUME CorrectionsInv, NEW c \in Clients,
         \/ LoadCyclePost(c) \/ LoadTakePost(c)
         \/ \E a \in Adjustments, op \in {"approve", "reject"} : LoadAdjust(c, a, op)
         \/ \E r \in Returns : LoadReceive(c, r) \/ \E op \in {"release", "scrap"} : LoadResolve(c, r, op)
  PROVE  CorrectionsInv'
<1>1. IsLines(cycle.lines) /\ IsLines(take.lines) /\ onHand \in [Products -> Nat]
  BY DEF CorrectionsInv, CorrectionsTyped, StockWell, SheetsWell, CountWell, IsCount, IsLines
<1>2. ASSUME NEW sheet \in Posts, NEW lines, IsLines(lines), ~ Stale(lines), ReadIn(c, sheet, sheet, lines),
             sheet = "cycle" => cycle.status = "APPROVED", sheet = "take" => take.status = "APPROVED"
      PROVE  CorrectionsInv'
  <2>1. PICK r : r = [op |-> sheet, doc |-> sheet, lines |-> lines, seen |-> onHand]
    OBVIOUS
  <2>2. r.op = sheet /\ r.doc = sheet /\ r.lines = lines /\ r.seen = onHand
    BY <2>1
  <2>3. \A l \in DOMAIN lines : lines[l].expected = onHand[l[1]]
    BY <1>1, <1>2, LinesRefreshed
  <2>4. ReadWell(r) /\ CalmReads(r)
    BY <1>1, <1>2, <2>2, <2>3 DEF ReadWell, CalmReads, Posts
  <2> QED BY <1>2, <2>1, <2>4, ReadKeeps
<1>3. ASSUME NEW op, NEW sheet, ReadIn(c, op, sheet, NoLines),
             \/ op \in {"approve", "reject"} /\ sheet \in Adjustments /\ adj[sheet].status = "PENDING"
             \/ op = "receive" /\ sheet \in Returns /\ rma[sheet].status \in {"DRAFT", "APPROVED"}
             \/ op \in {"release", "scrap"} /\ sheet \in Returns /\ Awaits(sheet)
      PROVE  CorrectionsInv'
  <2>1. PICK r : r = [op |-> op, doc |-> sheet, lines |-> NoLines, seen |-> onHand]
    OBVIOUS
  <2>2. r.op = op /\ r.doc = sheet
    BY <2>1
  <2>3. ReadWell(r) /\ CalmReads(r)
    BY <1>3, <2>2 DEF ReadWell, CalmReads, Posts
  <2> QED BY <1>3, <2>1, <2>3, ReadKeeps
<1>4. CASE LoadCyclePost(c)
  BY <1>1, <1>2, <1>4 DEF LoadCyclePost, Posts
<1>5. CASE LoadTakePost(c)
  BY <1>1, <1>2, <1>5 DEF LoadTakePost, Posts
<1>6. CASE \E a \in Adjustments, op \in {"approve", "reject"} : LoadAdjust(c, a, op)
  BY <1>3, <1>6 DEF LoadAdjust
<1>7. CASE \E r \in Returns : LoadReceive(c, r) \/ \E op \in {"release", "scrap"} : LoadResolve(c, r, op)
  BY <1>3, <1>7 DEF LoadReceive, LoadResolve
<1> QED BY <1>4, <1>5, <1>6, <1>7

(* Posting a count, or a stock take. *)
LEMMA PostKeeps ==
  ASSUME CorrectionsInv, NEW c \in Clients, CyclePost(c) \/ TakePost(c)
  PROVE  CorrectionsInv'
<1>1. PICK r : r = req[c] /\ r # Idle
  BY DEF CyclePost, TakePost
<1>2. PICK ref : ref = IF r.op = "cycle" THEN <<"CYCLE_COUNT", "cycle">> ELSE <<"STOCK_TAKE", "take">>
  OBVIOUS
<1>3. /\ r.op \in Posts /\ PostVariances(r.lines, ref) /\ Answer(c) /\ UNCHANGED <<adj, rma>>
      /\ r.op = "cycle" => UNCHANGED take /\ cycle' = [cycle EXCEPT !.status = "POSTED"]
      /\ r.op = "take" => UNCHANGED cycle /\ take' = [take EXCEPT !.status = "POSTED"]
  BY <1>1, <1>2 DEF CyclePost, TakePost, Posts
<1>4. CorrectionsTyped /\ ReadWell(r) /\ ref \in References
  BY <1>1, <1>2 DEF CorrectionsInv, CorrectionsTyped, ReadsWell, References
<1>5. /\ StockWell' /\ refs' \subseteq refs \cup {ref}
      /\ ref \notin refs => control' = control + SumFunction(onHand') - SumFunction(onHand)
  BY <1>3, <1>4, VariancesPost DEF CorrectionsTyped, ReadWell
<1>6. ReadsWell' /\ (calm' <=> calm) /\ (Exclusive => Exclusive')
      /\ req'[c] = Idle /\ \A d \in Clients \ {c} : req'[d] = req[d]
  BY <1>1, <1>3, <1>4, AnswerKeeps DEF CorrectionsTyped
<1>7. SheetsWell'
  BY <1>3, <1>4 DEF CorrectionsTyped, SheetsWell, CountWell, IsCount, CycleStatuses, TakeStatuses, Posts
<1>8. /\ cycle'.status = IF r.op = "cycle" THEN "POSTED" ELSE cycle.status
      /\ take'.status = IF r.op = "take" THEN "POSTED" ELSE take.status
  BY <1>3, <1>4 DEF CorrectionsTyped, SheetsWell, CountWell, Posts
<1>9. ASSUME calm PROVE CalmCorrections'
  <2>1. CalmCorrections
    BY <1>9 DEF CorrectionsInv
  <2>2. CalmReads(r)
    BY <1>1, <2>1 DEF CalmCorrections
  <2>3. ref \notin refs
    BY <1>2, <1>3, <2>1, <2>2 DEF CalmCorrections, CalmReads, RefsFollow, Posts
  <2>4. RefsFollow'
    BY <1>2, <1>3, <1>5, <1>8, <2>1 DEF CalmCorrections, RefsFollow, Posts
  <2>5. HoldFollows' /\ ControlFollows'
    <3>1. UNCHANGED <<held, rma>>
      BY <1>3 DEF PostVariances
    <3>2. SumFunction([x \in Returns |-> Unbooked(x)])' = SumFunction([x \in Returns |-> Unbooked(x)])
          /\ HoldFollows'
      BY <2>1, <3>1, ReturnsStay DEF CalmCorrections
    <3>3. PICK before, after, rest, lost :
            /\ before = SumFunction(onHand) /\ after = SumFunction(onHand')
            /\ rest = SumFunction(held) /\ lost = SumFunction([x \in Returns |-> Unbooked(x)])
      OBVIOUS
    <3>4. before \in Int /\ after \in Int
      <4>1. onHand \in [Products -> Int] /\ onHand' \in [Products -> Int]
        BY <1>4, <1>5 DEF CorrectionsTyped, StockWell
      <4> QED BY <3>3, <4>1, GoodsAssumption, SumInteger
    <3>5. rest \in Int /\ lost \in Int
      <4>1. held \in [Products -> Int] /\ [x \in Returns |-> Unbooked(x)] \in [Returns -> Int]
        BY <1>4, UnbookedIsInteger DEF CorrectionsTyped, StockWell, SheetsWell
      <4> QED BY <3>3, <4>1, GoodsAssumption, ReturnsAssumption, SumInteger
    <3>6. control = before + rest + lost /\ control' = control + after - before
      BY <1>5, <2>1, <2>3, <3>3 DEF CalmCorrections, ControlFollows
    <3>7. control' = after + rest + lost
      BY <3>4, <3>5, <3>6
    <3> QED BY <3>1, <3>2, <3>3, <3>7 DEF ControlFollows
  <2>6. ASSUME NEW d \in Clients, req'[d] # Idle PROVE CalmReads(req[d])'
    <3>1. d # c /\ req'[d] = req[d] /\ req[d] # Idle
      BY <1>6, <2>6
    <3>2. req[d].doc # r.doc
      BY <1>1, <2>1, <3>1 DEF CalmCorrections, Exclusive
    <3>3. PICK q : q = req[d] /\ q = req'[d]
      BY <3>1
    <3>4. CalmReads(q) /\ ReadWell(q) /\ q.doc # r.doc
      BY <1>4, <2>1, <3>1, <3>2, <3>3 DEF CalmCorrections, CorrectionsTyped, ReadsWell
    <3>5. q.op \in Posts => q.op # r.op
      BY <1>3, <1>4, <3>4 DEF ReadWell
    <3>6. CalmReads(q)'
      BY <1>3, <1>8, <3>4, <3>5 DEF CalmReads, Awaits, Posts
    <3> QED BY <3>3, <3>6
  <2> QED BY <1>6, <2>1, <2>4, <2>5, <2>6 DEF CalmCorrections
<1> QED BY <1>5, <1>6, <1>7, <1>9 DEF CorrectionsInv, CorrectionsTyped

(* The totals are numbers. *)
LEMMA TotalsAreIntegers ==
  ASSUME StockWell, SheetsWell
  PROVE  /\ SumFunction(onHand) \in Int /\ SumFunction(held) \in Int
         /\ SumFunction([r \in Returns |-> Unbooked(r)]) \in Int
<1>1. onHand \in [Products -> Int] /\ held \in [Products -> Int]
  BY DEF StockWell
<1>2. [r \in Returns |-> Unbooked(r)] \in [Returns -> Int]
  BY UnbookedIsInteger DEF SheetsWell
<1> QED BY <1>1, <1>2, GoodsAssumption, ReturnsAssumption, SumInteger

(* One product moves at the location, and the account with it. *)
LEMMA ProductMoves ==
  ASSUME StockWell, SheetsWell, NEW p \in Products, NEW d \in Int, onHand[p] + d >= 0,
         onHand' = [onHand EXCEPT ![p] = @ + d], control' = control + d, UNCHANGED held,
         refs' \subseteq References
  PROVE  /\ StockWell'
         /\ ControlFollows /\ UNCHANGED rma => ControlFollows'
<1>1. onHand' \in [Products -> Nat] /\ onHand'[p] = onHand[p] + d
      /\ \A x \in Products \ {p} : onHand'[x] = onHand[x]
  BY DEF StockWell
<1>2. SumFunction(onHand') = SumFunction(onHand) + d
  <2>1. onHand \in [Products -> Int] /\ onHand' \in [Products -> Int]
    BY <1>1 DEF StockWell
  <2>2. SumFunction(onHand') = SumFunction(onHand) + onHand'[p] - onHand[p]
    <3>1. PICK f, h : f = onHand /\ h = onHand'
      OBVIOUS
    <3>2. f \in [Products -> Int] /\ h \in [Products -> Int] /\ \A x \in Products \ {p} : h[x] = f[x]
      BY <1>1, <2>1, <3>1
    <3>3. IsFiniteSet(Products)
      BY GoodsAssumption
    <3>4. SumFunction(h) = SumFunction(f) + h[p] - f[p]
      BY ONLY <3>2, <3>3, p \in Products, SumUpdate
    <3> QED BY <3>1, <3>4
  <2> QED BY <1>1, <2>1, <2>2, TotalsAreIntegers
<1>3. StockWell'
  BY <1>1 DEF StockWell
<1>4. ASSUME ControlFollows, UNCHANGED rma PROVE ControlFollows'
  <2>1. PICK on, hold, lost : /\ on = SumFunction(onHand) /\ hold = SumFunction(held)
                              /\ lost = SumFunction([x \in Returns |-> Unbooked(x)])
    OBVIOUS
  <2>2. on \in Int /\ hold \in Int /\ lost \in Int
    BY <2>1, TotalsAreIntegers
  <2>3. SumFunction([x \in Returns |-> Unbooked(x)])' = lost
    BY <1>4, <2>1, ReturnsStay
  <2>4. control' = (on + d) + hold + lost
    BY <1>4, <2>1, <2>2 DEF ControlFollows
  <2> QED BY <1>2, <2>1, <2>3, <2>4 DEF ControlFollows
<1> QED BY <1>3, <1>4

(* A request is none the wiser of what happens to other documents. *)
LEMMA ReadStays ==
  ASSUME NEW q, ReadWell(q), CalmReads(q), UNCHANGED <<cycle, take>>,
         q.op \in {"approve", "reject"} => adj'[q.doc] = adj[q.doc],
         q.op \in {"receive", "release", "scrap"} => rma'[q.doc] = rma[q.doc]
  PROVE  CalmReads(q)'
BY DEF CalmReads, Awaits

(* The documents that wait for nothing but a request. *)
LEMMA AdjustKeeps ==
  ASSUME CorrectionsInv, NEW a \in Adjustments, NEW p \in Products, NEW d \in {-2, -1, 1, 2},
         AdjustRequest(a, p, d) \/ AdjustNow(a, p, d)
  PROVE  CorrectionsInv'
<1>1. PICK status \in {"PENDING", "POSTED"} :
        /\ adj[a].status = "NONE" /\ adj' = [adj EXCEPT ![a] = [status |-> status, product |-> p, qty |-> d]]
        /\ UNCHANGED <<held, cycle, take, rma, requests>>
        /\ \/ UNCHANGED <<onHand, control, refs>>
           \/ /\ status = "POSTED" /\ onHand[p] + d >= 0
              /\ onHand' = [onHand EXCEPT ![p] = @ + d] /\ control' = control + d
              /\ refs' = refs \cup {<<"STOCK_ADJ", a>>}
  BY DEF AdjustRequest, AdjustNow, stockTables
<1>2. ReadsWell' /\ (calm' <=> calm) /\ (Exclusive => Exclusive') /\ UNCHANGED req
  BY <1>1, RequestsStay DEF CorrectionsInv, CorrectionsTyped, requests
<1>3. StockWell /\ SheetsWell /\ <<"STOCK_ADJ", a>> \in References
  BY DEF CorrectionsInv, CorrectionsTyped, References
<1>4. /\ adj' \in [Adjustments -> StockAdjustment] /\ adj'[a].status = status
      /\ \A b \in Adjustments \ {a} : adj'[b] = adj[b]
  BY <1>1, <1>3 DEF SheetsWell, StockAdjustment
<1>5. SheetsWell'
  BY <1>1, <1>3, <1>4 DEF SheetsWell, CountWell, IsCount
<1>6. StockWell' /\ (ControlFollows => ControlFollows')
  <2>1. CASE UNCHANGED <<onHand, control, refs>>
    BY <1>1, <1>3, <2>1, ReturnsStay DEF StockWell, ControlFollows
  <2>2. CASE ~ UNCHANGED <<onHand, control, refs>>
    <3>1. refs' \subseteq References
      BY <1>1, <1>3 DEF StockWell
    <3> QED BY <1>1, <1>3, <2>2, <3>1, ProductMoves
  <2> QED BY <2>1, <2>2
<1>7. ASSUME calm PROVE CalmCorrections'
  <2>1. CalmCorrections
    BY <1>7 DEF CorrectionsInv
  <2>2. RefsFollow'
    <3>1. refs' \subseteq refs \cup {<<"STOCK_ADJ", a>>} /\ (refs' # refs => status = "POSTED")
          /\ <<"STOCK_ADJ", a>> \notin refs
      BY <1>1, <2>1 DEF CalmCorrections, RefsFollow
    <3> QED BY <1>1, <1>4, <2>1, <3>1 DEF CalmCorrections, RefsFollow
  <2>3. HoldFollows'
    BY <1>1, <2>1, ReturnsStay DEF CalmCorrections
  <2>4. ASSUME NEW e \in Clients, req'[e] # Idle PROVE CalmReads(req[e])'
    <3>1. PICK q : q = req[e] /\ q = req'[e] /\ ReadWell(q) /\ CalmReads(q)
      BY <1>2, <2>1, <2>4 DEF CalmCorrections, CorrectionsInv, CorrectionsTyped, ReadsWell
    <3>2. q.op \in {"approve", "reject"} => q.doc \in Adjustments \ {a}
      BY <1>1, <3>1 DEF ReadWell, CalmReads
    <3>3. CalmReads(q)'
      BY <1>1, <1>4, <3>1, <3>2, ReadStays
    <3> QED BY <3>1, <3>3
  <2> QED BY <1>2, <1>6, <2>1, <2>2, <2>3, <2>4 DEF CalmCorrections
<1> QED BY <1>2, <1>5, <1>6, <1>7 DEF CorrectionsInv, CorrectionsTyped

(* An adjustment that waited is posted, or rejected. *)
LEMMA DecideKeeps ==
  ASSUME CorrectionsInv, NEW c \in Clients, AdjustApprove(c) \/ AdjustReject(c)
  PROVE  CorrectionsInv'
<1>1. PICK r : r = req[c] /\ r # Idle
  BY DEF AdjustApprove, AdjustReject
<1>2. StockWell /\ SheetsWell /\ ReadsWell /\ ReadWell(r)
  BY <1>1 DEF CorrectionsInv, CorrectionsTyped, ReadsWell
<1>3. PICK a \in Adjustments : a = r.doc /\ r.op \in {"approve", "reject"}
  BY <1>1, <1>2 DEF ReadWell, AdjustApprove, AdjustReject
<1>4. PICK status \in {"POSTED", "REJECTED"}, p \in Products, d \in Int :
        /\ adj' = [adj EXCEPT ![a].status = status] /\ Answer(c) /\ UNCHANGED <<held, cycle, take, rma>>
        /\ \/ UNCHANGED <<onHand, control, refs>>
           \/ /\ status = "POSTED" /\ onHand[p] + d >= 0
              /\ onHand' = [onHand EXCEPT ![p] = @ + d]
              /\ control' = control + BookedFor(<<"STOCK_ADJ", a>>, d)
              /\ refs' = refs \cup {<<"STOCK_ADJ", a>>}
  <2>1. adj[a].product \in Products /\ adj[a].qty \in Int
    BY <1>2 DEF SheetsWell, StockAdjustment
  <2>2. CASE AdjustApprove(c)
    BY <1>1, <1>3, <2>1, <2>2 DEF AdjustApprove
  <2>3. CASE AdjustReject(c)
    BY <1>1, <1>3, <2>1, <2>3 DEF AdjustReject, stockTables
  <2> QED BY <2>2, <2>3
<1>5. ReadsWell' /\ (calm' <=> calm) /\ (Exclusive => Exclusive')
      /\ req'[c] = Idle /\ \A e \in Clients \ {c} : req'[e] = req[e]
  BY <1>1, <1>2, <1>4, AnswerKeeps
<1>6. /\ adj' \in [Adjustments -> StockAdjustment] /\ adj'[a].status = status
      /\ \A b \in Adjustments \ {a} : adj'[b] = adj[b]
  BY <1>2, <1>4 DEF SheetsWell, StockAdjustment
<1>7. SheetsWell'
  BY <1>2, <1>4, <1>6 DEF SheetsWell, CountWell, IsCount
<1>8. refs' \subseteq References
  BY <1>2, <1>4 DEF StockWell, References
<1>9. StockWell'
  <2>1. BookedFor(<<"STOCK_ADJ", a>>, d) \in Int
    BY DEF BookedFor
  <2>2. onHand' \in [Products -> Nat]
    BY <1>2, <1>4 DEF StockWell
  <2> QED BY <1>2, <1>4, <1>8, <2>1, <2>2 DEF StockWell
<1>10. ASSUME calm PROVE CalmCorrections'
  <2>1. CalmCorrections
    BY <1>10 DEF CorrectionsInv
  <2>2. adj[a].status = "PENDING" /\ <<"STOCK_ADJ", a>> \notin refs
    BY <1>1, <1>3, <2>1 DEF CalmCorrections, CalmReads, RefsFollow
  <2>3. RefsFollow'
    <3>1. refs' \subseteq refs \cup {<<"STOCK_ADJ", a>>} /\ (refs' # refs => status = "POSTED")
      BY <1>4
    <3> QED BY <1>4, <1>6, <2>1, <2>2, <3>1 DEF CalmCorrections, RefsFollow
  <2>4. HoldFollows'
    BY <1>4, <2>1, ReturnsStay DEF CalmCorrections
  <2>5. ControlFollows'
    <3>1. CASE UNCHANGED <<onHand, control, refs>>
      BY <1>4, <2>1, <3>1, ReturnsStay DEF CalmCorrections, ControlFollows
    <3>2. CASE ~ UNCHANGED <<onHand, control, refs>>
      <4>1. control' = control + d
        BY <1>4, <2>2, <3>2 DEF BookedFor
      <4> QED BY <1>2, <1>4, <1>8, <2>1, <3>2, <4>1, ProductMoves DEF CalmCorrections
    <3> QED BY <3>1, <3>2
  <2>6. ASSUME NEW e \in Clients, req'[e] # Idle PROVE CalmReads(req[e])'
    <3>1. e # c /\ req'[e] = req[e]
      BY <1>5, <2>6
    <3>2. PICK q : q = req[e] /\ q = req'[e] /\ ReadWell(q) /\ CalmReads(q) /\ q.doc # r.doc
      BY <1>1, <1>2, <2>1, <2>6, <3>1 DEF CalmCorrections, Exclusive, ReadsWell
    <3>3. q.op \in {"approve", "reject"} => q.doc \in Adjustments \ {a}
      BY <1>3, <3>2 DEF ReadWell
    <3>4. CalmReads(q)'
      BY <1>4, <1>6, <3>2, <3>3, ReadStays
    <3> QED BY <3>2, <3>4
  <2> QED BY <1>5, <2>1, <2>3, <2>4, <2>5, <2>6 DEF CalmCorrections
<1> QED BY <1>5, <1>7, <1>9, <1>10 DEF CorrectionsInv, CorrectionsTyped

(* One return changes what is held, or what was not booked. *)
LEMMA ReturnChanges ==
  ASSUME SheetsWell, NEW r \in Returns, rma' = [rma EXCEPT ![r] = rma'[r]], rma'[r] \in ReturnAuthorization
  PROVE  /\ SheetsWell /\ UNCHANGED <<cycle, take, adj>> => SheetsWell'
         /\ \A x \in Returns \ {r} : rma'[x] = rma[x]
         /\ \A p : HeldFor(p)' = IF Awaits(r)' /\ p \in rma'[r].goods THEN HeldFor(p) \cup {r}
                                 ELSE HeldFor(p) \ {r}
         /\ SumFunction([x \in Returns |-> Unbooked(x)])'
              = SumFunction([x \in Returns |-> Unbooked(x)]) + Unbooked(r)' - Unbooked(r)
<1>1. \A x \in Returns \ {r} : rma'[x] = rma[x]
  BY DEF SheetsWell
<1>2. rma' \in [Returns -> ReturnAuthorization] /\ rma \in [Returns -> ReturnAuthorization]
  BY DEF SheetsWell
<1>3. ASSUME UNCHANGED <<cycle, take, adj>> PROVE SheetsWell'
  BY <1>2, <1>3 DEF SheetsWell, CountWell, IsCount
<1>4. \A x \in Returns \ {r} : (Awaits(x)' <=> Awaits(x)) /\ Unbooked(x)' = Unbooked(x)
  BY <1>1 DEF Awaits, Unbooked
<1>5. \A p : HeldFor(p)' = IF Awaits(r)' /\ p \in rma'[r].goods THEN HeldFor(p) \cup {r}
                           ELSE HeldFor(p) \ {r}
  BY <1>1, <1>4 DEF HeldFor
<1>6. PICK f, h : f = [x \in Returns |-> Unbooked(x)] /\ h = [x \in Returns |-> Unbooked(x)]'
  OBVIOUS
<1>7. f \in [Returns -> Int] /\ h \in [Returns -> Int] /\ (\A x \in Returns \ {r} : h[x] = f[x])
      /\ f[r] = Unbooked(r) /\ h[r] = Unbooked(r)'
  <2>1. f \in [Returns -> Int]
    BY <1>2, <1>6, UnbookedIsInteger
  <2>2. h \in [Returns -> Int]
    <3>1. ASSUME NEW x \in Returns PROVE Unbooked(x)' \in Int
      <4>1. rma'[x].goods \in SUBSET Products
        BY <1>2, GoodsAssumption DEF ReturnAuthorization
      <4>2. Cardinality(rma'[x].goods) \in Nat
        BY <4>1, GoodsAssumption, FS_Subset, FS_CardinalityType
      <4> QED BY <4>2 DEF Unbooked
    <3> QED BY <1>6, <3>1
  <2> QED BY <1>4, <1>6, <2>1, <2>2
<1>8. SumFunction(h) = SumFunction(f) + h[r] - f[r]
  BY ONLY <1>7, ReturnsAssumption, r \in Returns, SumUpdate
<1> QED BY <1>1, <1>3, <1>5, <1>6, <1>7, <1>8

(* A return is entered, or approved. *)
LEMMA ReturnEntered ==
  ASSUME CorrectionsInv, NEW r \in Returns,
         ReturnApprove(r) \/ \E g \in Goods, d \in Dispositions : ReturnCreate(r, g, d)
  PROVE  CorrectionsInv'
<1>1. StockWell /\ SheetsWell /\ ReadsWell
  BY DEF CorrectionsInv, CorrectionsTyped
<1>2. UNCHANGED <<onHand, held, control, refs, cycle, take, adj, requests>>
  BY DEF ReturnApprove, ReturnCreate, stockTables, requests
<1>3. PICK m \in ReturnAuthorization :
        /\ rma' = [rma EXCEPT ![r] = m] /\ m.status \in {"DRAFT", "APPROVED"}
        /\ \/ rma[r].status = "NONE" /\ m.final = "NONE"
           \/ rma[r].status = "DRAFT" /\ m.final = rma[r].final
  <2>1. CASE ReturnApprove(r)
    <3>1. rma[r] \in ReturnAuthorization
      BY <1>1 DEF SheetsWell
    <3>2. PICK m : m = [rma[r] EXCEPT !.status = "APPROVED"]
      OBVIOUS
    <3>3. m \in ReturnAuthorization /\ m.status = "APPROVED" /\ m.final = rma[r].final
      BY <3>1, <3>2 DEF ReturnAuthorization
    <3> QED BY <2>1, <3>2, <3>3 DEF ReturnApprove
  <2>2. CASE \E g \in Goods, d \in Dispositions : ReturnCreate(r, g, d)
    <3>1. PICK g \in Goods, d \in Dispositions : ReturnCreate(r, g, d)
      BY <2>2
    <3>2. PICK m : m = [status |-> "DRAFT", goods |-> g, disposition |-> d, final |-> "NONE"]
      OBVIOUS
    <3>3. m \in ReturnAuthorization /\ m.status = "DRAFT" /\ m.final = "NONE"
      BY <3>2 DEF ReturnAuthorization
    <3> QED BY <3>1, <3>2, <3>3 DEF ReturnCreate
  <2> QED BY <2>1, <2>2
<1>4. rma'[r] = m /\ rma' = [rma EXCEPT ![r] = rma'[r]]
  BY <1>1, <1>3 DEF SheetsWell
<1>5. /\ SheetsWell' /\ \A x \in Returns \ {r} : rma'[x] = rma[x]
      /\ \A p : HeldFor(p)' = IF Awaits(r)' /\ p \in rma'[r].goods THEN HeldFor(p) \cup {r}
                              ELSE HeldFor(p) \ {r}
      /\ SumFunction([x \in Returns |-> Unbooked(x)])'
           = SumFunction([x \in Returns |-> Unbooked(x)]) + Unbooked(r)' - Unbooked(r)
  BY <1>1, <1>2, <1>4, ReturnChanges
<1>6. ~ Awaits(r)' /\ ~ Awaits(r) /\ Unbooked(r)' = 0 /\ Unbooked(r) = 0
  BY <1>3, <1>4 DEF Awaits, Unbooked
<1>7. ReadsWell' /\ (calm' <=> calm) /\ (Exclusive => Exclusive') /\ UNCHANGED req
  BY <1>1, <1>2, RequestsStay DEF requests
<1>8. ASSUME calm PROVE CalmCorrections'
  <2>1. CalmCorrections
    BY <1>8 DEF CorrectionsInv
  <2>2. RefsFollow'
    BY <1>2, <1>3, <1>4, <1>5, <2>1 DEF CalmCorrections, RefsFollow
  <2>3. HoldFollows'
    <3>1. \A p : HeldFor(p)' = HeldFor(p)
      BY <1>5, <1>6 DEF HeldFor
    <3> QED BY <1>2, <2>1, <3>1 DEF CalmCorrections, HoldFollows
  <2>4. ControlFollows'
    <3>1. SumFunction([x \in Returns |-> Unbooked(x)])' = SumFunction([x \in Returns |-> Unbooked(x)])
      BY <1>1, <1>5, <1>6, TotalsAreIntegers
    <3> QED BY <1>2, <2>1, <3>1 DEF CalmCorrections, ControlFollows
  <2>5. ASSUME NEW e \in Clients, req'[e] # Idle PROVE CalmReads(req[e])'
    <3>1. PICK q : q = req[e] /\ q = req'[e] /\ ReadWell(q) /\ CalmReads(q)
      BY <1>1, <1>7, <2>1, <2>5 DEF CalmCorrections, ReadsWell
    <3>2. CASE q.doc = r /\ q.op \in {"receive", "release", "scrap"}
      BY <1>3, <1>4, <1>6, <3>1, <3>2 DEF CalmReads
    <3>3. CASE ~ (q.doc = r /\ q.op \in {"receive", "release", "scrap"})
      <4>1. q.op \in {"receive", "release", "scrap"} => rma'[q.doc] = rma[q.doc]
        BY <1>5, <3>1, <3>3 DEF ReadWell
      <4>2. CalmReads(q)'
        BY <1>2, <3>1, <4>1, ReadStays
      <4> QED BY <3>1, <4>2
    <3> QED BY <3>1, <3>2, <3>3 DEF CalmReads
  <2> QED BY <1>7, <2>1, <2>2, <2>3, <2>4, <2>5 DEF CalmCorrections
<1>9. StockWell'
  BY <1>1, <1>2 DEF StockWell
<1> QED BY <1>5, <1>7, <1>8, <1>9 DEF CorrectionsInv, CorrectionsTyped

(* An answer leaves the requests for other documents as they were. *)
LEMMA OthersRead ==
  ASSUME CorrectionsInv, calm, NEW c \in Clients, req[c] # Idle, Answer(c), UNCHANGED <<cycle, take, adj>>,
         \A x \in Returns \ {req[c].doc} : rma'[x] = rma[x]
  PROVE  \A e \in Clients : req'[e] # Idle => CalmReads(req[e])'
<1>1. CalmCorrections /\ ReadsWell
  BY DEF CorrectionsInv, CorrectionsTyped
<1>2. req'[c] = Idle /\ \A d \in Clients \ {c} : req'[d] = req[d]
  BY <1>1, AnswerKeeps
<1> SUFFICES ASSUME NEW e \in Clients, req'[e] # Idle PROVE CalmReads(req[e])'
  OBVIOUS
<1>3. e # c /\ req'[e] = req[e]
  BY <1>2
<1>4. PICK q : q = req[e] /\ q = req'[e] /\ ReadWell(q) /\ CalmReads(q) /\ q.doc # req[c].doc
  BY <1>1, <1>3 DEF CalmCorrections, Exclusive, ReadsWell
<1>5. q.op \in {"receive", "release", "scrap"} => rma'[q.doc] = rma[q.doc]
  BY <1>4 DEF ReadWell
<1>6. CalmReads(q)'
  BY <1>4, <1>5, ReadStays
<1> QED BY <1>4, <1>6

(* What a journal books is a number, and all of it while the reference is new. *)
LEMMA BookedValue ==
  ASSUME NEW ref, NEW v \in Nat
  PROVE  BookedFor(ref, v) \in Int /\ (ref \notin refs => BookedFor(ref, v) = v)
BY DEF BookedFor

(* Sets of returns grow and shrink by one. *)
LEMMA HeldForCounts ==
  ASSUME NEW p, NEW r \in Returns, NEW before, before = HeldFor(p)
  PROVE  /\ Cardinality(before) \in Nat
         /\ r \notin before => Cardinality(before \cup {r}) = Cardinality(before) + 1
         /\ r \in before => Cardinality(before \ {r}) = Cardinality(before) - 1
<1>1. IsFiniteSet(before)
  BY ReturnsAssumption, FS_Subset DEF HeldFor
<1>2. Cardinality(before) \in Nat
  BY <1>1, FS_CardinalityType
<1>3. r \notin before => Cardinality(before \cup {r}) = Cardinality(before) + 1
  BY <1>1, FS_AddElement
<1>4. r \in before => Cardinality(before \ {r}) = Cardinality(before) - 1
  BY <1>1, FS_RemoveElement
<1> QED BY <1>2, <1>3, <1>4

(* A return is received: to stock, on hold, or in and out again. *)
LEMMA ReceiveKeeps ==
  ASSUME CorrectionsInv, NEW c \in Clients, Receive(c)
  PROVE  CorrectionsInv'
<1>1. PICK r : r = req[c].doc
  OBVIOUS
<1>2. /\ req[c] # Idle /\ req[c].op = "receive" /\ Answer(c) /\ UNCHANGED <<cycle, take, adj>>
      /\ rma' = [rma EXCEPT ![r].status = "RECEIVED"]
  BY <1>1 DEF Receive
<1>3. StockWell /\ SheetsWell /\ ReadsWell /\ r \in Returns
  BY <1>1, <1>2 DEF CorrectionsInv, CorrectionsTyped, ReadsWell, ReadWell
<1>4. PICK m, goods, n : m = rma[r] /\ goods = m.goods /\ n = Cardinality(goods)
  OBVIOUS
<1>5. m \in ReturnAuthorization /\ goods \in SUBSET Products /\ n \in Nat
  <2>1. m \in ReturnAuthorization /\ goods \in SUBSET Products
    BY <1>3, <1>4, GoodsAssumption DEF SheetsWell, ReturnAuthorization
  <2> QED BY <1>4, <2>1, GoodsAssumption, FS_Subset, FS_CardinalityType
<1>6. PICK loss : loss = IF m.disposition = "SCRAP" THEN ScrapLoss(<<"RMA_SCRAP", r>>, goods) ELSE 0
  OBVIOUS
<1>7. PICK first : first = BookedFor(<<"RMA_RETURN", r>>, n)
  OBVIOUS
<1>8. /\ onHand' = IF m.disposition = "RESTOCK" THEN With(onHand, goods, 1) ELSE onHand
      /\ held' = IF m.disposition = "HOLD" THEN With(held, goods, 1) ELSE held
      /\ control' = control + first - loss
      /\ refs' \subseteq refs \cup {<<"RMA_RETURN", r>>, <<"RMA_SCRAP", r>>}
  BY <1>1, <1>4, <1>6, <1>7 DEF Receive
<1>9. first \in Int /\ loss \in Int
  BY <1>5, <1>6, <1>7, BookedValue DEF ScrapLoss
<1>10. StockWell'
  <2>1. onHand' \in [Products -> Nat] /\ held' \in [Products -> Nat]
    BY <1>3, <1>8 DEF StockWell, With
  <2>2. refs' \subseteq References
    BY <1>3, <1>8 DEF StockWell, References
  <2> QED BY <1>3, <1>8, <1>9, <2>1, <2>2 DEF StockWell
<1>11. rma'[r] \in ReturnAuthorization /\ rma'[r].status = "RECEIVED" /\ rma'[r].goods = goods
       /\ rma'[r].disposition = m.disposition /\ rma'[r].final = m.final
       /\ rma' = [rma EXCEPT ![r] = rma'[r]]
  BY <1>2, <1>3, <1>4, <1>5 DEF SheetsWell, ReturnAuthorization
<1>12. /\ SheetsWell' /\ \A x \in Returns \ {r} : rma'[x] = rma[x]
       /\ \A p : HeldFor(p)' = IF Awaits(r)' /\ p \in goods THEN HeldFor(p) \cup {r} ELSE HeldFor(p) \ {r}
       /\ SumFunction([x \in Returns |-> Unbooked(x)])'
            = SumFunction([x \in Returns |-> Unbooked(x)]) + Unbooked(r)' - Unbooked(r)
  BY <1>2, <1>3, <1>11, ReturnChanges
<1>13. ReadsWell' /\ (calm' <=> calm) /\ (Exclusive => Exclusive')
  BY <1>2, <1>3, AnswerKeeps
<1>14. ASSUME calm PROVE CalmCorrections'
  <2>1. CalmCorrections /\ CalmReads(req[c])
    BY <1>2, <1>14 DEF CorrectionsInv, CalmCorrections
  <2>2. m.status \in {"DRAFT", "APPROVED"} /\ m.final = "NONE"
    BY <1>1, <1>2, <1>3, <1>4, <2>1 DEF CalmCorrections, CalmReads, RefsFollow
  <2>3. <<"RMA_RETURN", r>> \notin refs /\ <<"RMA_SCRAP", r>> \notin refs
    BY <1>3, <1>4, <2>1, <2>2 DEF CalmCorrections, RefsFollow
  <2>4. first = n /\ loss = IF m.disposition = "SCRAP" /\ goods # {} THEN 1 ELSE 0
    BY <1>5, <1>6, <1>7, <2>3, BookedValue DEF ScrapLoss
  <2>5. /\ ~ Awaits(r) /\ Unbooked(r) = 0 /\ (Awaits(r)' <=> m.disposition = "HOLD")
        /\ Unbooked(r)' = IF m.disposition = "SCRAP" /\ goods # {} THEN n - 1 ELSE 0
    BY <1>4, <1>11, <2>2 DEF Awaits, Unbooked
  <2>6. RefsFollow'
    <3>1. /\ \A x \in Returns \ {r} : /\ <<"RMA_RETURN", x>> \in refs' \/ <<"RMA_SCRAP", x>> \in refs'
                                         => rma'[x].status = "RECEIVED"
                                      /\ <<"RMA_HOLD_SCRAP", x>> \in refs' => rma'[x].final # "NONE"
                                      /\ rma'[x].final # "NONE" => rma'[x].status = "RECEIVED"
      BY <1>8, <1>12, <2>1 DEF CalmCorrections, RefsFollow
    <3>2. <<"RMA_HOLD_SCRAP", r>> \notin refs'
      BY <1>3, <1>4, <1>8, <2>1, <2>2 DEF CalmCorrections, RefsFollow
    <3> QED BY <1>2, <1>8, <1>11, <2>1, <3>1, <3>2 DEF CalmCorrections, RefsFollow
  <2>7. HoldFollows'
    <3> SUFFICES ASSUME NEW p \in Products PROVE held'[p] = Cardinality(HeldFor(p)')
      BY DEF HoldFollows
    <3>1. PICK before : before = HeldFor(p)
      OBVIOUS
    <3>2. held[p] = Cardinality(before) /\ r \notin before
      BY <2>1, <2>5, <3>1 DEF CalmCorrections, HoldFollows, HeldFor
    <3>3. CASE m.disposition = "HOLD" /\ p \in goods
      <4>1. HeldFor(p)' = before \cup {r}
        BY <1>12, <2>5, <3>1, <3>3
      <4>2. held'[p] = held[p] + 1
        BY <1>8, <3>3 DEF With
      <4> QED BY <1>3, <3>1, <3>2, <4>1, <4>2, HeldForCounts
    <3>4. CASE ~ (m.disposition = "HOLD" /\ p \in goods)
      <4>1. HeldFor(p)' = before
        BY <1>12, <2>5, <3>1, <3>2, <3>4
      <4>2. held'[p] = held[p]
        BY <1>3, <1>8, <3>4 DEF With, StockWell
      <4> QED BY <3>2, <4>1, <4>2
    <3> QED BY <3>3, <3>4
  <2>8. ControlFollows'
    <3>1. PICK on, hold, lost : /\ on = SumFunction(onHand) /\ hold = SumFunction(held)
                                /\ lost = SumFunction([x \in Returns |-> Unbooked(x)])
      OBVIOUS
    <3>2. on \in Int /\ hold \in Int /\ lost \in Int /\ control = on + hold + lost
      BY <1>3, <2>1, <3>1, TotalsAreIntegers DEF CalmCorrections, ControlFollows
    <3>3. SumFunction([x \in Returns |-> Unbooked(x)])'
            = lost + IF m.disposition = "SCRAP" /\ goods # {} THEN n - 1 ELSE 0
      BY <1>5, <1>12, <2>5, <3>1, <3>2
    <3>4. SumFunction(onHand') = IF m.disposition = "RESTOCK" THEN on + n ELSE on
      <4>1. onHand \in [Products -> Int]
        BY <1>3 DEF StockWell
      <4> QED BY <1>4, <1>5, <1>8, <3>1, <4>1, GoodsMove
    <3>5. SumFunction(held') = IF m.disposition = "HOLD" THEN hold + n ELSE hold
      <4>1. held \in [Products -> Int]
        BY <1>3 DEF StockWell
      <4> QED BY <1>4, <1>5, <1>8, <3>1, <4>1, GoodsMove
    <3>6. m.disposition \in {"RESTOCK", "HOLD", "SCRAP"} /\ (goods = {} => n = 0)
      BY <1>4, <1>5, FS_EmptySet DEF ReturnAuthorization, Dispositions
    <3>7. control' = SumFunction(onHand') + SumFunction(held')
                       + (lost + IF m.disposition = "SCRAP" /\ goods # {} THEN n - 1 ELSE 0)
      BY <1>5, <1>8, <2>4, <3>2, <3>4, <3>5, <3>6
    <3> QED BY <3>3, <3>7 DEF ControlFollows
  <2>9. \A e \in Clients : req'[e] # Idle => CalmReads(req[e])'
    BY <1>1, <1>2, <1>12, <1>14, OthersRead
  <2> QED BY <1>13, <2>1, <2>6, <2>7, <2>8, <2>9 DEF CalmCorrections
<1> QED BY <1>10, <1>12, <1>13, <1>14 DEF CorrectionsInv, CorrectionsTyped

(* A held line is released, or scrapped. *)
LEMMA ResolveKeeps ==
  ASSUME CorrectionsInv, NEW c \in Clients, Resolve(c)
  PROVE  CorrectionsInv'
<1>1. PICK r, released : r = req[c].doc /\ released = (req[c].op = "release") /\ released \in BOOLEAN
  OBVIOUS
<1>2. /\ req[c] # Idle /\ req[c].op \in {"release", "scrap"} /\ Answer(c) /\ UNCHANGED <<cycle, take, adj>>
      /\ rma' = [rma EXCEPT ![r].final = IF released THEN "RESTOCK" ELSE "SCRAP"]
  BY <1>1 DEF Resolve
<1>3. StockWell /\ SheetsWell /\ ReadsWell /\ r \in Returns
  BY <1>1, <1>2 DEF CorrectionsInv, CorrectionsTyped, ReadsWell, ReadWell
<1>4. PICK m, goods, n : m = rma[r] /\ goods = m.goods /\ n = Cardinality(goods)
  OBVIOUS
<1>5. m \in ReturnAuthorization /\ goods \in SUBSET Products /\ n \in Nat
  <2>1. m \in ReturnAuthorization /\ goods \in SUBSET Products
    BY <1>3, <1>4, GoodsAssumption DEF SheetsWell, ReturnAuthorization
  <2> QED BY <1>4, <2>1, GoodsAssumption, FS_Subset, FS_CardinalityType
<1>6. PICK loss : loss = ScrapLoss(<<"RMA_HOLD_SCRAP", r>>, goods)
  OBVIOUS
<1>7. /\ \A p \in goods : held[p] > 0
      /\ held' = With(held, goods, -1)
      /\ onHand' = IF released THEN With(onHand, goods, 1) ELSE onHand
      /\ control' = control - IF released THEN 0 ELSE loss
      /\ refs' \subseteq refs \cup {<<"RMA_HOLD_SCRAP", r>>}
  <2>1. (\A p \in goods : held[p] > 0) /\ held' = With(held, goods, -1)
    BY <1>1, <1>4 DEF Resolve
  <2>2. IF released
          THEN onHand' = With(onHand, goods, 1) /\ control' = control /\ refs' = refs
          ELSE /\ control' = control - loss /\ onHand' = onHand
               /\ refs' = refs \cup {<<"RMA_HOLD_SCRAP", r>>}
    BY <1>1, <1>4, <1>6 DEF Resolve
  <2>3. control = control - 0
    BY <1>3 DEF StockWell
  <2>4. CASE released
    BY <2>1, <2>2, <2>3, <2>4
  <2>5. CASE ~ released
    BY <2>1, <2>2, <2>5
  <2> QED BY <1>1, <2>4, <2>5
<1>8. loss \in Int
  BY <1>6, BookedValue DEF ScrapLoss
<1>9. StockWell'
  <2>1. onHand' \in [Products -> Nat] /\ held' \in [Products -> Nat]
    BY <1>3, <1>7 DEF StockWell, With
  <2>2. refs' \subseteq References
    BY <1>3, <1>7 DEF StockWell, References
  <2> QED BY <1>3, <1>7, <1>8, <2>1, <2>2 DEF StockWell
<1>10. rma'[r] \in ReturnAuthorization /\ rma'[r].status = m.status /\ rma'[r].goods = goods
       /\ rma'[r].disposition = m.disposition /\ rma'[r].final = (IF released THEN "RESTOCK" ELSE "SCRAP")
       /\ rma' = [rma EXCEPT ![r] = rma'[r]]
  BY <1>2, <1>3, <1>4, <1>5 DEF SheetsWell, ReturnAuthorization
<1>11. /\ SheetsWell' /\ \A x \in Returns \ {r} : rma'[x] = rma[x]
       /\ \A p : HeldFor(p)' = IF Awaits(r)' /\ p \in goods THEN HeldFor(p) \cup {r} ELSE HeldFor(p) \ {r}
       /\ SumFunction([x \in Returns |-> Unbooked(x)])'
            = SumFunction([x \in Returns |-> Unbooked(x)]) + Unbooked(r)' - Unbooked(r)
  BY <1>2, <1>3, <1>10, ReturnChanges
<1>12. ReadsWell' /\ (calm' <=> calm) /\ (Exclusive => Exclusive')
  BY <1>2, <1>3, AnswerKeeps
<1>13. ASSUME calm PROVE CalmCorrections'
  <2>1. CalmCorrections /\ CalmReads(req[c])
    BY <1>2, <1>13 DEF CorrectionsInv, CalmCorrections
  <2>2. m.status = "RECEIVED" /\ m.final = "NONE" /\ m.disposition = "HOLD" /\ Awaits(r)
    BY <1>1, <1>2, <1>4, <2>1 DEF CalmReads, Awaits
  <2>3. <<"RMA_HOLD_SCRAP", r>> \notin refs
    BY <1>3, <1>4, <2>1, <2>2 DEF CalmCorrections, RefsFollow
  <2>4. loss = IF goods # {} THEN 1 ELSE 0
    BY <1>6, <2>3, BookedValue DEF ScrapLoss
  <2>5. /\ ~ Awaits(r)' /\ Unbooked(r) = 0
        /\ Unbooked(r)' = IF ~ released /\ goods # {} THEN n - 1 ELSE 0
    BY <1>1, <1>4, <1>10, <2>2 DEF Awaits, Unbooked
  <2>6. RefsFollow'
    <3>1. /\ \A x \in Returns \ {r} : /\ <<"RMA_RETURN", x>> \in refs' \/ <<"RMA_SCRAP", x>> \in refs'
                                         => rma'[x].status = "RECEIVED"
                                      /\ <<"RMA_HOLD_SCRAP", x>> \in refs' => rma'[x].final # "NONE"
                                      /\ rma'[x].final # "NONE" => rma'[x].status = "RECEIVED"
      BY <1>7, <1>11, <2>1 DEF CalmCorrections, RefsFollow
    <3> QED BY <1>2, <1>7, <1>10, <2>1, <2>2, <3>1 DEF CalmCorrections, RefsFollow
  <2>7. HoldFollows'
    <3> SUFFICES ASSUME NEW p \in Products PROVE held'[p] = Cardinality(HeldFor(p)')
      BY DEF HoldFollows
    <3>1. PICK before : before = HeldFor(p)
      OBVIOUS
    <3>2. held[p] = Cardinality(before) /\ (r \in before <=> p \in goods) /\ HeldFor(p)' = before \ {r}
      BY <1>3, <1>4, <1>11, <2>1, <2>2, <2>5, <3>1 DEF CalmCorrections, HoldFollows, HeldFor
    <3>3. CASE p \in goods
      <4>1. held'[p] = held[p] - 1
        BY <1>3, <1>7, <3>3 DEF With, StockWell
      <4> QED BY <1>3, <3>1, <3>2, <3>3, <4>1, HeldForCounts
    <3>4. CASE p \notin goods
      <4>1. HeldFor(p)' = before
        BY <3>2, <3>4
      <4>2. held'[p] = held[p]
        BY <1>3, <1>7, <3>4 DEF With, StockWell
      <4> QED BY <3>2, <4>1, <4>2
    <3> QED BY <3>3, <3>4
  <2>8. ControlFollows'
    <3>1. PICK on, hold, lost : /\ on = SumFunction(onHand) /\ hold = SumFunction(held)
                                /\ lost = SumFunction([x \in Returns |-> Unbooked(x)])
      OBVIOUS
    <3>2. on \in Int /\ hold \in Int /\ lost \in Int /\ control = on + hold + lost
      BY <1>3, <2>1, <3>1, TotalsAreIntegers DEF CalmCorrections, ControlFollows
    <3>3. SumFunction([x \in Returns |-> Unbooked(x)])'
            = lost + IF ~ released /\ goods # {} THEN n - 1 ELSE 0
      BY <1>5, <1>11, <2>5, <3>1, <3>2
    <3>4. SumFunction(onHand') = IF released THEN on + n ELSE on
      <4>1. onHand \in [Products -> Int]
        BY <1>3 DEF StockWell
      <4> QED BY <1>4, <1>5, <1>7, <3>1, <4>1, GoodsMove
    <3>5. SumFunction(held') = hold - n
      <4>1. held \in [Products -> Int]
        BY <1>3 DEF StockWell
      <4> QED BY <1>4, <1>5, <1>7, <3>1, <4>1, GoodsMove
    <3>6. goods = {} => n = 0
      BY <1>4, FS_EmptySet
    <3>7. control' = SumFunction(onHand') + SumFunction(held')
                       + (lost + IF ~ released /\ goods # {} THEN n - 1 ELSE 0)
      BY <1>1, <1>5, <1>7, <2>4, <3>2, <3>4, <3>5, <3>6
    <3> QED BY <3>3, <3>7 DEF ControlFollows
  <2>9. \A e \in Clients : req'[e] # Idle => CalmReads(req[e])'
    BY <1>1, <1>2, <1>11, <1>13, OthersRead
  <2> QED BY <1>12, <2>1, <2>6, <2>7, <2>8, <2>9 DEF CalmCorrections
<1> QED BY <1>9, <1>11, <1>12, <1>13 DEF CorrectionsInv, CorrectionsTyped

(* A receipt or a sale of another document moves its stock and its value. *)
LEMMA MoveKeeps ==
  ASSUME CorrectionsInv, NEW p \in Products, NEW d \in {-1, 1}, Move(p, d)
  PROVE  CorrectionsInv'
<1>1. /\ onHand' = [onHand EXCEPT ![p] = @ + d] /\ control' = control + d /\ onHand[p] + d >= 0
      /\ UNCHANGED <<held, refs, cycle, take, adj, rma, requests, req>>
  <2>1. onHand[p] + d \in 0 .. MaxStock
    BY DEF Move
  <2> QED BY <2>1, StockAssumption DEF Move, requests
<1>2. StockWell /\ SheetsWell /\ ReadsWell
  BY DEF CorrectionsInv, CorrectionsTyped
<1>3. StockWell' /\ (ControlFollows => ControlFollows')
  <2>1. refs' \subseteq References /\ UNCHANGED <<held, rma>> /\ d \in Int
    BY <1>1, <1>2 DEF StockWell
  <2>2. onHand' = [onHand EXCEPT ![p] = @ + d] /\ control' = control + d /\ onHand[p] + d >= 0
    BY <1>1
  <2> HIDE <1>1
  <2> QED BY <1>2, <2>1, <2>2, ProductMoves
<1>4. SheetsWell'
  BY <1>1, <1>2 DEF SheetsWell, CountWell, IsCount
<1>5. ReadsWell' /\ (calm' <=> calm) /\ (Exclusive => Exclusive')
  BY <1>1, <1>2, RequestsStay
<1>6. ASSUME calm PROVE CalmCorrections'
  <2>1. CalmCorrections
    BY <1>6 DEF CorrectionsInv
  <2>2. RefsFollow'
    BY <1>1, <2>1 DEF CalmCorrections, RefsFollow
  <2>3. HoldFollows'
    BY <1>1, <2>1, ReturnsStay DEF CalmCorrections
  <2>4. \A e \in Clients : req'[e] # Idle => CalmReads(req[e])'
    BY <1>1, <2>1 DEF CalmCorrections, CalmReads, Awaits
  <2> QED BY <1>3, <1>5, <2>1, <2>2, <2>3, <2>4 DEF CalmCorrections
<1> QED BY <1>3, <1>4, <1>5, <1>6 DEF CorrectionsInv, CorrectionsTyped

(* A request that fails leaves nothing behind. *)
LEMMA FailKeeps ==
  ASSUME CorrectionsInv, NEW c \in Clients, Fail(c)
  PROVE  CorrectionsInv'
<1>1. /\ req[c] # Idle /\ Answer(c) /\ UNCHANGED <<onHand, held, control, refs, cycle, take, adj, rma>>
  BY DEF Fail, stockTables
<1>2. StockWell /\ SheetsWell /\ ReadsWell
  BY DEF CorrectionsInv, CorrectionsTyped
<1>3. StockWell' /\ SheetsWell'
  BY <1>1, <1>2 DEF StockWell, SheetsWell, CountWell, IsCount
<1>4. ReadsWell' /\ (calm' <=> calm) /\ (Exclusive => Exclusive')
  BY <1>1, <1>2, AnswerKeeps
<1>5. ASSUME calm PROVE CalmCorrections'
  <2>1. CalmCorrections
    BY <1>5 DEF CorrectionsInv
  <2>2. RefsFollow'
    BY <1>1, <2>1 DEF CalmCorrections, RefsFollow
  <2>3. HoldFollows' /\ ControlFollows'
    BY <1>1, <2>1, ReturnsStay DEF CalmCorrections, ControlFollows
  <2>4. \A e \in Clients : req'[e] # Idle => CalmReads(req[e])'
    BY <1>1, <1>5, OthersRead
  <2> QED BY <1>4, <2>1, <2>2, <2>3, <2>4 DEF CalmCorrections
<1> QED BY <1>3, <1>4, <1>5 DEF CorrectionsInv, CorrectionsTyped

(* Every step keeps the invariant. *)
LEMMA CorrectionsKeep ==
  ASSUME CorrectionsInv, [NextCorrections]_correctionsVars
  PROVE  CorrectionsInv'
<1>1. CASE CountNext
  <2>1. CASE \/ \E L \in SUBSET CountLines : \E f \in [L -> 0 .. MaxStock] : CycleCreate(f)
             \/ CycleSubmit \/ CycleApprove \/ CycleBounce
    BY <2>1, CycleKeeps
  <2>2. CASE \/ TakeCreate \/ TakeSnapshot \/ TakeSubmit \/ TakeApprove \/ TakeBounce \/ TakeCancel
             \/ \E l \in CountLines, n \in 0 .. MaxStock : TakeCount(l, n)
             \/ \E p \in Products, n \in 0 .. MaxStock : TakeAddLine(p, n)
    BY <2>2, TakeKeeps
  <2>3. ASSUME NEW c \in Clients, LoadCyclePost(c) \/ CyclePost(c) \/ LoadTakePost(c) \/ TakePost(c)
        PROVE  CorrectionsInv'
    BY <2>3, ReadsKeep, PostKeeps
  <2> QED BY <1>1, <2>1, <2>2, <2>3 DEF CountNext
<1>2. CASE AdjustNext
  <2>1. CASE \E a \in Adjustments, p \in Products, d \in {-2, -1, 1, 2} :
               AdjustRequest(a, p, d) \/ AdjustNow(a, p, d)
    BY <2>1, AdjustKeeps
  <2>2. ASSUME NEW c \in Clients,
               \/ \E a \in Adjustments, op \in {"approve", "reject"} : LoadAdjust(c, a, op)
               \/ AdjustApprove(c) \/ AdjustReject(c)
        PROVE  CorrectionsInv'
    BY <2>2, ReadsKeep, DecideKeeps
  <2> QED BY <1>2, <2>1, <2>2 DEF AdjustNext
<1>3. CASE ReturnNext
  <2>1. CASE \/ \E r \in Returns, g \in Goods, d \in Dispositions : ReturnCreate(r, g, d)
             \/ \E r \in Returns : ReturnApprove(r)
    BY <2>1, ReturnEntered
  <2>2. ASSUME NEW c \in Clients,
               \/ \E r \in Returns : LoadReceive(c, r) \/ \E op \in {"release", "scrap"} : LoadResolve(c, r, op)
               \/ Receive(c) \/ Resolve(c)
        PROVE  CorrectionsInv'
    BY <2>2, ReadsKeep, ReceiveKeeps, ResolveKeeps
  <2> QED BY <1>3, <2>1, <2>2 DEF ReturnNext
<1>4. CASE \E p \in Products, d \in {-1, 1} : Move(p, d)
  BY <1>4, MoveKeeps
<1>5. CASE \E c \in Clients : Fail(c)
  BY <1>5, FailKeeps
<1>6. CASE UNCHANGED correctionsVars
  <2>1. UNCHANGED <<stockTables, adj, rma, requests, cycle, take>>
    BY <1>6 DEF correctionsVars, stockTables, requests
  <2>2. CountWell(cycle, CycleStatuses)' /\ CountWell(take, TakeStatuses)'
    BY <2>1 DEF CorrectionsInv, CorrectionsTyped, SheetsWell, CountWell, IsCount
  <2> QED BY <2>1, <2>2, SheetsKeep
<1> QED BY <1>1, <1>2, <1>3, <1>4, <1>5, <1>6 DEF NextCorrections

(* Nothing is stocked, booked or begun at first. *)
LEMMA CorrectionsBegin == InitCorrections => CorrectionsInv
<1> SUFFICES ASSUME InitCorrections PROVE CorrectionsInv
  OBVIOUS
<1>1. StockWell
  BY DEF InitCorrections, StockWell
<1>2. SheetsWell
  <2>1. CountWell(cycle, CycleStatuses) /\ CountWell(take, TakeStatuses)
    BY DEF InitCorrections, CountWell, IsCount, NoLines, CycleStatuses, TakeStatuses
  <2>2. (CHOOSE p \in Products : TRUE) \in Products /\ (CHOOSE g \in Goods : TRUE) \in Goods
    BY GoodsAssumption
  <2>3. adj \in [Adjustments -> StockAdjustment]
    BY <2>2 DEF InitCorrections, StockAdjustment
  <2>4. rma \in [Returns -> ReturnAuthorization]
    BY <2>2 DEF InitCorrections, ReturnAuthorization, Dispositions
  <2> QED BY <2>1, <2>3, <2>4 DEF SheetsWell
<1>3. ReadsWell /\ \A c \in Clients : req[c] = Idle
  BY DEF InitCorrections, InitRequests, ReadsWell
<1>4. Exclusive /\ (\A c \in Clients : req[c] # Idle => CalmReads(req[c]))
  BY <1>3 DEF Exclusive
<1>5. RefsFollow
  BY DEF InitCorrections, RefsFollow
<1>6. \A r \in Returns : ~ Awaits(r) /\ Unbooked(r) = 0
  BY DEF InitCorrections, Awaits, Unbooked
<1>7. HoldFollows
  <2>1. \A p : HeldFor(p) = {}
    BY <1>6 DEF HeldFor
  <2>2. Cardinality({}) = 0
    BY FS_EmptySet
  <2> QED BY <2>1, <2>2 DEF InitCorrections, HoldFollows
<1>8. ControlFollows
  <2>1. PICK f, h, lost : f = onHand /\ h = held /\ lost = [r \in Returns |-> Unbooked(r)]
    OBVIOUS
  <2>2. /\ f \in [Products -> Int] /\ \A p \in Products : f[p] = 0
        /\ h \in [Products -> Int] /\ \A p \in Products : h[p] = 0
        /\ lost \in [Returns -> Int] /\ \A r \in Returns : lost[r] = 0
    BY <1>6, <2>1 DEF InitCorrections
  <2>3. SumFunction(f) = 0 /\ SumFunction(h) = 0 /\ SumFunction(lost) = 0
    BY ONLY <2>2, GoodsAssumption, ReturnsAssumption, SumZero
  <2> QED BY <2>1, <2>3 DEF InitCorrections, ControlFollows
<1> QED BY <1>1, <1>2, <1>3, <1>4, <1>5, <1>7, <1>8 DEF CorrectionsInv, CorrectionsTyped, CalmCorrections

(* The invariant of the stock corrections: sheets, adjustments, returns and requests
   have their types, a request that posts a count found its lines fresh, and while no
   document is submitted twice at once every document is as its request read it. *)
THEOREM CorrectionsInvariant == CorrectionsSpec => []CorrectionsInv
<1>1. InitCorrections => CorrectionsInv
  BY CorrectionsBegin
<1>2. CorrectionsInv /\ [NextCorrections]_correctionsVars => CorrectionsInv'
  BY CorrectionsKeep
<1> QED BY <1>1, <1>2, PTL DEF CorrectionsSpec

(* Every variable of the stock corrections keeps its type, and no balance turns
   negative: the variances, adjustments and releases are refused instead. *)
THEOREM CorrectionsTypes == CorrectionsSpec => []TypeOK
<1>1. CorrectionsInv => TypeOK
  BY DEF CorrectionsInv, CorrectionsTyped, StockWell, SheetsWell, ReadsWell, ReadWell, CountWell,
         References, Posts, TypeOK
<1> QED BY <1>1, CorrectionsInvariant, PTL

(* The inventory account is worth the stock and what is on hold, and what is on hold is
   what received returns hold, unless a document is submitted twice at once. *)
THEOREM BooksMatchStock == CorrectionsSpec => []BookMatchesStock
<1>1. CorrectionsInv => BookMatchesStock
  BY DEF CorrectionsInv, CalmCorrections, ControlFollows, HoldFollows, HeldFor, BookMatchesStock
<1> QED BY <1>1, CorrectionsInvariant, PTL

(* The first line of a product changes its stock by what it was counted to differ. *)
LEMMA FirstLineCounts ==
  ASSUME NEW lines, IsLines(lines), NEW p \in Products, <<p, 2>> \notin DOMAIN lines
  PROVE  Changes(lines)[p] = IF <<p, 1>> \in DOMAIN lines THEN LineVariance(lines[<<p, 1>>]) ELSE 0
<1>1. PICK heap : heap = {k \in DOMAIN lines : k[1] = p}
  OBVIOUS
<1>2. PICK f : f = [l \in heap |-> LineVariance(lines[l])]
  OBVIOUS
<1>3. Changes(lines)[p] = SumFunction(f)
  BY <1>1, <1>2 DEF Changes
<1>4. f \in [heap -> Int]
  BY <1>1, <1>2, ChangesAreIntegers
<1>5. \A k \in heap : k = <<p, 1>>
  BY <1>1 DEF IsLines, CountLines
<1>6. IsFiniteSet(heap)
  <2>1. IsFiniteSet({<<p, 1>>})
    BY FS_Singleton
  <2> QED BY <1>5, <2>1, FS_Subset
<1>7. CASE <<p, 1>> \in DOMAIN lines
  <2>1. PICK a : a = <<p, 1>>
    OBVIOUS
  <2>2. a \in heap /\ f[a] = LineVariance(lines[a]) /\ \A x \in heap \ {a} : f[x] = 0
    BY <1>1, <1>2, <1>5, <1>7, <2>1
  <2>3. SumFunction(f) = f[a]
    BY ONLY <1>4, <1>6, <2>2, SumPoint
  <2> QED BY <1>3, <1>7, <2>1, <2>2, <2>3
<1>8. CASE <<p, 1>> \notin DOMAIN lines
  <2>1. \A x \in heap : f[x] = 0
    BY <1>1, <1>5, <1>8
  <2>2. SumFunction(f) = 0
    BY ONLY <1>4, <1>6, <2>1, SumZero
  <2> QED BY <1>3, <1>8, <2>2
<1> QED BY <1>7, <1>8

(* Posting a count leaves on hand what was counted, and what moved since the request
   found the count fresh; what was not counted stays as it is. *)
THEOREM CountsAreOnHand == CorrectionsSpec => CountedIsOnHand
<1> DEFINE Posted(c) ==
      req[c] # Idle /\ req'[c] = Idle /\ req[c].op \in {"cycle", "take"} /\ onHand' # onHand =>
        \A p \in Products :
          LET l == <<p, 1>>  lines == req[c].lines
          IN  <<p, 2>> \notin DOMAIN lines =>
                onHand'[p] = IF l \in DOMAIN lines /\ lines[l].counted # Uncounted
                               THEN lines[l].counted + onHand[p] - req[c].seen[p]
                               ELSE onHand[p]
<1>1. ASSUME CorrectionsInv, [NextCorrections]_correctionsVars PROVE \A c \in Clients : Posted(c)
  <2> SUFFICES ASSUME NEW c \in Clients, req[c] # Idle, req'[c] = Idle, req[c].op \in {"cycle", "take"},
                      onHand' # onHand, NEW p \in Products, <<p, 2>> \notin DOMAIN req[c].lines
               PROVE  onHand'[p] = IF <<p, 1>> \in DOMAIN req[c].lines
                                        /\ req[c].lines[<<p, 1>>].counted # Uncounted
                                     THEN req[c].lines[<<p, 1>>].counted + onHand[p] - req[c].seen[p]
                                     ELSE onHand[p]
    OBVIOUS
  <2>1. PICK r : r = req[c] /\ ReadWell(r) /\ r.op \in Posts
    BY <1>1 DEF CorrectionsInv, CorrectionsTyped, ReadsWell, Posts
  <2>2. \E ref : PostVariances(r.lines, ref)
    <3>1. PICK e \in Clients : CyclePost(e) \/ TakePost(e) \/ AdjustApprove(e) \/ Receive(e) \/ Resolve(e)
      <4>1. ~ UNCHANGED req /\ ~ UNCHANGED onHand
        BY <2>1
      <4>2. CASE CountNext
        BY <4>1, <4>2 DEF CountNext, stockTables, requests, ReadIn, OnlyCycle, OnlyTake, CycleCreate,
                          CycleSubmit, CycleApprove, CycleBounce, TakeCreate, TakeSnapshot,
                          TakeSubmit, TakeApprove, TakeBounce, TakeCancel, TakeCount, TakeAddLine,
                          LoadCyclePost, LoadTakePost
      <4>3. CASE AdjustNext
        BY <4>1, <4>3 DEF AdjustNext, stockTables, requests, ReadIn, AdjustRequest, AdjustNow,
                          LoadAdjust, AdjustReject
      <4>4. CASE ReturnNext
        BY <4>1, <4>4 DEF ReturnNext, stockTables, requests, ReadIn, ReturnCreate, ReturnApprove,
                          LoadReceive, LoadResolve
      <4>5. CASE (\E x \in Products, d \in {-1, 1} : Move(x, d)) \/ (\E e \in Clients : Fail(e))
                 \/ UNCHANGED correctionsVars
        BY <4>1, <4>5 DEF Move, Fail, stockTables, requests, correctionsVars
      <4> QED BY <1>1, <4>2, <4>3, <4>4, <4>5 DEF NextCorrections
    <3>2. e = c
      BY <1>1, <3>1 DEF Answer, AdjustApprove, Receive, Resolve, CyclePost, TakePost, ReadsWell,
                        CorrectionsInv, CorrectionsTyped
    <3> QED BY <2>1, <3>1, <3>2 DEF AdjustApprove, Receive, Resolve, CyclePost, TakePost, Posts
  <2>3. PICK lines, d : lines = r.lines /\ d = Changes(lines) /\ onHand'[p] = onHand[p] + d[p]
    BY <2>2 DEF PostVariances
  <2>4. IsLines(lines) /\ <<p, 2>> \notin DOMAIN lines
    BY <2>1, <2>3 DEF ReadWell
  <2>5. d[p] = IF <<p, 1>> \in DOMAIN lines THEN LineVariance(lines[<<p, 1>>]) ELSE 0
    BY <2>3, <2>4, FirstLineCounts
  <2>6. onHand[p] \in Nat
    BY <1>1 DEF CorrectionsInv, CorrectionsTyped, StockWell
  <2>7. CASE <<p, 1>> \in DOMAIN lines
    <3>1. PICK a : a = <<p, 1>>
      OBVIOUS
    <3>2. lines[a].expected = r.seen[p] /\ lines[a].expected \in Nat
          /\ lines[a].counted \in Nat \cup {Uncounted}
      <4>1. a[1] = p /\ a \in DOMAIN lines
        BY <2>7, <3>1
      <4> QED BY <2>1, <2>3, <2>4, <4>1 DEF ReadWell, IsLines, Line
    <3>3. d[p] = IF lines[a].counted = Uncounted THEN 0 ELSE lines[a].counted - r.seen[p]
      BY <2>5, <2>7, <3>1, <3>2 DEF LineVariance
    <3> QED BY <2>1, <2>3, <2>6, <2>7, <3>1, <3>2, <3>3, UncountedAssumption
  <2>8. CASE <<p, 1>> \notin DOMAIN lines
    BY <2>1, <2>3, <2>5, <2>6, <2>8
  <2> QED BY <2>7, <2>8
<1>2. CorrectionsInv /\ [NextCorrections]_correctionsVars => [\A c \in Clients : Posted(c)]_correctionsVars
  BY <1>1
<1> QED BY <1>2, CorrectionsInvariant, PTL DEF CorrectionsSpec, CountedIsOnHand
=============================================================================
