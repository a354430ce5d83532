------------------------------ MODULE Sessions ------------------------------
(***************************************************************************)
(* The organisation and the site a user works in (access.py, the gate of   *)
(* middleware.py, the choosers of views.py, the tables of grants): one     *)
(* user and one browser, whose tabs share a session, while administrators  *)
(* change what he may use.                                                 *)
(*                                                                         *)
(* A tab shows a form that was rendered in one context and is posted in    *)
(* the context of the moment.                                              *)
(***************************************************************************)
EXTENDS Requests, FiniteSets, Functions

CONSTANTS
  Tenants, WorkSites, Locations,
  OrgOf,          \* WorkSites and Locations -> Tenants
  Home,           \* locations -> the sites they stand at
  NoTenant, NoWorkSite, NoLocation,
  Preferred,      \* non-empty sets of tenants -> the default or else the first of them
  ProfileTenant,  \* the tenant of a user with no membership
  MaxChanges      \* bound: changes by administrators

ASSUME SessionsAssumption ==
  /\ MaxChanges \in Nat
  /\ OrgOf \in [WorkSites \cup Locations -> Tenants]
  /\ Home \in [Locations -> WorkSites]
  /\ \A ms \in (SUBSET Tenants) \ {{}} : Preferred[ms] \in ms
  /\ NoTenant \notin Tenants /\ NoWorkSite \notin WorkSites /\ NoLocation \notin Locations

VARIABLES
  rolesIn,      \* OrgMembership: tenants -> "none", "staff" or "admin"
  siteAt,      \* sites -> "active", "inactive" or "deleted"
  siteGrants,  \* UserSiteAccess of the user
  place,       \* Location.site: locations -> a site, or NoWorkSite
  locGrants,   \* UserLocationAccess of the user
  session,     \* the company and the site of the session
  posted,      \* history: the last form that was accepted, and where
  changes

access == <<rolesIn, siteAt, siteGrants, place, locGrants>>
sessions == <<access, session, posted, changes>>

NoContext == [company |-> NoTenant, site |-> NoWorkSite]
Unposted == [opened |-> NoContext, landed |-> NoContext, loc |-> NoLocation, kept |-> FALSE, moved |-> FALSE]

InitSessions ==
  /\ rolesIn = [t \in Tenants |-> "staff"]
  /\ siteAt = [s \in WorkSites |-> "active"]
  /\ siteGrants = {} /\ locGrants = {}
  /\ place = Home
  /\ session = NoContext /\ posted = Unposted /\ changes = 0

-----------------------------------------------------------------------------
Memberships == {t \in Tenants : rolesIn[t] # "none"}

(* get_active_tenant: the session's, while the user belongs to it. *)
ActiveTenant(s) ==
  IF s.company \in Memberships THEN s.company
  ELSE IF Memberships # {} THEN Preferred[Memberships] ELSE ProfileTenant

(* Administrators, and users with no grants in the tenant, are not restricted. *)
Unrestricted(t, grants) == rolesIn[t] = "admin" \/ ~\E x \in grants : OrgOf[x] = t

AccessibleLocations(t) ==
  {l \in Locations : OrgOf[l] = t /\ (Unrestricted(t, locGrants) \/ l \in locGrants)}
SelectableSites(t) ==
  {s \in WorkSites : /\ OrgOf[s] = t /\ siteAt[s] = "active"
                     /\ (Unrestricted(t, siteGrants) \/ s \in siteGrants)}

(* get_active_site: the session's, while it can be selected. *)
ActiveSite(s) ==
  IF s.site \in SelectableSites(ActiveTenant(s)) THEN s.site ELSE NoWorkSite

(* Slip: the drop-down offers all the user may use in the company, as it does for the
   destination of a transfer. *)
OfferedAnywhere(s) == AccessibleLocations(ActiveTenant(s))

(* active_location_ids, and the form's drop-down that it narrows. *)
Offered(s) ==
  {l \in AccessibleLocations(ActiveTenant(s)) : ActiveSite(s) \in {NoWorkSite, place[l]}}

(* context_gate: the session it leaves, and where it sends the request. *)
Gate(s) ==
  LET several == s.company = NoTenant /\ Cardinality(Memberships) > 1
      placed  == IF s.company = NoTenant THEN [s EXCEPT !.company = ActiveTenant(s)] ELSE s
      choice  == SelectableSites(ActiveTenant(placed))
      only    == [placed EXCEPT !.site = CHOOSE x \in choice : TRUE]
  IN  IF several THEN [to |-> "select_org", session |-> s]
      ELSE IF ActiveSite(placed) # NoWorkSite THEN [to |-> "view", session |-> placed]
      ELSE IF Cardinality(choice) = 1 THEN [to |-> "view", session |-> only]
      ELSE [to |-> IF choice = {} THEN "no_site" ELSE "select_site", session |-> placed]

-----------------------------------------------------------------------------
(* A page is asked for, and no form comes of it. *)
Browse ==
  /\ Start
  /\ session' = Gate(session).session
  /\ UNCHANGED <<access, posted, changes, req>>

OpenForm(c, l) ==
  /\ req[c] = Idle /\ Start
  /\ LET g == Gate(session)
     IN  /\ g.to = "view"
         /\ l \in Offered(g.session) \cup {NoLocation}
         /\ session' = g.session
         /\ req' = [req EXCEPT ![c] =
              [company |-> ActiveTenant(g.session), site |-> ActiveSite(g.session), loc |-> l,
               at  |-> IF l = NoLocation THEN NoWorkSite ELSE place[l],
               own |-> g.session.company = ActiveTenant(g.session)]]
  /\ UNCHANGED <<access, posted, changes>>

(* The posted form goes through the gate again and is validated again.  What it creates
   stands at the site of its location, or else at the working site. *)
PostForm(c) ==
  /\ req[c] # Idle
  /\ LET form == req[c]
         g == Gate(session)
         company == ActiveTenant(g.session)
         at == IF form.loc = NoLocation THEN ActiveSite(g.session) ELSE place[form.loc]
     IN  /\ session' = g.session
         /\ posted' =
              IF g.to = "view" /\ form.loc \in Offered(g.session) \cup {NoLocation}
                THEN [opened |-> [company |-> form.company, site |-> form.site],
                      landed |-> [company |-> company, site |-> at],
                      loc    |-> form.loc,
                      kept   |-> /\ form.own /\ form.company \in Memberships
                                /\ form.site \in SelectableSites(form.company),
                      moved  |-> form.loc # NoLocation /\ place[form.loc] # form.at]
                ELSE posted
  /\ req' = [req EXCEPT ![c] = Idle]
  /\ UNCHANGED <<access, changes, overlaps>>

(* _select_company, by select_org or the header: the site has to be chosen again. *)
SelectCompany(t) ==
  /\ t \in Memberships /\ Start
  /\ session' = [company |-> t, site |-> NoWorkSite]
  /\ UNCHANGED <<access, posted, changes, req>>

(* select_site and switch_site: a site of the organisation of the moment. *)
SelectSite(s) ==
  /\ s \in SelectableSites(ActiveTenant(session)) /\ Start
  /\ session' = [session EXCEPT !.site = s]
  /\ UNCHANGED <<access, posted, changes, req>>

(* switch_workspace: both at once. *)
SwitchWorkspace(t, s) ==
  /\ t \in Memberships /\ s \in SelectableSites(t) /\ Start
  /\ session' = [company |-> t, site |-> s]
  /\ UNCHANGED <<access, posted, changes, req>>

Logout ==
  /\ Start
  /\ session' = NoContext
  /\ UNCHANGED <<access, posted, changes, req>>

-----------------------------------------------------------------------------
Change == changes < MaxChanges /\ changes' = changes + 1 /\ UNCHANGED <<session, posted, req, overlaps>>

(* location_access and site_access replace the grants of the tenant by the ticks. *)
GrantSites(t, ticks) ==
  /\ Change
  /\ siteGrants' = {s \in siteGrants : OrgOf[s] # t} \cup ticks
  /\ UNCHANGED <<rolesIn, siteAt, place, locGrants>>

GrantLocations(t, ticks) ==
  /\ Change
  /\ locGrants' = {l \in locGrants : OrgOf[l] # t} \cup ticks
  /\ UNCHANGED <<rolesIn, siteAt, place, siteGrants>>

(* site_edit: a site is closed, or opened again. *)
EditSite(s) ==
  /\ Change /\ siteAt[s] # "deleted"
  /\ siteAt' = [siteAt EXCEPT ![s] = IF @ = "active" THEN "inactive" ELSE "active"]
  /\ UNCHANGED <<rolesIn, siteGrants, place, locGrants>>

(* site_delete: grants go with it, and its locations are left with no site. *)
DeleteSite(s) ==
  /\ Change /\ siteAt[s] # "deleted"
  /\ siteAt' = [siteAt EXCEPT ![s] = "deleted"]
  /\ siteGrants' = siteGrants \ {s}
  /\ place' = [l \in Locations |-> IF place[l] = s THEN NoWorkSite ELSE place[l]]
  /\ UNCHANGED <<rolesIn, locGrants>>

(* location_edit; a location saved without a site goes to the tenant's first. *)
EditLocation(l, s) ==
  /\ Change /\ OrgOf[s] = OrgOf[l] /\ siteAt[s] # "deleted"
  /\ place' = [place EXCEPT ![l] = s]
  /\ UNCHANGED <<rolesIn, siteAt, siteGrants, locGrants>>

Join(t, role) ==
  /\ Change /\ rolesIn[t] # role
  /\ rolesIn' = [rolesIn EXCEPT ![t] = role]
  /\ UNCHANGED <<siteAt, siteGrants, place, locGrants>>

-----------------------------------------------------------------------------
(* A form creates its document where the user saw it open.  If nothing else happened in
   his browser, it is the same company and the same site, unless one of the two was taken
   from him (or the page itself was only a fallback, his chosen company being lost, and he
   got that company back).  Whatever his other tabs chose in the meantime, a document at a
   stock location still belongs to the company and the site of the page, unless the
   location itself has moved. *)
FormsLandWhereOpened ==
  posted # Unposted =>
    /\ (calm /\ posted.kept /\ ~posted.moved => posted.landed = posted.opened)
    /\ (posted.loc # NoLocation /\ ~posted.moved => posted.landed = posted.opened)
=============================================================================
