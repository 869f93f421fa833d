----------------------------- MODULE Membership -----------------------------
(***************************************************************************)
(* The members of one organization and of its workspaces: who is let in by *)
(* an invitation, what an administrator may change, and how access is      *)
(* resolved.  Roles below administrator (producer, consumer) differ only   *)
(* in what they may do inside a workspace and are one role here.           *)
(*                                                                         *)
(* A handler reads everything it checks in one step and writes in another; *)
(* what it read may be stale by then.                                      *)
(***************************************************************************)
EXTENDS ApiRequests, FiniteSets, Naturals

CONSTANTS
  Users,
  Workspaces,
  Invitations,   \* ids of invitations
  MaxEdits       \* bound: changes and removals of members

VARIABLES
  workspace,     \* tenants of the organization: absent, active or archived
  role,          \* tenant_memberships
  orgMember,     \* organization_memberships
  invitation,    \* tenant_invitations
  edits,         \* changes and removals of members so far
  staleEdit      \* a change was written after another one to what it had read

memberVars == <<workspace, role, orgMember, invitation, edits, staleEdit>>

Roles == {"tenant_admin", "producer"}
Modes == {"selected", "all", "none"}

\* revoked_at is set exactly when the access mode is "none"
OrgMember == [role : {"organization_admin", "member"}, mode : Modes]
Invitation == [workspace : Workspaces, user : Users, role : Roles,
               state : {"active", "accepted", "revoked", "expired"}]

\* the body of PATCH /members/:userId/access: a field that is None is absent
Edit == [role : Roles \cup {None},
         orgRole : {"organization_admin", "member", None},
         mode : Modes \cup {None},
         selected : ((SUBSET Workspaces) \ {{}}) \cup {None}]

\* "set" and "remove" carry what the handler decided to write
MemberTask ==
  [step : {"set", "remove", "replace invitation", "insert invitation", "join",
           "mark accepted", "revoke invitation"},
   workspace : Workspaces,
   user : Users,
   role : Roles \cup {None},
   org  : OrgMember \cup {None},
   selected : (SUBSET Workspaces) \cup {None},
   invitation : Invitations \cup {None},
   stale : BOOLEAN]

ASSUME MemberAssumption ==
  /\ None \notin Roles \cup OrgMember \cup Invitation \cup MemberTask
  /\ MaxEdits \in Nat

MemberTypeOK ==
  /\ workspace \in [Workspaces -> {"absent", "active", "archived"}]
  /\ role \in [Workspaces -> [Users -> Roles \cup {None}]]
  /\ orgMember \in [Users -> OrgMember \cup {None}]
  /\ invitation \in [Invitations -> Invitation \cup {None}]
  /\ edits \in 0..MaxEdits
  /\ staleEdit \in BOOLEAN

MemberInit ==
  /\ workspace = [w \in Workspaces |-> "absent"]
  /\ role = [w \in Workspaces |-> [u \in Users |-> None]]
  /\ orgMember = [u \in Users |-> None]
  /\ invitation = [i \in Invitations |-> None]
  /\ edits = 0 /\ staleEdit = FALSE

Member(step, w, u) ==
  [step |-> step, workspace |-> w, user |-> u, role |-> None, org |-> None,
   selected |-> None, invitation |-> None, stale |-> FALSE]

-----------------------------------------------------------------------------
ActiveOrgMember(u) == orgMember[u] # None /\ orgMember[u].mode # "none"

\* resolveTenantContext: the role u has in w, None for no access
Access(w, u) ==
  IF workspace[w] = "absent" \/ ~ActiveOrgMember(u) THEN None
  ELSE IF role[w][u] # None THEN role[w][u]
  ELSE IF orgMember[u].role = "organization_admin" THEN "tenant_admin"
  ELSE IF orgMember[u].mode = "all" THEN "producer" ELSE None

Administers(u, w) == Access(w, u) = "tenant_admin"

OrgAdmins == {u \in Users : ActiveOrgMember(u) /\ orgMember[u].role = "organization_admin"}
Admins(w) == {u \in Users : role[w][u] = "tenant_admin"}

SetRole(w, u, r) == [role EXCEPT ![w][u] = r]

-----------------------------------------------------------------------------
(* Workspaces                                                               *)

\* the first workspace of a user without any makes the organization
CreateOrganization(u, w) ==
  /\ \A v \in Workspaces : workspace[v] = "absent"
  /\ workspace' = [workspace EXCEPT ![w] = "active"]
  /\ role' = SetRole(w, u, "tenant_admin")
  /\ orgMember' = [orgMember EXCEPT ![u] = [role |-> "organization_admin", mode |-> "selected"]]
  /\ UNCHANGED <<work, invitation, edits, staleEdit>>

CreateWorkspace(u, from, w) ==
  /\ Access(from, u) # None
  /\ u \in OrgAdmins
  /\ workspace[w] = "absent"
  /\ workspace' = [workspace EXCEPT ![w] = "active"]
  /\ role' = SetRole(w, u, "tenant_admin")
  /\ UNCHANGED <<work, orgMember, invitation, edits, staleEdit>>

ArchiveWorkspace(u, from, w) ==
  /\ Access(from, u) # None
  /\ u \in OrgAdmins
  /\ w # from /\ workspace[w] # "absent"
  /\ workspace' = [workspace EXCEPT ![w] = "archived"]
  /\ UNCHANGED <<work, role, orgMember, invitation, edits, staleEdit>>

RestoreWorkspace(u, from, w) ==
  /\ Access(from, u) # None
  /\ u \in OrgAdmins
  /\ workspace[w] = "archived"
  /\ workspace' = [workspace EXCEPT ![w] = "active"]
  /\ UNCHANGED <<work, role, orgMember, invitation, edits, staleEdit>>

-----------------------------------------------------------------------------
(* Changing the access of a member                                          *)

OtherRoles(w, t) == {role[v][t] : v \in Workspaces \ {w}} \ {None}

\* the role of t that the handler goes by, in no particular order of rows when
\* t has none in the workspace of the request
RolesSeen(w, t) ==
  IF role[w][t] # None THEN {role[w][t]}
  ELSE IF OtherRoles(w, t) # {} THEN OtherRoles(w, t)
  ELSE {IF orgMember[t].role = "organization_admin" THEN "tenant_admin" ELSE "producer"}

NextRole(e, seen) == IF e.role # None THEN e.role ELSE seen
NextOrg(e, t) ==
  LET was == IF orgMember[t] = None THEN [role |-> "member", mode |-> "selected"]
                                    ELSE orgMember[t]
  IN  [role |-> IF e.orgRole # None THEN e.orgRole ELSE was.role,
       mode |-> IF e.mode # None THEN e.mode ELSE was.mode]

Loses(w, e, r, org) ==
  r # "tenant_admin" \/ org.mode = "none" \/ (e.selected # None /\ w \notin e.selected)

\* mutant: an organization administrator without access counts as one
StaysOrgAdminInName(org) == org.role = "organization_admin"

StaysOrgAdmin(org) == org.role = "organization_admin" /\ org.mode # "none"

\* the checks of PATCH, in the order of the code; a removed row of another
\* workspace is looked at only when the role seen is that of an administrator
EditAllowed(u, w, t, e, seen) ==
  LET r == NextRole(e, seen)
      org == NextOrg(e, t)
  IN  /\ e.selected # None => \A v \in e.selected : workspace[v] = "active"
      /\ ~(t = u /\ Loses(w, e, r, org))
      /\ t \in OrgAdmins /\ ~StaysOrgAdmin(org) => Cardinality(OrgAdmins) > 1
      /\ seen = "tenant_admin" =>
           \A v \in Workspaces :
             t \in Admins(v) /\ Loses(v, e, r, org) => Cardinality(Admins(v)) > 1

\* u administers w
RequestEdit(h, u, w, t, e) ==
  /\ orgMember[t] # None \/ \E v \in Workspaces : role[v][t] # None
  /\ \E seen \in RolesSeen(w, t) :
       /\ EditAllowed(u, w, t, e, seen)
       /\ Begin(h, [Member("set", w, t) EXCEPT !.role = NextRole(e, seen),
                      !.org = NextOrg(e, t), !.selected = e.selected])
  /\ UNCHANGED memberVars

\* whoever is between its checks and its write has read what now changes
WriteMember(h) ==
  /\ edits < MaxEdits
  /\ edits' = edits + 1
  /\ staleEdit' = (staleEdit \/ work[h].stale)
  /\ work' = [o \in Handlers |->
                IF o = h THEN None
                ELSE IF At(o, "set") \/ At(o, "remove") THEN [work[o] EXCEPT !.stale = TRUE]
                ELSE work[o]]

ApplyEdit(h) ==
  LET t == work[h].user
      r == work[h].role
      NewRole(w) ==
        CASE work[h].org.mode = "none" -> None
          [] work[h].org.mode # "none" /\ work[h].selected # None ->
               IF w \in work[h].selected THEN r ELSE None
          [] OTHER ->
               IF w = work[h].workspace /\ role[w][t] # None THEN r ELSE role[w][t]
  IN  /\ At(h, "set")
      /\ WriteMember(h)
      /\ orgMember' = [orgMember EXCEPT ![t] = work[h].org]
      /\ role' = [w \in Workspaces |-> [role[w] EXCEPT ![t] = NewRole(w)]]
      /\ UNCHANGED <<workspace, invitation>>

\* DELETE takes the row of this workspace and leaves the organization's
RequestRemoval(h, u, w, t) ==
  /\ role[w][t] # None
  /\ t # u
  /\ t \in Admins(w) => Cardinality(Admins(w)) > 1
  /\ Begin(h, Member("remove", w, t))
  /\ UNCHANGED memberVars

RemoveMember(h) ==
  /\ At(h, "remove")
  /\ WriteMember(h)
  /\ role' = SetRole(work[h].workspace, work[h].user, None)
  /\ UNCHANGED <<workspace, orgMember, invitation>>

-----------------------------------------------------------------------------
(* Invitations                                                              *)

ActiveInvitations(w, u) ==
  {i \in Invitations : invitation[i] # None /\ invitation[i].workspace = w
                         /\ invitation[i].user = u /\ invitation[i].state \in {"active", "expired"}}
FreeInvitations == {i \in Invitations : invitation[i] = None}

Invite(h, w, t, r) ==
  /\ role[w][t] = None
  /\ Begin(h, [Member("replace invitation", w, t) EXCEPT !.role = r])
  /\ UNCHANGED memberVars

ReplaceInvitation(h) ==
  /\ At(h, "replace invitation")
  /\ invitation' =
       [i \in Invitations |-> IF i \in ActiveInvitations(work[h].workspace, work[h].user)
                              THEN [invitation[i] EXCEPT !.state = "revoked"] ELSE invitation[i]]
  /\ Continue(h, [work[h] EXCEPT !.step = "insert invitation"])
  /\ UNCHANGED <<workspace, role, orgMember, edits, staleEdit>>

InsertInvitation(h) ==
  /\ At(h, "insert invitation")
  /\ FreeInvitations # {}
  /\ invitation' = [invitation EXCEPT ![CHOOSE i \in FreeInvitations : TRUE] =
                      [workspace |-> work[h].workspace, user |-> work[h].user,
                       role |-> work[h].role, state |-> "active"]]
  /\ Finish(h)
  /\ UNCHANGED <<workspace, role, orgMember, edits, staleEdit>>

InvitationExpires(i) ==
  /\ invitation[i] # None /\ invitation[i].state = "active"
  /\ invitation' = [invitation EXCEPT ![i].state = "expired"]
  /\ UNCHANGED <<work, workspace, role, orgMember, edits, staleEdit>>

RequestInvitationRevocation(h, u, i) ==
  /\ invitation[i] # None /\ invitation[i].state \in {"active", "expired"}
  /\ Administers(u, invitation[i].workspace)
  /\ Begin(h, [Member("revoke invitation", invitation[i].workspace, invitation[i].user)
                 EXCEPT !.invitation = i])
  /\ UNCHANGED memberVars

Mark(i, state) == invitation' = [invitation EXCEPT ![i].state = state]

RevokeInvitation(h) ==
  /\ At(h, "revoke invitation")
  /\ Mark(work[h].invitation, "revoked")
  /\ Finish(h)
  /\ UNCHANGED <<workspace, role, orgMember, edits, staleEdit>>

\* who is a member already only marks the invitation
AcceptInvitation(h, i) ==
  LET w == invitation[i].workspace
      u == invitation[i].user
  IN  /\ invitation[i] # None /\ invitation[i].state = "active"
      /\ Begin(h, [Member(IF role[w][u] # None THEN "mark accepted" ELSE "join", w, u)
                     EXCEPT !.invitation = i, !.role = invitation[i].role])
      /\ UNCHANGED memberVars

MarkAccepted(h) ==
  /\ At(h, "mark accepted")
  /\ Mark(work[h].invitation, "accepted")
  /\ Finish(h)
  /\ UNCHANGED <<workspace, role, orgMember, edits, staleEdit>>

\* mutant: the role of the workspace is also that in the organization
SameRole(r) == r

OrgRole(r) == IF r = "tenant_admin" THEN "organization_admin" ELSE "member"

\* one transaction, refused when the membership exists by now; a row of the
\* organization that exists is left as it is, also when it is revoked
Join(h) ==
  LET w == work[h].workspace
      u == work[h].user
  IN  /\ At(h, "join")
      /\ Finish(h)
      /\ IF role[w][u] # None
           THEN UNCHANGED memberVars
           ELSE /\ role' = SetRole(w, u, work[h].role)
                /\ orgMember' =
                     IF orgMember[u] # None THEN orgMember
                     ELSE [orgMember EXCEPT ![u] =
                             [role |-> OrgRole(work[h].role), mode |-> "selected"]]
                /\ Mark(work[h].invitation, "accepted")
                /\ UNCHANGED <<workspace, edits, staleEdit>>

-----------------------------------------------------------------------------
MemberHandler(h, Edits) ==
  \/ /\ work[h] = None
     /\ \/ \E u \in Users, w \in Workspaces :
             /\ Administers(u, w)
             /\ \E t \in Users : \/ \E e \in Edits : RequestEdit(h, u, w, t, e)
                               \/ RequestRemoval(h, u, w, t)
                               \/ \E r \in Roles : Invite(h, w, t, r)
        \/ \E i \in Invitations : \/ AcceptInvitation(h, i)
                                  \/ \E u \in Users : RequestInvitationRevocation(h, u, i)
  \/ ApplyEdit(h) \/ RemoveMember(h)
  \/ ReplaceInvitation(h) \/ InsertInvitation(h) \/ RevokeInvitation(h)
  \/ MarkAccepted(h) \/ Join(h)
  \/ Cut(h) /\ UNCHANGED memberVars

MemberNext(Edits) ==
  \/ \E h \in Handlers : MemberHandler(h, Edits)
  \/ \E u \in Users, w \in Workspaces :
       \/ CreateOrganization(u, w)
       \/ \E from \in Workspaces : \/ CreateWorkspace(u, from, w)
                                   \/ ArchiveWorkspace(u, from, w)
                                   \/ RestoreWorkspace(u, from, w)
  \/ \E i \in Invitations : InvitationExpires(i)

-----------------------------------------------------------------------------
\* An organization always has an administrator with access, through every
\* sequence of invitations, changes and removals; only a change written after
\* another member's change to what it had checked can take the last one away.
OrgAdminKept ==
  (\E w \in Workspaces : workspace[w] # "absent") => OrgAdmins # {} \/ staleEdit

\* What the membership design says of an invitation: accepting it makes its
\* user a member of the organization, and so lets them into the workspace.
AcceptedHasAccess ==
  [][\A i \in Invitations :
       invitation'[i] # invitation[i] /\ invitation'[i].state = "accepted" =>
         Access(invitation[i].workspace, invitation[i].user)' # None]_memberVars
=============================================================================
