----------------------------- MODULE MCPlatform -----------------------------
(***************************************************************************)
(* The routes around the attestations.  They share the handlers of the API *)
(* and otherwise work on different rows, so each behaviour runs the routes *)
(* of one module, the focus, while the rows of the others stay as they are.*)
(***************************************************************************)
EXTENDS AttestationAccess, VerificationLinks, Merkle, OidcSignIn, DevicePairing,
        Membership, PlanLimits, DesktopSession, DesktopWindow, Paging

CONSTANT Focuses   \* the modules to run

VARIABLE focus

mcVars == <<work, accessVars, linkVars, leafSet, accountVars, oidcVars, pairingVars,
            memberVars, planVars, desktopVars, windowVars, pagingVars, focus>>

\* bodies of PATCH that take a role, the organization or a workspace away
MCEdits ==
  LET empty == [role |-> None, orgRole |-> None, mode |-> None, selected |-> None]
  IN  {[empty EXCEPT !.role = "producer"], [empty EXCEPT !.mode = "none"],
       [empty EXCEPT !.orgRole = "member", !.mode = "all"]}
    \cup {[empty EXCEPT !.selected = {w}] : w \in Workspaces}

\* bounds: members meet in one workspace with one invitation; or there is one
\* request at a time and at most one edit, among the invitations to one workspace,
\* with one invitation to several workspaces, or with invitations to several that
\* are accepted one after the other, none of them archived
OneWorkspace == Cardinality({w \in Workspaces : workspace'[w] # "absent"}) <= 1
Invited(states) == Cardinality({i \in Invitations : invitation'[i] # None
                                  /\ invitation'[i].state \in states})
OneInvitation == Invited({"active", "accepted", "revoked", "expired"}) <= 1
OneAtATime ==
  /\ Cardinality({h \in Handlers : work'[h] # None}) <= 1
  /\ \/ OneWorkspace /\ edits' = 0
     \/ OneInvitation /\ edits' <= 1
     \/ /\ edits' <= 1
        /\ Invited({"revoked", "expired"}) = 0 /\ Invited({"active"}) <= 1
        /\ \A w \in Workspaces : workspace'[w] # "archived"

\* users are alike, and workspaces: these two make the organization
AnyFounder ==
  /\ orgMember'[CHOOSE u \in Users : TRUE] # None
  /\ workspace'[CHOOSE w \in Workspaces : TRUE] # "absent"

\* rows are alike: of those that have not been inserted, this one is next
AnyRowNext ==
  \A e \in Entries : createdAt'[e] # createdAt[e] =>
    e = CHOOSE f \in Entries : createdAt[f] = None
\* bounds: rows leave during a walk only, and the list rests until the end of a walk
\* in which rows left or tied
ListRests ==
  inList' # inList =>
    IF walk = None \/ ~walk.hasMore THEN inList \subseteq inList' ELSE ~walk.loose

\* codes are alike, and keys: this one is shown first, with this key
AnyCodeFirst ==
  LET a == attempt'[CHOOSE c \in Codes : TRUE]
  IN  attempt' # attempt => (a # None /\ a.key = CHOOSE k \in DeviceKeys : TRUE)

\* bound: no two accounts have registered
OneAccount == Cardinality({u \in Owners : Exists(u)'}) <= 1

\* bound: attestations are made in one project only, so that three can meet there
OneSealed ==
  \A h \in Handlers : At(h, "insert attestation")' => work'[h].slug = CHOOSE s \in Slugs : TRUE

\* bounds: PDFs waiting to be rendered, links that have expired
OneJob == Cardinality(renderJobs') <= 1
OneExpired == Cardinality({l \in Links : link'[l] # None /\ link'[l].expired}) <= 1

\* bounds: the desktop first signs in; once its files are disputed, or the server has
\* ended what was chosen, a call begins alone; the server takes nothing away while
\* two calls are under way, and keeps one workspace for the user
Busy == {h \in Handlers : work[h] # None}
Begins(h) == work[h] = None /\ work'[h] # None
CallsBegin ==
  \A h \in Handlers : Begins(h) =>
    /\ \/ ~disputed /\ (withdrawn => Busy = {})
       \/ Busy = {} /\ work'[h].call \in {"sign in", "sign out"}
    /\ minted = {} => work'[h].call = "sign in"
ServerCalm ==
  /\ (serverVars' # serverVars /\ work' = work) => Cardinality(Busy) <= 1
  /\ (CHOOSE w \in Places : TRUE) \in allowed'

\* workspaces are alike: the window opens in this one
MCInit ==
  /\ focus \in Focuses
  /\ NoWork
  /\ AccessInit /\ (focus = "access" \/ users = {})
  /\ LinkInit
  /\ IF focus = "merkle" THEN MerkleInit ELSE leafSet = {}
  /\ AccountInit /\ OidcInit /\ PairingInit /\ MemberInit /\ PlanInit
  /\ DesktopInit /\ WindowInit /\ active = CHOOSE w \in Spaces : TRUE
  /\ (focus = "window" \/ existing = Spaces)
  /\ PagingInit /\ (focus = "paging" \/ route = "events")

MCNext ==
  /\ \/ /\ focus = "access" /\ AccessNext
        /\ UNCHANGED <<linkVars, accountVars, oidcVars, pairingVars, memberVars, planVars,
                       desktopVars, windowVars, pagingVars>>
     \/ /\ focus = "links" /\ LinkNext /\ OneJob /\ OneExpired
        /\ UNCHANGED <<accessVars, accountVars, oidcVars, pairingVars, memberVars, planVars,
                       desktopVars, windowVars, pagingVars>>
     \/ /\ focus = "accounts" /\ AccountNext /\ OneAccount
        /\ UNCHANGED <<accessVars, linkVars, oidcVars, pairingVars, memberVars, planVars,
                       desktopVars, windowVars, pagingVars>>
     \/ /\ focus = "identities" /\ OidcNext
        /\ UNCHANGED <<accessVars, linkVars, pairingVars, memberVars, planVars,
                       desktopVars, windowVars, pagingVars>>
     \/ /\ focus = "pairing" /\ PairingNext /\ AnyCodeFirst
        /\ UNCHANGED <<accessVars, linkVars, accountVars, oidcVars, memberVars, planVars,
                       desktopVars, windowVars, pagingVars>>
     \/ /\ focus = "members" /\ MemberNext(MCEdits)
        /\ AnyFounder /\ ((OneWorkspace /\ OneInvitation) \/ OneAtATime)
        /\ UNCHANGED <<accessVars, linkVars, accountVars, oidcVars, pairingVars, planVars,
                       desktopVars, windowVars, pagingVars>>
     \/ /\ focus = "plan" /\ PlanNext /\ OneSealed
        /\ UNCHANGED <<accessVars, linkVars, accountVars, oidcVars, pairingVars, memberVars,
                       desktopVars, windowVars, pagingVars>>
     \/ /\ focus = "desktop" /\ DesktopNext /\ CallsBegin /\ ServerCalm
        /\ UNCHANGED <<accessVars, linkVars, accountVars, oidcVars, pairingVars, memberVars,
                       planVars, windowVars, pagingVars>>
     \/ /\ focus = "paging" /\ PagingNext /\ AnyRowNext /\ ListRests
        /\ UNCHANGED <<work, accessVars, linkVars, accountVars, oidcVars, pairingVars,
                       memberVars, planVars, desktopVars, windowVars>>
     \/ /\ focus = "window" /\ WindowNext
        /\ UNCHANGED <<accessVars, linkVars, accountVars, oidcVars, pairingVars, memberVars,
                       planVars, desktopVars, pagingVars>>
  /\ UNCHANGED <<leafSet, focus>>

\* the handlers are alike: none is ever chosen among others
MCSymmetry == Permutations(Handlers)

MCSpec == MCInit /\ [][MCNext]_mcVars

\* Every table, token and task holds what its module says it may hold.
MCTypeOK ==
  /\ WorkIn(CASE focus = "access"     -> AccessTask
              [] focus = "links"      -> LinkTask
              [] focus = "accounts"   -> AccountTask
              [] focus = "identities" -> OidcTask \cup AccountTask
              [] focus = "pairing"    -> PairingTask
              [] focus = "members"    -> MemberTask
              [] focus = "plan"       -> PlanTask
              [] focus = "desktop"    -> CallTask
              [] focus = "window"     -> WindowTask
              [] OTHER                -> {})
  /\ AccessTypeOK /\ LinkTypeOK /\ AccountTypeOK /\ OidcTypeOK
  /\ PairingTypeOK /\ MemberTypeOK /\ PlanTypeOK /\ DesktopTypeOK
  /\ WindowTypeOK /\ PagingTypeOK
  /\ leafSet \subseteq 1..MaxLeaves
=============================================================================
