------------------------- MODULE AttestationAccess -------------------------
(***************************************************************************)
(* Who may look up one confirmed attestation of a private project: the     *)
(* grants that administrators and API keys give, and the requests that     *)
(* verifiers make and administrators resolve.                              *)
(*                                                                         *)
(* A person stands for an email and for the user row with that email.      *)
(* The people are neither the creator of the attestation nor members of    *)
(* its workspace, so only a grant lets them in.  granted_to_user_id and    *)
(* claimed_at are always set together; a grant without them is pending     *)
(* and carries the token that a registration can claim it with.            *)
(***************************************************************************)
EXTENDS ApiRequests, Sequences, FiniteSets, Naturals

CONSTANTS
  People,
  Grants,       \* ids of grants
  MaxRequests   \* bound: access requests

VARIABLES
  users,          \* the people who have a user row
  grant,          \* attestation_access_grants
  accessRequest,  \* attestation_access_requests, in the order of creation
  racedGrants,    \* people for whom two grants were being inserted at once
  contested       \* requests that two resolutions had loaded at once

accessVars == <<users, grant, accessRequest, racedGrants, contested>>

Grant == [email : People, user : People \cup {None}, revoked : BOOLEAN]
AccessRequest == [user : People, status : {"pending", "approved", "denied"}]
AccessTask ==
  [op      : {"dashboard grant", "public grant", "approve", "deny", "request", "register"},
   step    : {"find grant", "read grantee", "insert grant", "resolve",
              "find request", "insert request", "insert user"},
   email   : People,
   user    : People \cup {None},
   request : 0..MaxRequests,
   grant   : Grants \cup {None}]

ASSUME AccessAssumption ==
  /\ None \notin People \cup Grants \cup Grant \cup AccessTask
  /\ MaxRequests \in Nat

AccessTypeOK ==
  /\ users \subseteq People
  /\ grant \in [Grants -> Grant \cup {None}]
  /\ accessRequest \in Seq(AccessRequest) /\ Len(accessRequest) <= MaxRequests
  /\ racedGrants \subseteq People
  /\ contested \subseteq 1..MaxRequests

AccessInit ==
  /\ users \in SUBSET People
  /\ grant = [g \in Grants |-> None]
  /\ accessRequest = <<>>
  /\ racedGrants = {}
  /\ contested = {}

Task(op, step, e) ==
  [op |-> op, step |-> step, email |-> e, user |-> None, request |-> 0, grant |-> None]

-----------------------------------------------------------------------------
ActiveGrants(e) ==
  {g \in Grants : grant[g] # None /\ grant[g].email = e /\ ~grant[g].revoked}

\* canLookupAttestation
CanLookup(u) == \E g \in ActiveGrants(u) : grant[g].user = u

UserOf(e) == IF e \in users THEN e ELSE None

FreeGrants == {g \in Grants : grant[g] = None}

-----------------------------------------------------------------------------
(* Granting                                                                 *)

\* the dashboard reads the grantee's account before it looks for a grant
GrantFromDashboard(h, e) ==
  /\ Begin(h, [Task("dashboard grant", "find grant", e) EXCEPT !.user = UserOf(e)])
  /\ UNCHANGED accessVars

\* the public API reads it afterwards
GrantFromPublicApi(h, e) ==
  /\ Begin(h, Task("public grant", "find grant", e))
  /\ UNCHANGED accessVars

\* mutant: the grant that exists is not looked for
SkipExistingGrant(h) ==
  /\ At(h, "find grant")
  /\ Continue(h, [work[h] EXCEPT !.step =
                    IF work[h].op = "public grant" THEN "read grantee" ELSE "insert grant"])
  /\ UNCHANGED accessVars

\* a grant that is active is answered, or is what the approval reuses
ReuseGrant(h) ==
  /\ At(h, "find grant")
  /\ ActiveGrants(work[h].email) # {}
  /\ IF work[h].op = "approve"
       THEN Continue(h, [work[h] EXCEPT !.step = "resolve"])
       ELSE Finish(h)
  /\ UNCHANGED accessVars

Granting(h) == At(h, "read grantee") \/ At(h, "insert grant")

FindNoGrant(h) ==
  LET e == work[h].email
  IN  /\ At(h, "find grant")
      /\ ActiveGrants(e) = {}
      /\ Continue(h, [work[h] EXCEPT !.step =
                        IF work[h].op = "public grant" THEN "read grantee" ELSE "insert grant"])
      /\ racedGrants' = IF \E o \in Handlers \ {h} : Granting(o) /\ work[o].email = e
                        THEN racedGrants \cup {e} ELSE racedGrants
      /\ UNCHANGED <<users, grant, accessRequest, contested>>

ReadGrantee(h) ==
  /\ At(h, "read grantee")
  /\ Continue(h, [work[h] EXCEPT !.step = "insert grant", !.user = UserOf(work[h].email)])
  /\ UNCHANGED accessVars

InsertGrant(h) ==
  /\ At(h, "insert grant")
  /\ FreeGrants # {}
  /\ grant' = [grant EXCEPT ![CHOOSE g \in FreeGrants : TRUE] =
                 [email |-> work[h].email, user |-> work[h].user, revoked |-> FALSE]]
  /\ IF work[h].op = "approve"
       THEN Continue(h, [work[h] EXCEPT !.step = "resolve"])
       ELSE Finish(h)
  /\ UNCHANGED <<users, accessRequest, racedGrants, contested>>

RevokeGrant(g) ==
  /\ grant[g] # None
  /\ ~grant[g].revoked
  /\ grant' = [grant EXCEPT ![g].revoked = TRUE]
  /\ UNCHANGED <<work, users, accessRequest, racedGrants, contested>>

\* from the dashboard or the desktop, and with an API key
DeleteAccessGrant(g) == RevokeGrant(g)
DeleteVerifierAccess(g) == RevokeGrant(g)

-----------------------------------------------------------------------------
(* Asking for access                                                        *)

RequestAccess(h, u) ==
  /\ u \in users
  /\ ~CanLookup(u)
  /\ Begin(h, Task("request", "find request", u))
  /\ UNCHANGED accessVars

RequestsOf(u) == {i \in DOMAIN accessRequest : accessRequest[i].user = u}

\* whatever became of the last request, no other is made
FindRequest(h) ==
  /\ At(h, "find request")
  /\ IF RequestsOf(work[h].email) # {}
       THEN Finish(h)
       ELSE Continue(h, [work[h] EXCEPT !.step = "insert request"])
  /\ UNCHANGED accessVars

InsertRequest(h) ==
  /\ At(h, "insert request")
  /\ Len(accessRequest) < MaxRequests
  /\ accessRequest' = Append(accessRequest, [user |-> work[h].email, status |-> "pending"])
  /\ Finish(h)
  /\ UNCHANGED <<users, grant, racedGrants, contested>>

Resolving(i) == {h \in Handlers : work[h] # None /\ work[h].request = i}

LoadRequest(i) ==
  /\ contested' = IF Resolving(i) # {} THEN contested \cup {i} ELSE contested
  /\ UNCHANGED <<users, grant, accessRequest, racedGrants>>

Approve(h, i) ==
  LET u == accessRequest[i].user
  IN  /\ accessRequest[i].status = "pending"
      /\ Begin(h, [Task("approve", "find grant", u) EXCEPT !.user = u, !.request = i])
      /\ LoadRequest(i)

Deny(h, i) ==
  LET u == accessRequest[i].user
  IN  /\ accessRequest[i].status = "pending"
      /\ Begin(h, [Task("deny", "resolve", u) EXCEPT !.request = i])
      /\ LoadRequest(i)

\* the update names the request and not the status it was read with
ResolveRequest(h) ==
  /\ At(h, "resolve")
  /\ accessRequest' = [accessRequest EXCEPT ![work[h].request].status =
                         IF work[h].op = "approve" THEN "approved" ELSE "denied"]
  /\ Finish(h)
  /\ UNCHANGED <<users, grant, racedGrants, contested>>

-----------------------------------------------------------------------------
(* Registering, with the token of a pending grant or without                *)

Claimable(u) == {g \in ActiveGrants(u) : grant[g].user = None}

Register(h, u) ==
  /\ u \notin users
  /\ \E g \in Claimable(u) \cup {None} :
       Begin(h, [Task("register", "insert user", u) EXCEPT !.grant = g])
  /\ UNCHANGED accessVars

\* one transaction; the unique index on emails refuses the second of two
InsertUser(h) ==
  LET u == work[h].email
      g == work[h].grant
  IN  /\ At(h, "insert user")
      /\ Finish(h)
      /\ IF u \in users
           THEN UNCHANGED accessVars
           ELSE /\ users' = users \cup {u}
                /\ grant' = IF g = None THEN grant ELSE [grant EXCEPT ![g].user = u]
                /\ UNCHANGED <<accessRequest, racedGrants, contested>>

-----------------------------------------------------------------------------
AccessStep(h) ==
  \/ \E e \in People : GrantFromDashboard(h, e) \/ GrantFromPublicApi(h, e)
  \/ ReuseGrant(h) \/ FindNoGrant(h) \/ ReadGrantee(h) \/ InsertGrant(h)
  \/ \E u \in People : RequestAccess(h, u) \/ Register(h, u)
  \/ FindRequest(h) \/ InsertRequest(h) \/ InsertUser(h)
  \/ \E i \in DOMAIN accessRequest : Approve(h, i) \/ Deny(h, i)
  \/ ResolveRequest(h)
  \/ Cut(h) /\ UNCHANGED accessVars

AccessNext ==
  \/ \E h \in Handlers : AccessStep(h)
  \/ \E g \in Grants : DeleteAccessGrant(g) \/ DeleteVerifierAccess(g)

-----------------------------------------------------------------------------
\* An email has at most one active grant, so that revoking the grant that the
\* dashboard shows ends the access; only two handlers that both looked before
\* either inserted can leave two.
OneActiveGrant ==
  \A e \in People \ racedGrants : Cardinality(ActiveGrants(e)) <= 1

\* The answer to a request is final: nobody approves what was denied or denies
\* what was approved, unless both had loaded the request while it was pending.
AnswersStay ==
  \A i \in DOMAIN accessRequest \ contested :
     accessRequest[i].status # "pending" => accessRequest'[i] = accessRequest[i]

\* The two together: what an administrator sees of a person's access is what
\* there is. No step leaves a person a second grant to revoke, and none changes
\* the answer that was given.
OneGrantOneAnswer == [][OneActiveGrant' /\ AnswersStay]_accessVars
=============================================================================
