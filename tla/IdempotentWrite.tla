--------------------------- MODULE IdempotentWrite ---------------------------
(***************************************************************************)
(* The writes of the public API that take an Idempotency-Key.  A handler   *)
(* looks for the stored response of the key, performs the write, and only  *)
(* then stores its response: nothing reserves the key in between, and only *)
(* the unique index on the stored responses separates two requests.        *)
(*                                                                         *)
(* The identity of a key includes the method and the path, so a key here   *)
(* belongs to one route.  A body stands for its hash, and for what it      *)
(* names: a slug, a label, an email.                                       *)
(***************************************************************************)
EXTENDS Naturals

CONSTANTS
  Requests,   \* handlers that may run at the same time
  Keys,       \* keys, each of one route
  RouteOf,    \* the route of each key
  Bodies,     \* request bodies
  Rows,       \* ids of the rows the routes write
  None,       \* no key, no row, no stored response
  MaxDeaths   \* bound: handlers that may die half-way

Routes == {"projects", "attestations", "verifier-access", "webhook-endpoints",
           "webhook-tests", "exports"}

Row == [route : Routes, body : Bodies \cup {None}]
Replay == [body : Bodies, row : Rows]

ASSUME IdempotentConstantsOK ==
  /\ RouteOf \in [Keys -> Routes]
  /\ None \notin Keys \cup Bodies \cup Rows \cup Row \cup Replay
  /\ MaxDeaths \in Nat

VARIABLES
  row,      \* the rows the routes write
  replay,   \* idempotency_keys
  request,  \* what each handler is doing
  answers,  \* the successful answers clients got for a key
  deaths    \* handlers that died

idemVars == <<row, replay, request, answers, deaths>>

Request ==
  [step : {"idle", "check", "insert", "announce", "store"},
   key  : Keys \cup {None},     \* none: a dashboard request
   body : Bodies \cup {None},
   row  : Rows \cup {None}]
IdleRequest == [step |-> "idle", key |-> None, body |-> None, row |-> None]

IdemTypeOK ==
  /\ row \in [Rows -> Row \cup {None}]
  /\ replay \in [Keys -> Replay \cup {None}]
  /\ request \in [Requests -> Request]
  /\ answers \subseteq [key : Keys, body : Bodies, row : Rows]
  /\ deaths \in 0..MaxDeaths

IdemInit ==
  /\ row = [x \in Rows |-> None]
  /\ replay = [k \in Keys |-> None]
  /\ request = [r \in Requests |-> IdleRequest]
  /\ answers = {}
  /\ deaths = 0

-----------------------------------------------------------------------------
(* prepareIdempotentWrite                                                   *)

Answer(k, b, x) == answers' = answers \cup {[key |-> k, body |-> b, row |-> x]}

\* mutant: the hash of the body is not compared
ReplayedForAnyBody(k, b) == replay[k] # None

\* the stored response of the key, for the same body; for another body the
\* answer is 409 idempotency_key_conflict and nothing changes
Replayed(k, b) == replay[k] # None /\ replay[k].body = b

FirstStep(route) ==
  IF route \in {"projects", "attestations", "verifier-access"} THEN "check" ELSE "insert"

ReplayStored(r, k, b) ==
  /\ request[r] = IdleRequest
  /\ Replayed(k, b)
  /\ Answer(k, b, replay[k].row)
  /\ UNCHANGED <<row, replay, request, deaths>>

BeginWrite(r, k, b) ==
  /\ request[r] = IdleRequest
  /\ replay[k] = None
  /\ request' = [request EXCEPT ![r] = [step |-> FirstStep(RouteOf[k]), key |-> k,
                                        body |-> b, row |-> None]]
  /\ UNCHANGED <<row, replay, answers, deaths>>

-----------------------------------------------------------------------------
(* The writes                                                               *)

RowsFor(route, b) == {x \in Rows : row[x] = [route |-> route, body |-> b]}

Continue(r, step, x) ==
  request' = [request EXCEPT ![r].step = step, ![r].row = x]

\* the error is not stored: the key stays free
EndRequest(r) ==
  /\ request' = [request EXCEPT ![r] = IdleRequest]
  /\ UNCHANGED <<row, replay, answers>>

Inserts(r, route) == request[r].key # None /\ RouteOf[request[r].key] = route

\* 409 when the name is taken, or on to the insert
CheckName(r, route) ==
  /\ request[r].step = "check"
  /\ Inserts(r, route)
  /\ IF RowsFor(route, request[r].body) # {}
       THEN EndRequest(r)
       ELSE Continue(r, "insert", None) /\ UNCHANGED <<row, replay, answers>>
  /\ UNCHANGED deaths

CheckProject(r) == CheckName(r, "projects")
CheckAttestation(r) == CheckName(r, "attestations")

\* an active grant for the email is the answer, and is stored as such
CheckVerifierAccess(r) ==
  /\ request[r].step = "check"
  /\ Inserts(r, "verifier-access")
  /\ LET grants == RowsFor("verifier-access", request[r].body)
     IN  IF grants # {}
           THEN \E x \in grants : Continue(r, "store", x)
           ELSE Continue(r, "insert", None)
  /\ UNCHANGED <<row, replay, answers, deaths>>

Insert(r, route, x) ==
  /\ request[r].step = "insert"
  /\ row[x] = None
  /\ row' = [row EXCEPT ![x] = [route |-> route, body |-> request[r].body]]
  /\ Continue(r, "announce", x)
  /\ UNCHANGED <<replay, answers, deaths>>

\* a unique index refuses the second row with a name: the handler throws
InsertNamed(r, route, x) ==
  /\ Inserts(r, route)
  /\ IF RowsFor(route, request[r].body) = {}
       THEN Insert(r, route, x)
       ELSE request[r].step = "insert" /\ EndRequest(r) /\ UNCHANGED deaths

CreateProject(r, x) == InsertNamed(r, "projects", x)

SubmitAttestation(r, x) == InsertNamed(r, "attestations", x)

\* no index refuses a second grant for an email
GrantVerifierAccess(r, x) == Inserts(r, "verifier-access") /\ Insert(r, "verifier-access", x)

CreateWebhookEndpoint(r, x) ==
  Inserts(r, "webhook-endpoints") /\ Insert(r, "webhook-endpoints", x)

TestWebhookEndpoint(r, x) == Inserts(r, "webhook-tests") /\ Insert(r, "webhook-tests", x)

CreatePublicExport(r, x) == Inserts(r, "exports") /\ Insert(r, "exports", x)

\* the jobs and the audit event of the write; a dashboard request ends with them
Announce(r) ==
  /\ request[r].step = "announce"
  /\ IF request[r].key = None
       THEN EndRequest(r)
       ELSE Continue(r, "store", request[r].row) /\ UNCHANGED <<row, replay, answers>>
  /\ UNCHANGED deaths

\* mutant: a stored response is overwritten
OverwriteReplay(r) ==
  /\ request[r].step = "store"
  /\ LET q == request[r]
     IN  /\ replay' = [replay EXCEPT ![q.key] = [body |-> q.body, row |-> q.row]]
         /\ Answer(q.key, q.body, q.row)
  /\ request' = [request EXCEPT ![r] = IdleRequest]
  /\ UNCHANGED <<row, deaths>>

\* storeReplay: when the key has a response by now the unique index refuses the
\* row, and the client gets a 500 for a write that was performed
StoreReplay(r) ==
  /\ request[r].step = "store"
  /\ LET q == request[r]
     IN  IF replay[q.key] = None
           THEN /\ replay' = [replay EXCEPT ![q.key] = [body |-> q.body, row |-> q.row]]
                /\ Answer(q.key, q.body, q.row)
           ELSE UNCHANGED <<replay, answers>>
  /\ request' = [request EXCEPT ![r] = IdleRequest]
  /\ UNCHANGED <<row, deaths>>

\* The 400, 404 and 409 of the routes' own checks: of the body, of the API key's user and of
\* what the path names.  None is stored, and each comes before the write; attestations are
\* also counted against the caps once the label has been looked for.
RefuseAt(r, route, steps) ==
  /\ Inserts(r, route)
  /\ request[r].step \in steps
  /\ EndRequest(r)
  /\ UNCHANGED deaths

RefuseProject(r) == RefuseAt(r, "projects", {"check"})
RefuseAttestation(r) == RefuseAt(r, "attestations", {"check", "insert"})
RefuseVerifierAccess(r) == RefuseAt(r, "verifier-access", {"check"})
RefuseWebhookEndpoint(r) == RefuseAt(r, "webhook-endpoints", {"insert"})
RefuseWebhookTest(r) == RefuseAt(r, "webhook-tests", {"insert"})
RefuseExport(r) == RefuseAt(r, "exports", {"insert"})
Refuse(r) ==
  \/ RefuseProject(r) \/ RefuseAttestation(r) \/ RefuseVerifierAccess(r)
  \/ RefuseWebhookEndpoint(r) \/ RefuseWebhookTest(r) \/ RefuseExport(r)

\* the process stops or a call rejects: what was written stays
RequestDies(r) ==
  /\ request[r].step \in {"announce", "store"}
  /\ deaths < MaxDeaths
  /\ deaths' = deaths + 1
  /\ EndRequest(r)

-----------------------------------------------------------------------------
IdemNext ==
  \E r \in Requests :
    \/ \E k \in Keys, b \in Bodies : ReplayStored(r, k, b) \/ BeginWrite(r, k, b)
    \/ CheckProject(r)
    \/ CheckAttestation(r)
    \/ CheckVerifierAccess(r)
    \/ \E x \in Rows :
         \/ CreateProject(r, x)
         \/ GrantVerifierAccess(r, x)
         \/ SubmitAttestation(r, x)
         \/ CreateWebhookEndpoint(r, x)
         \/ TestWebhookEndpoint(r, x)
         \/ CreatePublicExport(r, x)
    \/ Announce(r)
    \/ StoreReplay(r)
    \/ Refuse(r)
    \/ RequestDies(r)

IdemSpec == IdemInit /\ [][IdemNext]_idemVars

-----------------------------------------------------------------------------
\* Whatever the requests with one key do to each other, and whichever of them
\* die and are sent again, every client that was told its write succeeded was
\* told about the same row, written for the same body.  A second row of a key
\* exists only where its client got an error or no answer.
OneAnswerPerKey ==
  \A a, b \in answers : a.key = b.key => a = b

=============================================================================
