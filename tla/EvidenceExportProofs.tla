------------------------ MODULE EvidenceExportProofs ------------------------
(***************************************************************************)
(* Every client of one key is told about one row, and every bundle can be  *)
(* told from its row: for any number of requests, keys, workers, cleanups  *)
(* and faults.                                                             *)
(***************************************************************************)
EXTENDS EvidenceExport, TLAPS

\* an answer is the stored response of its key: it is never taken back
AnswersStored ==
  \A a \in answers : replay[a.key] = [body |-> a.body, row |-> a.row]

\* what a handler knows at each step, and that the row it found or wrote is there
RequestsOK ==
  \A r \in Requests :
    /\ request[r].step = "check" => request[r].key # None
    /\ request[r].key # None => request[r].body # None
    /\ request[r].step \in {"announce", "store"} => request[r].row # None
    /\ request[r].step = "store" => request[r].key # None
    /\ request[r].row # None => row[request[r].row] # None

IdemInv == IdemTypeOK /\ AnswersStored /\ RequestsOK

\* nothing belongs to an export that was not created
CleanRows ==
  \A x \in Jobs : row[x] = None =>
    /\ x \notin bundles
    /\ job[x] = NoJob
    /\ \A w \in Workers : builder[w].job # x

\* a run past its put has its bundle in the store, unless it expired meanwhile
BuildersOK ==
  \A w \in Workers :
    /\ builder[w].step # "idle" => builder[w].job \in Jobs
    /\ builder[w].step = "complete" =>
         builder[w].job \in bundles \cup expired

\* a cleanup deletes what has expired; what it has deleted and finds again before it
\* writes the row was put back
CleanersOK ==
  \A c \in Cleaners :
    /\ cleaner[c].todo \subseteq expired
    /\ cleaner[c].deleted \in bundles => cleaner[c].deleted \in stray

ExportInv ==
  TypeOK /\ IdemInv /\ CleanRows /\ BuildersOK /\ CleanersOK /\ BundlesMatchRows

-----------------------------------------------------------------------------
(* The keys                                                                 *)

\* A stored response and a row are not None.
LEMMA RecordsAreNotNone ==
  /\ \A b \in Bodies, x \in Rows : [body |-> b, row |-> x] # None
  /\ \A t \in Routes, b \in Bodies \cup {None} : [route |-> t, body |-> b] # None
BY IdempotentConstantsOK DEF Replay, Row

\* Initially nothing is stored and nobody was answered.
LEMMA IdemInitOK == IdemInit => IdemInv
BY IdempotentConstantsOK
   DEF IdemInit, IdemInv, IdemTypeOK, AnswersStored, RequestsOK, Request, IdleRequest

\* A handler moves on, and nothing but its request changes.
LEMMA RequestMoves ==
  ASSUME IdemInv, UNCHANGED <<row, replay, answers, deaths>>,
         NEW r \in Requests, NEW q \in Request,
         request' = [request EXCEPT ![r] = q],
         q.step = "check" => q.key # None,
         q.key # None => q.body # None,
         q.step \in {"announce", "store"} => q.row # None,
         q.step = "store" => q.key # None,
         q.row # None => row[q.row] # None
  PROVE  IdemInv'
<1>1. IdemTypeOK'
  BY DEF IdemInv, IdemTypeOK
<1>2. AnswersStored'
  BY DEF IdemInv, AnswersStored
<1>3. RequestsOK'
  BY DEF IdemInv, IdemTypeOK, RequestsOK
<1> QED
  BY <1>1, <1>2, <1>3 DEF IdemInv

\* A request that goes on knows a row that exists.
LEMMA ContinueOK ==
  ASSUME IdemInv, UNCHANGED <<row, replay, answers, deaths>>,
         NEW r \in Requests, NEW step \in {"insert", "announce", "store"},
         NEW x \in Rows \cup {None}, Continue(r, step, x),
         step \in {"announce", "store"} => x # None,
         step = "store" => request[r].key # None,
         x # None => row[x] # None
  PROVE  IdemInv'
<1> DEFINE q == [request[r] EXCEPT !.step = step, !.row = x]
<1>1. /\ request[r] \in Request
      /\ request[r].key # None => request[r].body # None
  BY DEF IdemInv, IdemTypeOK, RequestsOK
<1>2. /\ q \in Request /\ q.step = step /\ q.row = x
      /\ q.key = request[r].key /\ q.body = request[r].body
  BY <1>1 DEF Request
<1>3. request' = [request EXCEPT ![r] = q]
  BY DEF Continue, IdemInv, IdemTypeOK
<1> HIDE DEF q
<1> QED
  BY <1>1, <1>2, <1>3, RequestMoves

\* A request that ends, whether it died or was refused.
LEMMA EndRequestOK ==
  ASSUME IdemInv, NEW r \in Requests, EndRequest(r), deaths' \in 0..MaxDeaths
  PROVE  IdemInv'
BY DEF EndRequest, IdemInv, IdemTypeOK, AnswersStored, RequestsOK, Request, IdleRequest

\* A replay answers what is stored under the key.
LEMMA ReplayStoredOK ==
  ASSUME IdemInv, NEW r \in Requests, NEW k \in Keys, NEW b \in Bodies, ReplayStored(r, k, b)
  PROVE  IdemInv'
<1>1. replay[k] \in Replay /\ replay[k].body = b
  BY DEF ReplayStored, Replayed, IdemInv, IdemTypeOK
<1>2. replay[k].row \in Rows /\ replay[k] = [body |-> b, row |-> replay[k].row]
  BY <1>1 DEF Replay
<1>3. IdemTypeOK'
  BY <1>2 DEF ReplayStored, Answer, IdemInv, IdemTypeOK
<1>4. AnswersStored'
  <2> SUFFICES ASSUME NEW a \in answers'
               PROVE  replay[a.key] = [body |-> a.body, row |-> a.row]
    BY DEF AnswersStored, ReplayStored
  <2>1. a \in answers \/ a = [key |-> k, body |-> b, row |-> replay[k].row]
    BY DEF ReplayStored, Answer
  <2> QED
    BY <1>2, <2>1 DEF IdemInv, AnswersStored
<1>5. RequestsOK'
  BY DEF ReplayStored, IdemInv, RequestsOK
<1> QED
  BY <1>3, <1>4, <1>5 DEF IdemInv

\* A request that found no stored answer begins its write.
LEMMA BeginWriteOK ==
  ASSUME IdemInv, NEW r \in Requests, NEW k \in Keys, NEW b \in Bodies, BeginWrite(r, k, b)
  PROVE  IdemInv'
<1> DEFINE q == [step |-> FirstStep(RouteOf[k]), key |-> k, body |-> b, row |-> None]
<1>1. FirstStep(RouteOf[k]) \in {"check", "insert"}
  BY DEF FirstStep
<1>2. /\ q \in Request
      /\ q.step \in {"check", "insert"} /\ q.key # None /\ q.body # None /\ q.row = None
  BY <1>1, IdempotentConstantsOK DEF Request
<1>3. request' = [request EXCEPT ![r] = q] /\ UNCHANGED <<row, replay, answers, deaths>>
  BY DEF BeginWrite
<1> HIDE DEF q
<1> QED
  BY <1>2, <1>3, RequestMoves

\* The check of a name ends the request, or lets it go on to insert.
LEMMA CheckNameOK ==
  ASSUME IdemInv, NEW r \in Requests, NEW route \in Routes, CheckName(r, route)
  PROVE  IdemInv'
<1>1. CASE RowsFor(route, request[r].body) # {}
  BY <1>1, EndRequestOK DEF CheckName, IdemInv, IdemTypeOK
<1>2. CASE RowsFor(route, request[r].body) = {}
  BY <1>2, ContinueOK DEF CheckName
<1> QED
  BY <1>1, <1>2

\* The check of the verifier's access reads only.
LEMMA CheckVerifierAccessOK ==
  ASSUME IdemInv, NEW r \in Requests, CheckVerifierAccess(r)
  PROVE  IdemInv'
<1> DEFINE grants == RowsFor("verifier-access", request[r].body)
<1>1. request[r].key # None /\ request[r].body \in Bodies \cup {None}
  BY DEF CheckVerifierAccess, IdemInv, IdemTypeOK, RequestsOK, Request
<1>2. CASE grants # {}
  <2>1. PICK x \in grants : Continue(r, "store", x)
    BY <1>2 DEF CheckVerifierAccess
  <2>2. x \in Rows /\ row[x] # None
    BY <1>1, RecordsAreNotNone DEF RowsFor, Routes
  <2>3. x # None
    BY <2>2, IdempotentConstantsOK
  <2> QED
    BY <1>1, <2>1, <2>2, <2>3, ContinueOK DEF CheckVerifierAccess
<1>3. CASE grants = {}
  BY <1>3, ContinueOK DEF CheckVerifierAccess
<1> QED
  BY <1>2, <1>3

\* A row is written where there was none, and its handler knows it.
LEMMA InsertOK ==
  ASSUME IdemInv, NEW r \in Requests, NEW route \in Routes, NEW x \in Rows, Insert(r, route, x)
  PROVE  IdemInv' /\ row'[x] # None /\ \A y \in Rows \ {x} : row'[y] = row[y]
<1> DEFINE new == [route |-> route, body |-> request[r].body]
<1>1. /\ request[r] \in Request
      /\ request[r].key # None => request[r].body # None
  BY DEF IdemInv, IdemTypeOK, RequestsOK
<1>2. new \in Row /\ new # None
  BY <1>1, RecordsAreNotNone DEF Request, Row
<1>3. row' = [row EXCEPT ![x] = new]
  BY DEF Insert
<1>4. \A y \in Rows : row'[y] = IF y = x THEN new ELSE row[y]
  BY <1>3 DEF IdemInv, IdemTypeOK
<1>5. IdemTypeOK'
  <2>1. row' \in [Rows -> Row \cup {None}]
    BY <1>2, <1>3 DEF IdemInv, IdemTypeOK
  <2>2. [request[r] EXCEPT !.step = "announce", !.row = x] \in Request
    BY <1>1 DEF Request
  <2>3. request' \in [Requests -> Request]
    BY <2>2 DEF Insert, Continue, IdemInv, IdemTypeOK
  <2> QED
    BY <2>1, <2>3 DEF Insert, IdemInv, IdemTypeOK
<1>6. AnswersStored'
  BY DEF Insert, IdemInv, AnswersStored
<1>7. RequestsOK'
  <2> SUFFICES ASSUME NEW s \in Requests
               PROVE  /\ request'[s].step = "check" => request'[s].key # None
                      /\ request'[s].key # None => request'[s].body # None
                      /\ request'[s].step \in {"announce", "store"} => request'[s].row # None
                      /\ request'[s].step = "store" => request'[s].key # None
                      /\ request'[s].row # None => row'[request'[s].row] # None
    BY DEF RequestsOK
  <2>1. CASE s = r
    <3>1. /\ request'[s].step = "announce" /\ request'[s].row = x
          /\ request'[s].key = request[r].key /\ request'[s].body = request[r].body
      BY <1>1, <2>1 DEF Insert, Continue, IdemInv, IdemTypeOK, Request
    <3> QED
      BY <1>1, <1>2, <1>4, <3>1, IdempotentConstantsOK
  <2>2. CASE s # r
    <3>1. request'[s] = request[s] /\ request[s] \in Request
      BY <2>2 DEF Insert, Continue, IdemInv, IdemTypeOK
    <3> HIDE DEF new
    <3> QED
      BY <1>2, <1>4, <3>1 DEF IdemInv, RequestsOK, Request
  <2> QED
    BY <2>1, <2>2
<1> HIDE DEF new
<1> QED
  BY <1>2, <1>4, <1>5, <1>6, <1>7 DEF IdemInv

\* The row is inserted by its unique name, or found there.
LEMMA InsertNamedOK ==
  ASSUME IdemInv, NEW r \in Requests, NEW route \in Routes, NEW x \in Rows,
         InsertNamed(r, route, x)
  PROVE  IdemInv'
<1>1. CASE RowsFor(route, request[r].body) = {}
  BY <1>1, InsertOK DEF InsertNamed
<1>2. CASE RowsFor(route, request[r].body) # {}
  BY <1>2, EndRequestOK DEF InsertNamed, IdemInv, IdemTypeOK
<1> QED
  BY <1>1, <1>2

\* The audit and webhook events of a write leave rows and keys alone.
LEMMA AnnounceOK ==
  ASSUME IdemInv, NEW r \in Requests, Announce(r)
  PROVE  IdemInv'
<1>1. CASE request[r].key = None
  BY <1>1, EndRequestOK DEF Announce, IdemInv, IdemTypeOK
<1>2. CASE request[r].key # None
  <2>1. /\ request[r].row \in Rows \cup {None}
        /\ request[r].row # None /\ row[request[r].row] # None
    BY DEF Announce, IdemInv, IdemTypeOK, RequestsOK, Request
  <2> QED
    BY <1>2, <2>1, ContinueOK DEF Announce
<1> QED
  BY <1>1, <1>2

\* The key has one stored response: the first.
LEMMA StoreReplayOK ==
  ASSUME IdemInv, NEW r \in Requests, StoreReplay(r)
  PROVE  IdemInv'
<1> DEFINE q == request[r]
<1>1. q.key \in Keys /\ q.body \in Bodies /\ q.row \in Rows
  BY DEF StoreReplay, IdemInv, IdemTypeOK, RequestsOK, Request
<1>2. request' = [request EXCEPT ![r] = IdleRequest]
  BY DEF StoreReplay
<1>3. RequestsOK'
  BY <1>2 DEF StoreReplay, IdemInv, IdemTypeOK, RequestsOK, IdleRequest
<1>4. request' \in [Requests -> Request]
  BY <1>2 DEF IdemInv, IdemTypeOK, Request, IdleRequest
<1>5. CASE replay[q.key] = None
  <2> DEFINE stored == [body |-> q.body, row |-> q.row]
  <2>1. stored \in Replay
    BY <1>1 DEF Replay
  <2>2. /\ replay' = [replay EXCEPT ![q.key] = stored]
        /\ answers' = answers \cup {[key |-> q.key, body |-> q.body, row |-> q.row]}
    BY <1>5 DEF StoreReplay, Answer
  <2>3. IdemTypeOK'
    BY <1>1, <1>4, <2>1, <2>2 DEF StoreReplay, IdemInv, IdemTypeOK
  <2>4. AnswersStored'
    <3> SUFFICES ASSUME NEW a \in answers'
                 PROVE  replay'[a.key] = [body |-> a.body, row |-> a.row]
      BY DEF AnswersStored
    <3>1. CASE a \in answers
      <4>1. /\ a.key \in Keys /\ a.body \in Bodies /\ a.row \in Rows
            /\ replay[a.key] = [body |-> a.body, row |-> a.row]
        BY <3>1 DEF IdemInv, IdemTypeOK, AnswersStored
      <4>2. a.key # q.key
        BY <1>5, <4>1, RecordsAreNotNone
      <4> QED
        BY <2>2, <4>1, <4>2 DEF IdemInv, IdemTypeOK
    <3>2. CASE a = [key |-> q.key, body |-> q.body, row |-> q.row]
      BY <1>1, <2>2, <3>2 DEF IdemInv, IdemTypeOK
    <3> QED
      BY <2>2, <3>1, <3>2
  <2> QED
    BY <1>3, <2>3, <2>4 DEF IdemInv
<1>6. CASE replay[q.key] # None
  BY <1>3, <1>4, <1>6 DEF StoreReplay, IdemInv, IdemTypeOK, AnswersStored
<1> QED
  BY <1>5, <1>6

\* A refusal is not stored.
LEMMA RefuseOK ==
  ASSUME IdemInv, NEW r \in Requests, Refuse(r)
  PROVE  IdemInv'
<1>1. EndRequest(r) /\ UNCHANGED deaths
  BY DEF Refuse, RefuseProject, RefuseAttestation, RefuseVerifierAccess, RefuseWebhookEndpoint,
         RefuseWebhookTest, RefuseExport, RefuseAt
<1> QED
  BY <1>1, EndRequestOK DEF IdemInv, IdemTypeOK

\* A handler that dies leaves its row, and no answer.
LEMMA RequestDiesOK ==
  ASSUME IdemInv, NEW r \in Requests, RequestDies(r)
  PROVE  IdemInv'
<1>1. deaths' \in 0..MaxDeaths
  BY IdempotentConstantsOK DEF RequestDies, IdemInv, IdemTypeOK
<1> QED
  BY <1>1, EndRequestOK DEF RequestDies

\* Every step of the routes with keys keeps the invariant.
LEMMA IdemStepOK == IdemInv /\ [IdemNext]_idemVars => IdemInv'
<1> SUFFICES ASSUME IdemInv, [IdemNext]_idemVars PROVE IdemInv'
  OBVIOUS
<1>1. CASE UNCHANGED idemVars
  BY <1>1 DEF idemVars, IdemInv, IdemTypeOK, AnswersStored, RequestsOK
<1>2. CASE IdemNext
  <2>1. PICK r \in Requests :
          \/ \E k \in Keys, b \in Bodies : ReplayStored(r, k, b) \/ BeginWrite(r, k, b)
          \/ CheckProject(r)
          \/ CheckAttestation(r)
          \/ CheckVerifierAccess(r)
          \/ \E x \in Rows :
               \/ CreateProject(r, x)
               \/ GrantVerifierAccess(r, x)
               \/ SubmitAttestation(r, x)
               \/ CreateWebhookEndpoint(r, x)
               \/ TestWebhookEndpoint(r, x)
               \/ CreatePublicExport(r, x)
          \/ Announce(r)
          \/ StoreReplay(r)
          \/ Refuse(r)
          \/ RequestDies(r)
    BY <1>2 DEF IdemNext
  <2>2. CASE \E k \in Keys, b \in Bodies : ReplayStored(r, k, b) \/ BeginWrite(r, k, b)
    BY <2>2, ReplayStoredOK, BeginWriteOK
  <2>3. CASE CheckProject(r) \/ CheckAttestation(r)
    BY <2>3, CheckNameOK DEF CheckProject, CheckAttestation, Routes
  <2>4. CASE CheckVerifierAccess(r)
    BY <2>4, CheckVerifierAccessOK
  <2>5. ASSUME NEW x \in Rows, CreateProject(r, x) \/ SubmitAttestation(r, x)
        PROVE  IdemInv'
    BY <2>5, InsertNamedOK DEF CreateProject, SubmitAttestation, Routes
  <2>6. ASSUME NEW x \in Rows,
               \/ GrantVerifierAccess(r, x) \/ CreateWebhookEndpoint(r, x)
               \/ TestWebhookEndpoint(r, x) \/ CreatePublicExport(r, x)
        PROVE  IdemInv'
    BY <2>6, InsertOK DEF GrantVerifierAccess, CreateWebhookEndpoint, TestWebhookEndpoint,
                          CreatePublicExport, Routes
  <2>7. CASE Announce(r) \/ StoreReplay(r) \/ Refuse(r) \/ RequestDies(r)
    BY <2>7, AnnounceOK, StoreReplayOK, RefuseOK, RequestDiesOK
  <2> QED
    BY <2>1, <2>2, <2>3, <2>4, <2>5, <2>6, <2>7
<1> QED
  BY <1>1, <1>2

\* Answers that are what their keys have stored are one for each key.
LEMMA StoredIsOneAnswer == IdemInv => OneAnswerPerKey
<1> SUFFICES ASSUME IdemInv, NEW a \in answers, NEW b \in answers, a.key = b.key
             PROVE  a = b
  BY DEF OneAnswerPerKey
<1>1. [body |-> a.body, row |-> a.row] = [body |-> b.body, row |-> b.row]
  BY DEF IdemInv, AnswersStored
<1>2. a.body = b.body /\ a.row = b.row
  BY <1>1
<1>3. a \in [key : Keys, body : Bodies, row : Rows] /\ b \in [key : Keys, body : Bodies, row : Rows]
  BY DEF IdemInv, IdemTypeOK
<1> QED
  BY <1>2, <1>3

\* Every client of a key of the six routes that was told of success was told of one row.
THEOREM KeyHasOneAnswer == IdemSpec => []OneAnswerPerKey
BY IdemInitOK, IdemStepOK, StoredIsOneAnswer, PTL DEF IdemSpec

-----------------------------------------------------------------------------
(* The exports                                                              *)

\* Initially there are no exports, jobs, bundles or runs.
LEMMA ExportInitOK == Init => ExportInv
<1> SUFFICES ASSUME Init PROVE ExportInv
  OBVIOUS
<1>1. IdemInv
  BY IdemInitOK DEF Init
<1>2. TypeOK
  BY <1>1, ExportConstantsOK
     DEF Init, IdemInv, TypeOK, ExportRow, NoExport, QueueJob, NoJob, Builder, IdleBuilder,
         Cleaner, IdleCleaner
<1>3. CleanRows /\ BuildersOK /\ CleanersOK /\ BundlesMatchRows
  BY ExportConstantsOK, IdempotentConstantsOK
     DEF Init, CleanRows, BuildersOK, CleanersOK, BundlesMatchRows, NamedBundleExists,
         OrphansExplained, NoExport, IdleBuilder, IdleCleaner
<1> QED
  BY <1>1, <1>2, <1>3 DEF ExportInv

\* Rows that are written stay, and a step that only concerns the keys keeps the rest.
LEMMA KeyStepsOK ==
  ASSUME ExportInv, IdemInv', UNCHANGED exportVars,
         \A x \in Rows : row[x] # None => row'[x] # None
  PROVE  ExportInv'
<1>1. TypeOK'
  BY DEF ExportInv, IdemInv, TypeOK, exportVars, objects
<1>2. CleanRows'
  BY ExportConstantsOK DEF ExportInv, CleanRows, exportVars, objects
<1>3. BuildersOK' /\ CleanersOK'
  BY DEF ExportInv, BuildersOK, CleanersOK, exportVars, objects
<1>4. BundlesMatchRows'
  BY DEF ExportInv, BundlesMatchRows, NamedBundleExists, OrphansExplained, exportVars, objects
<1> QED
  BY <1>1, <1>2, <1>3, <1>4 DEF ExportInv

\* The steps of IdempotentWrite leave builds and bundles alone.
LEMMA KeyStepOK ==
  ASSUME ExportInv, NEW r \in Requests, KeyStep(r), UNCHANGED exportVars
  PROVE  ExportInv'
<1>1. IdemInv
  BY DEF ExportInv
<1>2. CASE \E k \in ExportKeys, b \in Bodies : ReplayStored(r, k, b) \/ BeginWrite(r, k, b)
  BY <1>1, <1>2, ReplayStoredOK, BeginWriteOK, KeyStepsOK DEF ExportKeys, ReplayStored, BeginWrite
<1>3. CASE StoreReplay(r)
  BY <1>1, <1>3, StoreReplayOK, KeyStepsOK DEF StoreReplay
<1>4. CASE Refuse(r)
  <2>1. UNCHANGED row
    BY <1>4 DEF Refuse, RefuseProject, RefuseAttestation, RefuseVerifierAccess,
                RefuseWebhookEndpoint, RefuseWebhookTest, RefuseExport, RefuseAt, EndRequest
  <2> QED
    BY <1>1, <1>4, <2>1, RefuseOK, KeyStepsOK
<1>5. CASE RequestDies(r)
  BY <1>1, <1>5, RequestDiesOK, KeyStepsOK DEF RequestDies, EndRequest
<1> QED
  BY <1>2, <1>3, <1>4, <1>5 DEF KeyStep

\* The dashboard's export takes no key.
LEMMA BeginDashboardExportOK ==
  ASSUME ExportInv, NEW r \in Requests, BeginDashboardExport(r)
  PROVE  ExportInv'
<1> DEFINE q == [IdleRequest EXCEPT !.step = "insert"]
<1>1. /\ q \in Request
      /\ q.step = "insert" /\ q.key = None /\ q.row = None
  BY DEF Request, IdleRequest
<1>2. request' = [request EXCEPT ![r] = q]
  BY DEF BeginDashboardExport, ExportInv, IdemInv, IdemTypeOK
<1>3. IdemInv'
  <2> HIDE DEF q
  <2> QED
    BY <1>1, <1>2, RequestMoves DEF BeginDashboardExport, ExportInv
<1> QED
  BY <1>3, KeyStepsOK DEF BeginDashboardExport

\* The row of a new export belongs to nothing yet.
LEMMA CreateExportOK ==
  ASSUME ExportInv, NEW r \in Requests, NEW x \in Jobs, CreateExport(r, x)
  PROVE  ExportInv'
<1> DEFINE new == [status |-> "queued", named |-> FALSE]
<1>1. Insert(r, "exports", x) /\ x \in Rows
  BY ExportConstantsOK DEF CreateExport, CreateDashboardExport, CreatePublicExport
<1>2. row[x] = None
  BY <1>1 DEF Insert
<1>3. IdemInv' /\ row'[x] # None /\ \A y \in Rows \ {x} : row'[y] = row[y]
  BY <1>1, InsertOK DEF ExportInv, Routes
<1>4. /\ export' = [export EXCEPT ![x] = new]
      /\ UNCHANGED <<bundles, expired, job, builder, cleaner, stray, faults>>
  BY DEF CreateExport
<1>5. new \in ExportRow /\ ~new.named
  BY DEF ExportRow
<1>6. TypeOK'
  BY <1>3, <1>4, <1>5 DEF ExportInv, IdemInv, TypeOK
<1>7. CleanRows'
  BY <1>3, <1>4, ExportConstantsOK DEF ExportInv, CleanRows
<1>8. BuildersOK' /\ CleanersOK'
  BY <1>4 DEF ExportInv, BuildersOK, CleanersOK
<1>9. x \notin bundles
  BY <1>2 DEF ExportInv, CleanRows
<1>10. BundlesMatchRows'
  BY <1>4, <1>5, <1>9
     DEF ExportInv, TypeOK, BundlesMatchRows, NamedBundleExists, OrphansExplained
<1> QED
  BY <1>3, <1>6, <1>7, <1>8, <1>10 DEF ExportInv

\* The job is added for a row that was created.
LEMMA EnqueueExportOK ==
  ASSUME ExportInv, NEW r \in Requests, EnqueueExport(r)
  PROVE  ExportInv'
<1>1. IdemInv' /\ UNCHANGED row
  BY AnnounceOK DEF EnqueueExport, Announce, EndRequest, ExportInv
<1>2. row[request[r].row] # None
  BY DEF EnqueueExport, Announce, ExportInv, IdemInv, RequestsOK
<1>3. \A x \in Jobs : job'[x] = IF x = request[r].row THEN [job[x] EXCEPT !.status = "waiting"]
                                                      ELSE job[x]
  BY DEF EnqueueExport, ExportInv, TypeOK
<1>4. job' \in [Jobs -> QueueJob]
  <2>1. job' = [x \in Jobs |-> job'[x]]
    BY DEF EnqueueExport, ExportInv, TypeOK
  <2>2. \A j \in QueueJob : [j EXCEPT !.status = "waiting"] \in QueueJob
    BY DEF QueueJob
  <2>3. \A x \in Jobs : job'[x] \in QueueJob
    BY <1>3, <2>2 DEF ExportInv, TypeOK
  <2> QED
    BY <2>1, <2>3
<1>5. UNCHANGED <<export, bundles, expired, builder, cleaner, stray, faults>>
  BY DEF EnqueueExport, objects
<1>6. TypeOK'
  BY <1>1, <1>4, <1>5 DEF ExportInv, IdemInv, TypeOK
<1>7. CleanRows'
  BY <1>1, <1>2, <1>3, <1>5 DEF ExportInv, CleanRows
<1>8. BuildersOK' /\ CleanersOK' /\ BundlesMatchRows'
  BY <1>5 DEF ExportInv, BuildersOK, CleanersOK, BundlesMatchRows, NamedBundleExists,
              OrphansExplained
<1> QED
  BY <1>1, <1>6, <1>7, <1>8 DEF ExportInv

\* A deadline that passes changes no row and no bundle.
LEMMA ExpireOK ==
  ASSUME ExportInv, NEW x \in Jobs, Expire(x)
  PROVE  ExportInv'
<1> USE DEF Expire, objects, idemVars
<1>1. IdemInv'
  BY DEF ExportInv, IdemInv, IdemTypeOK, AnswersStored, RequestsOK
<1>2. TypeOK'
  BY <1>1 DEF ExportInv, IdemInv, TypeOK
<1>3. CleanRows' /\ BuildersOK' /\ CleanersOK' /\ BundlesMatchRows'
  BY DEF ExportInv, CleanRows, BuildersOK, CleanersOK, BundlesMatchRows, NamedBundleExists,
         OrphansExplained
<1> QED
  BY <1>1, <1>2, <1>3 DEF ExportInv

-----------------------------------------------------------------------------
(* The worker and the cleanup                                               *)

\* What the worker and the cleanup leave alone.
LEMMA KeysUntouched ==
  ASSUME ExportInv, UNCHANGED idemVars
  PROVE  IdemInv' /\ IdemTypeOK' /\ UNCHANGED row
BY DEF idemVars, ExportInv, IdemInv, IdemTypeOK, AnswersStored, RequestsOK

\* A run is one of a created export.
LEMMA RunningJob ==
  ASSUME ExportInv, NEW w \in Workers, builder[w].step # "idle"
  PROVE  builder[w].job \in Jobs /\ row[builder[w].job] # None
BY DEF ExportInv, BuildersOK, CleanRows

\* A worker takes a job of a row that exists.
LEMMA BeginBuildOK ==
  ASSUME ExportInv, NEW w \in Workers, NEW x \in Jobs, BeginBuild(w, x)
  PROVE  ExportInv'
<1> DEFINE new == [step |-> "reopen", job |-> x, try |-> job[x].made + 1]
           taken == [job[x] EXCEPT !.status = "active", !.owner = w]
<1>1. IdemInv' /\ IdemTypeOK' /\ UNCHANGED <<row, export, bundles, expired, cleaner, stray, faults>>
  BY KeysUntouched DEF BeginBuild, objects
<1>2. job[x] \in QueueJob /\ job[x].status = "waiting"
  BY DEF BeginBuild, ExportInv, TypeOK
<1>3. taken \in QueueJob
  BY <1>2 DEF QueueJob
<1>4. new \in Builder /\ new.step = "reopen" /\ new.job = x
  BY <1>2, ExportConstantsOK DEF QueueJob, Builder
<1>5. row[x] # None
  BY <1>2 DEF ExportInv, CleanRows, NoJob
<1>6. job' = [job EXCEPT ![x] = taken] /\ builder' = [builder EXCEPT ![w] = new]
  BY DEF BeginBuild
<1> HIDE DEF new, taken
<1>7. TypeOK'
  BY <1>1, <1>3, <1>4, <1>6 DEF ExportInv, TypeOK
<1>8. CleanRows'
  BY <1>1, <1>4, <1>5, <1>6 DEF ExportInv, TypeOK, CleanRows
<1>9. BuildersOK' /\ CleanersOK'
  BY <1>1, <1>4, <1>6 DEF ExportInv, TypeOK, BuildersOK, CleanersOK
<1>10. BundlesMatchRows'
  BY <1>1, <1>4, <1>6
     DEF BeginBuild, IdleBuilder, ExportInv, TypeOK, BundlesMatchRows, NamedBundleExists,
         OrphansExplained
<1> QED
  BY <1>1, <1>7, <1>8, <1>9, <1>10 DEF ExportInv

\* A run that moves on keeps its job; the row keeps its key or gets one, and the
\* bundle stays.
LEMMA BuildMoves ==
  ASSUME ExportInv, UNCHANGED <<idemVars, expired, job, cleaner>>,
         faults' \in 0..MaxFaults,
         NEW w \in Workers, builder[w].step # "idle",
         NEW step \in {"reopen", "put", "complete", "catch", "throw", "return"},
         NextBuild(w, step),
         export' \in [Jobs -> ExportRow],
         bundles' \subseteq Jobs, stray' \subseteq Jobs,
         \A x \in bundles : x \in bundles',
         \A x \in stray : x \in stray',
         \A x \in Jobs \ {builder[w].job} : /\ export'[x] = export[x]
                                            /\ x \in bundles' => x \in bundles,
         step = "complete" => builder[w].job \in bundles' \cup expired,
         \A c \in Cleaners : cleaner[c].deleted = builder[w].job
           /\ cleaner[c].deleted \in bundles' => cleaner[c].deleted \in stray',
         export'[builder[w].job].named /\ builder[w].job \notin expired =>
           builder[w].job \in bundles',
         builder[w].job \in bundles' =>
           \/ export'[builder[w].job].named
           \/ builder[w].job \in stray'
           \/ step = "complete"
           \/ \E o \in Workers \ {w} : builder[o].job = builder[w].job /\ builder[o].step = "complete"
  PROVE  ExportInv'
<1> DEFINE new == [builder[w] EXCEPT !.step = step]
           x == builder[w].job
<1>1. IdemInv' /\ IdemTypeOK' /\ UNCHANGED row
  BY KeysUntouched
<1>2. x \in Jobs /\ row[x] # None
  BY RunningJob
<1>3. new \in Builder /\ new.step = step /\ new.job = x
  BY DEF ExportInv, TypeOK, Builder
<1>4. builder' = [builder EXCEPT ![w] = new]
  BY DEF NextBuild, ExportInv, TypeOK
<1>5. /\ builder'[w].job = x /\ builder'[w].step = step
      /\ \A o \in Workers \ {w} : builder'[o] = builder[o]
  BY <1>3, <1>4 DEF ExportInv, TypeOK
<1>6. TypeOK'
  BY <1>1, <1>3, <1>4 DEF ExportInv, TypeOK
<1> HIDE DEF new
<1>7. CleanRows'
  <2> SUFFICES ASSUME NEW y \in Jobs, row[y] = None
               PROVE  /\ y \notin bundles' /\ job[y] = NoJob
                      /\ \A o \in Workers : builder'[o].job # y
    BY <1>1 DEF CleanRows
  <2>1. y # x
    BY <1>2
  <2>2. y \notin bundles /\ job[y] = NoJob /\ \A o \in Workers : builder[o].job # y
    BY DEF ExportInv, CleanRows
  <2>3. \A o \in Workers : builder'[o].job # y
    BY <1>5, <2>1, <2>2
  <2> QED
    BY <2>1, <2>2, <2>3
<1>8. BuildersOK'
  <2> SUFFICES ASSUME NEW o \in Workers
               PROVE  /\ builder'[o].step # "idle" => builder'[o].job \in Jobs
                      /\ builder'[o].step = "complete" => builder'[o].job \in bundles' \cup expired
    BY DEF BuildersOK
  <2>1. CASE o = w
    BY <1>2, <1>5, <2>1
  <2>2. CASE o # w
    BY <1>5, <2>2 DEF ExportInv, BuildersOK
  <2> QED
    BY <2>1, <2>2
<1>9. CleanersOK'
  <2> SUFFICES ASSUME NEW c \in Cleaners
               PROVE  /\ cleaner[c].todo \subseteq expired
                      /\ cleaner[c].deleted \in bundles' => cleaner[c].deleted \in stray'
    BY DEF CleanersOK
  <2> QED
    BY <1>2 DEF ExportInv, CleanersOK
<1>10. NamedBundleExists'
  BY <1>2 DEF ExportInv, BundlesMatchRows, NamedBundleExists
<1>11. OrphansExplained'
  <2> SUFFICES ASSUME NEW y \in bundles'
               PROVE  \/ export'[y].named
                      \/ y \in stray'
                      \/ \E o \in Workers : builder'[o].job = y /\ builder'[o].step = "complete"
    BY DEF OrphansExplained
  <2>1. CASE y = x
    <3>1. CASE step = "complete"
      BY <1>5, <2>1, <3>1
    <3>2. CASE step # "complete"
      BY <1>5, <2>1, <3>2
    <3> QED
      BY <3>1, <3>2
  <2>2. CASE y # x
    <3>1. y \in Jobs /\ y \in bundles /\ export'[y] = export[y]
      BY <2>2
    <3>2. \/ export[y].named
          \/ y \in stray
          \/ \E o \in Workers \ {w} : builder[o].job = y /\ builder[o].step = "complete"
      BY <2>2, <3>1 DEF ExportInv, BundlesMatchRows, OrphansExplained
    <3> QED
      BY <1>5, <3>1, <3>2
  <2> QED
    BY <2>1, <2>2
<1> QED
  BY <1>1, <1>6, <1>7, <1>8, <1>9, <1>10, <1>11 DEF ExportInv, BundlesMatchRows

\* A run before its put or after its failure is not what explains a bundle.
LEMMA ExplainedByOthers ==
  ASSUME ExportInv, NEW w \in Workers, builder[w].step \notin {"idle", "complete"},
         builder[w].job \in bundles
  PROVE  \/ export[builder[w].job].named
         \/ builder[w].job \in stray
         \/ \E o \in Workers \ {w} : builder[o].job = builder[w].job /\ builder[o].step = "complete"
BY DEF ExportInv, BundlesMatchRows, OrphansExplained

\* Only the status of the row changes.
LEMMA StatusSet ==
  ASSUME ExportInv, NEW w \in Workers, builder[w].step # "idle",
         NEW status \in {"queued", "processing", "failed"}, SetStatus(w, status)
  PROVE  /\ export' \in [Jobs -> ExportRow]
         /\ \A x \in Jobs : export'[x].named = export[x].named
         /\ \A x \in Jobs \ {builder[w].job} : export'[x] = export[x]
<1>1. builder[w].job \in Jobs /\ export[builder[w].job] \in ExportRow
  BY RunningJob DEF ExportInv, TypeOK
<1>2. [export[builder[w].job] EXCEPT !.status = status] \in ExportRow
  BY <1>1 DEF ExportRow
<1> QED
  BY <1>1, <1>2 DEF SetStatus, ExportInv, TypeOK, ExportRow

\* The status of the row names no bundle.
LEMMA SetProcessingOK ==
  ASSUME ExportInv, NEW w \in Workers, SetProcessing(w)
  PROVE  ExportInv'
<1>1. /\ export' \in [Jobs -> ExportRow]
      /\ \A x \in Jobs : export'[x].named = export[x].named
      /\ \A x \in Jobs \ {builder[w].job} : export'[x] = export[x]
  BY StatusSet DEF SetProcessing
<1>2. builder[w].job \in Jobs /\ builder[w].step = "reopen"
  BY RunningJob DEF SetProcessing
<1>3. NextBuild(w, "put") /\ UNCHANGED <<idemVars, bundles, expired, job, cleaner, stray, faults>>
  BY DEF SetProcessing
<1>4. /\ bundles \subseteq Jobs /\ stray \subseteq Jobs /\ faults \in 0..MaxFaults
      /\ CleanersOK /\ NamedBundleExists
  BY DEF ExportInv, TypeOK, BundlesMatchRows
<1> QED
  BY <1>1, <1>2, <1>3, <1>4, ExplainedByOthers, BuildMoves DEF CleanersOK, NamedBundleExists

\* A failure that is recorded takes no bundle from the row.
LEMMA RecordFailureOK ==
  ASSUME ExportInv, NEW w \in Workers, RecordFailure(w)
  PROVE  ExportInv'
<1> DEFINE status == IF FinalTry(w) THEN "failed" ELSE "queued"
           step == IF FinalTry(w) THEN "return" ELSE "throw"
<1>1. /\ export' \in [Jobs -> ExportRow]
      /\ \A x \in Jobs : export'[x].named = export[x].named
      /\ \A x \in Jobs \ {builder[w].job} : export'[x] = export[x]
  BY StatusSet DEF RecordFailure
<1>2. builder[w].job \in Jobs /\ builder[w].step = "catch"
  BY RunningJob DEF RecordFailure
<1>3. /\ NextBuild(w, step) /\ step \in {"return", "throw"}
      /\ UNCHANGED <<idemVars, bundles, expired, job, cleaner, stray, faults>>
  BY DEF RecordFailure
<1>4. /\ bundles \subseteq Jobs /\ stray \subseteq Jobs /\ faults \in 0..MaxFaults
      /\ CleanersOK /\ NamedBundleExists
  BY DEF ExportInv, TypeOK, BundlesMatchRows
<1> HIDE DEF status, step
<1> QED
  BY <1>1, <1>2, <1>3, <1>4, ExplainedByOthers, BuildMoves DEF CleanersOK, NamedBundleExists

\* Between the two writes of a cleanup, a bundle that is put is put back.
LEMMA PutBundleOK ==
  ASSUME ExportInv, NEW w \in Workers, PutBundle(w)
  PROVE  ExportInv'
<1>1. builder[w].job \in Jobs /\ builder[w].step = "put"
  BY RunningJob DEF PutBundle
<1>2. /\ NextBuild(w, "complete") /\ UNCHANGED <<idemVars, export, expired, job, cleaner, faults>>
      /\ bundles' = bundles \cup {builder[w].job}
  BY DEF PutBundle
<1>3. /\ stray' \subseteq Jobs /\ \A x \in stray : x \in stray'
      /\ \A c \in Cleaners : cleaner[c].deleted = builder[w].job => builder[w].job \in stray'
  BY <1>1 DEF PutBundle, ExportInv, TypeOK
<1>4. /\ bundles \subseteq Jobs /\ faults \in 0..MaxFaults /\ export \in [Jobs -> ExportRow]
  BY DEF ExportInv, TypeOK
<1> QED
  BY <1>1, <1>2, <1>3, <1>4, BuildMoves

\* The row names the bundle that the run has just stored.
LEMMA CompleteExportOK ==
  ASSUME ExportInv, NEW w \in Workers, CompleteExport(w)
  PROVE  ExportInv'
<1>1. builder[w].job \in Jobs /\ builder[w].step = "complete"
  BY RunningJob DEF CompleteExport
<1>2. /\ NextBuild(w, "return")
      /\ UNCHANGED <<idemVars, bundles, expired, job, cleaner, stray, faults>>
  BY DEF CompleteExport
<1>3. [status |-> "completed", named |-> TRUE] \in ExportRow
  BY DEF ExportRow
<1>4. /\ export' \in [Jobs -> ExportRow] /\ export'[builder[w].job].named
      /\ \A x \in Jobs \ {builder[w].job} : export'[x] = export[x]
  BY <1>1, <1>3 DEF CompleteExport, ExportInv, TypeOK
<1>5. builder[w].job \in bundles \cup expired
  BY <1>1 DEF ExportInv, BuildersOK
<1>6. /\ bundles \subseteq Jobs /\ stray \subseteq Jobs /\ faults \in 0..MaxFaults /\ CleanersOK
  BY DEF ExportInv, TypeOK
<1> QED
  BY <1>1, <1>2, <1>4, <1>5, <1>6, BuildMoves DEF CleanersOK

\* A run that fails goes on to record it.
LEMMA BuildRejectsOK ==
  ASSUME ExportInv, NEW w \in Workers, BuildRejects(w)
  PROVE  ExportInv'
<1>1. builder[w].job \in Jobs /\ builder[w].step \in {"put", "complete"}
  BY RunningJob DEF BuildRejects
<1>2. /\ NextBuild(w, "catch") /\ UNCHANGED <<idemVars, export, bundles, expired, job, cleaner>>
  BY DEF BuildRejects, objects
<1>3. faults' \in 0..MaxFaults
  BY ExportConstantsOK DEF BuildRejects, ExportInv, TypeOK
<1>4. /\ stray' \subseteq Jobs /\ \A x \in stray : x \in stray'
      /\ builder[w].step = "complete" => builder[w].job \in stray'
  BY <1>1 DEF BuildRejects, CutShort, ExportInv, TypeOK
<1>5. /\ bundles \subseteq Jobs /\ export \in [Jobs -> ExportRow]
      /\ CleanersOK /\ NamedBundleExists
  BY DEF ExportInv, TypeOK, BundlesMatchRows
<1> QED
  BY <1>1, <1>2, <1>3, <1>4, <1>5, ExplainedByOthers, BuildMoves DEF CleanersOK, NamedBundleExists

\* A run that is over, or cut short, leaves its job to the queue.
LEMMA BuildEnds ==
  ASSUME ExportInv, UNCHANGED <<idemVars, objects, expired, cleaner>>,
         faults' \in 0..MaxFaults,
         NEW w \in Workers, builder' = [builder EXCEPT ![w] = IdleBuilder],
         stray' \subseteq Jobs, \A x \in stray : x \in stray',
         builder[w].step = "complete" => builder[w].job \in stray',
         job' \in [Jobs -> QueueJob],
         \A x \in Jobs : job'[x] # job[x] => row[x] # None
  PROVE  ExportInv'
<1>1. IdemInv' /\ IdemTypeOK' /\ UNCHANGED <<row, export, bundles>>
  BY KeysUntouched DEF objects
<1>2. IdleBuilder \in Builder /\ IdleBuilder.step = "idle" /\ IdleBuilder.job \notin Jobs
  BY ExportConstantsOK, IdempotentConstantsOK DEF IdleBuilder, Builder
<1>3. TypeOK'
  BY <1>1, <1>2 DEF ExportInv, TypeOK
<1>4. CleanRows'
  BY <1>1, <1>2 DEF ExportInv, TypeOK, CleanRows
<1>5. BuildersOK' /\ CleanersOK'
  BY <1>1, <1>2 DEF ExportInv, TypeOK, BuildersOK, CleanersOK
<1>6. NamedBundleExists'
  BY <1>1 DEF ExportInv, BundlesMatchRows, NamedBundleExists
<1>7. OrphansExplained'
  BY <1>1, <1>2 DEF ExportInv, TypeOK, BundlesMatchRows, OrphansExplained
<1> QED
  BY <1>1, <1>3, <1>4, <1>5, <1>6, <1>7 DEF ExportInv, BundlesMatchRows

\* What becomes of a queue job is a queue job.
LEMMA QueueJobs ==
  ASSUME NEW j \in QueueJob
  PROVE  /\ Ended(j, "done") \in QueueJob
         /\ Retried(j) \in QueueJob
         /\ Unlocked(j) \in QueueJob
<1>1. j.made \in 0..MaxTries - 1 /\ j.stalls \in 0..MaxStalls /\ 0 \in 0..MaxTries - 1
  BY ExportConstantsOK DEF QueueJob
<1>2. ASSUME NEW status \in {"done", "failed"}
      PROVE  Ended(j, status) \in QueueJob
  BY <1>1 DEF Ended, NoJob, QueueJob
<1>3. Retried(j) \in QueueJob
  <2>1. CASE j.made + 1 < MaxTries
    <3>1. j.made + 1 \in 0..MaxTries - 1
      BY <1>1, <2>1, ExportConstantsOK
    <3>2. [j EXCEPT !.status = "waiting", !.owner = None, !.made = j.made + 1] \in QueueJob
      BY <3>1 DEF QueueJob
    <3> QED
      BY <2>1, <3>2 DEF Retried
  <2> QED
    BY <1>2, <2>1 DEF Retried
<1>4. Unlocked(j) \in QueueJob
  <2>1. CASE j.stalls < MaxStalls
    <3>1. j.stalls + 1 \in 0..MaxStalls
      BY <1>1, <2>1, ExportConstantsOK
    <3>2. [j EXCEPT !.status = "waiting", !.owner = None, !.stalls = j.stalls + 1] \in QueueJob
      BY <3>1 DEF QueueJob
    <3> QED
      BY <2>1, <3>2 DEF Unlocked
  <2> QED
    BY <1>2, <2>1 DEF Unlocked
<1> QED
  BY <1>2, <1>3, <1>4

\* A run that ends is counted by the queue if it still owns the job.
LEMMA EndBuildOK ==
  ASSUME ExportInv, NEW w \in Workers, builder[w].step \notin {"idle", "complete"},
         NEW j \in QueueJob, EndBuild(w, j), UNCHANGED stray, faults' \in 0..MaxFaults
  PROVE  ExportInv'
<1>1. builder[w].job \in Jobs /\ row[builder[w].job] # None
  BY RunningJob
<1>2. job' = [job EXCEPT ![builder[w].job] = IF @.owner = w THEN j ELSE @]
  BY DEF EndBuild
<1>3. job' \in [Jobs -> QueueJob]
  BY <1>1, <1>2 DEF ExportInv, TypeOK
<1>4. \A x \in Jobs : job'[x] # job[x] => row[x] # None
  BY <1>1, <1>2 DEF ExportInv, TypeOK
<1>5. stray \subseteq Jobs
  BY DEF ExportInv, TypeOK
<1> QED
  BY <1>3, <1>4, <1>5, BuildEnds DEF EndBuild

\* The three ways a run ends.
LEMMA BuildReturnsOK ==
  ASSUME ExportInv, NEW w \in Workers, RethrowFailure(w) \/ ReturnResult(w) \/ BuildThrows(w)
  PROVE  ExportInv'
<1>1. builder[w].step \in {"throw", "return", "reopen", "catch"}
  BY DEF RethrowFailure, ReturnResult, BuildThrows
<1>2. job[builder[w].job] \in QueueJob
  BY <1>1, RunningJob DEF ExportInv, TypeOK
<1>3. faults' \in 0..MaxFaults /\ UNCHANGED stray
  BY ExportConstantsOK DEF RethrowFailure, ReturnResult, BuildThrows, ExportInv, TypeOK
<1>4. \E j \in QueueJob : EndBuild(w, j)
  BY <1>2, QueueJobs DEF RethrowFailure, ReturnResult, BuildThrows
<1> QED
  BY <1>1, <1>3, <1>4, EndBuildOK

\* The bundle a crashed run had stored is one that was left by a run cut short.
LEMMA CrashOK ==
  ASSUME ExportInv, NEW w \in Workers, Crash(w)
  PROVE  ExportInv'
<1>1. /\ job' = [x \in Jobs |-> IF job[x].owner = w THEN Unlocked(job[x]) ELSE job[x]]
      /\ builder' = [builder EXCEPT ![w] = IdleBuilder]
      /\ UNCHANGED <<idemVars, objects, expired, cleaner>>
  BY DEF Crash
<1>2. job' \in [Jobs -> QueueJob]
  BY <1>1, QueueJobs DEF ExportInv, TypeOK
<1>3. \A x \in Jobs : job'[x] # job[x] => row[x] # None
  <2> SUFFICES ASSUME NEW x \in Jobs, job[x].owner = w
               PROVE  row[x] # None
    BY <1>1
  <2>1. w # None /\ NoJob.owner = None
    BY ExportConstantsOK DEF NoJob
  <2> QED
    BY <2>1 DEF ExportInv, CleanRows
<1>4. faults' \in 0..MaxFaults
  BY ExportConstantsOK DEF Crash, ExportInv, TypeOK
<1>5. /\ stray' \subseteq Jobs /\ \A x \in stray : x \in stray'
      /\ builder[w].step = "complete" => builder[w].job \in stray'
  BY RunningJob DEF Crash, CutShort, ExportInv, TypeOK
<1> QED
  BY <1>1, <1>2, <1>3, <1>4, <1>5, BuildEnds

\* A lost lock leaves the run that goes on.
LEMMA LoseLockOK ==
  ASSUME ExportInv, NEW x \in Jobs, LoseLock(x)
  PROVE  ExportInv'
<1>1. IdemInv' /\ IdemTypeOK' /\ UNCHANGED <<row, export, bundles, expired, builder, cleaner, stray>>
  BY KeysUntouched DEF LoseLock, objects
<1>2. job[x] \in QueueJob /\ job[x] # NoJob
  BY DEF LoseLock, NoJob, ExportInv, TypeOK
<1>3. row[x] # None
  BY <1>2 DEF ExportInv, CleanRows
<1>4. job' = [job EXCEPT ![x] = Unlocked(job[x])] /\ faults' \in 0..MaxFaults
  BY ExportConstantsOK DEF LoseLock, ExportInv, TypeOK
<1>5. TypeOK'
  BY <1>1, <1>2, <1>4, QueueJobs DEF ExportInv, TypeOK
<1>6. CleanRows'
  BY <1>1, <1>3, <1>4 DEF ExportInv, TypeOK, CleanRows
<1>7. BuildersOK' /\ CleanersOK' /\ BundlesMatchRows'
  BY <1>1 DEF ExportInv, BuildersOK, CleanersOK, BundlesMatchRows, NamedBundleExists,
              OrphansExplained
<1> QED
  BY <1>1, <1>5, <1>6, <1>7 DEF ExportInv

\* What a cleanup remembers has its type.
LEMMA CleanerTypes ==
  ASSUME ExportInv, NEW c \in Cleaners, NEW todo \in SUBSET expired,
         NEW x \in Jobs \cup {None}
  PROVE  [cleaner EXCEPT ![c] = [todo |-> todo, deleted |-> x]] \in [Cleaners -> Cleaner]
<1>1. [todo |-> todo, deleted |-> x] \in Cleaner
  BY DEF ExportInv, TypeOK, Cleaner
<1> QED
  BY <1>1 DEF ExportInv, TypeOK

\* A cleanup lists expired exports, deletes their bundles and updates their rows.
LEMMA CleanerStepOK ==
  ASSUME ExportInv, NEW c \in Cleaners, CleanerStep(c) \/ CleanupDies(c)
  PROVE  ExportInv'
<1>1. /\ cleaner \in [Cleaners -> Cleaner] /\ cleaner[c] \in Cleaner
      /\ cleaner[c].todo \subseteq expired /\ expired \subseteq Jobs
  BY DEF ExportInv, TypeOK, CleanersOK
<1>2. None \notin bundles /\ None \notin Jobs
  BY ExportConstantsOK, IdempotentConstantsOK DEF ExportInv, TypeOK
<1>3. CASE BeginCleanup(c)
  <2>1. cleaner' = [cleaner EXCEPT ![c] = [todo |-> Candidates, deleted |-> None]]
    <3>1. cleaner[c] = [todo |-> {}, deleted |-> None]
      BY <1>3 DEF BeginCleanup, IdleCleaner
    <3>2. [cleaner[c] EXCEPT !.todo = Candidates] = [todo |-> Candidates, deleted |-> None]
      BY <3>1
    <3>3. cleaner' = [cleaner EXCEPT ![c] = [cleaner[c] EXCEPT !.todo = Candidates]]
      BY <1>1, <1>3 DEF BeginCleanup
    <3> QED
      BY <3>2, <3>3
  <2>2. IdemInv' /\ IdemTypeOK'
        /\ UNCHANGED <<row, export, bundles, expired, job, builder, stray, faults>>
    BY <1>3, KeysUntouched DEF BeginCleanup, objects
  <2>3. Candidates \subseteq expired
    BY DEF Candidates
  <2>4. TypeOK'
    BY <2>1, <2>2, <2>3, CleanerTypes DEF ExportInv, TypeOK
  <2>5. CleanersOK'
    BY <1>1, <1>2, <2>1, <2>2, <2>3 DEF ExportInv, CleanersOK
  <2> QED
    BY <2>2, <2>4, <2>5 DEF ExportInv, CleanRows, BuildersOK, BundlesMatchRows,
                            NamedBundleExists, OrphansExplained
<1>4. ASSUME NEW x \in Jobs, DeleteBundle(c, x)
      PROVE  ExportInv'
  <2>1. cleaner' = [cleaner EXCEPT ![c] = [todo |-> cleaner[c].todo, deleted |-> x]]
    <3>1. [cleaner[c] EXCEPT !.deleted = x] = [todo |-> cleaner[c].todo, deleted |-> x]
      BY <1>1 DEF Cleaner
    <3>2. cleaner' = [cleaner EXCEPT ![c] = [cleaner[c] EXCEPT !.deleted = x]]
      BY <1>1, <1>4 DEF DeleteBundle
    <3> QED
      BY <3>1, <3>2
  <2>2. IdemInv' /\ IdemTypeOK' /\ UNCHANGED <<row, export, expired, job, builder, faults>>
        /\ bundles' = bundles \ {x} /\ stray' = stray \ {x}
    BY <1>4, KeysUntouched DEF DeleteBundle
  <2>3. x \in expired
    BY <1>1, <1>4 DEF DeleteBundle
  <2>4. TypeOK'
    BY <1>1, <2>1, <2>2, <2>3, CleanerTypes DEF ExportInv, TypeOK
  <2>5. CleanersOK'
    BY <1>1, <2>1, <2>2 DEF ExportInv, CleanersOK
  <2>6. CleanRows' /\ BuildersOK'
    BY <2>2, <2>3 DEF ExportInv, CleanRows, BuildersOK
  <2>7. BundlesMatchRows'
    BY <2>2, <2>3 DEF ExportInv, BundlesMatchRows, NamedBundleExists, OrphansExplained
  <2> QED
    BY <2>2, <2>4, <2>5, <2>6, <2>7 DEF ExportInv
<1>5. CASE ExpireRow(c)
  <2> DEFINE x == cleaner[c].deleted
             gone == [status |-> "expired", named |-> FALSE]
  <2>1. x \in Jobs
    BY <1>1, <1>5 DEF ExpireRow, Cleaner
  <2>2. cleaner' = [cleaner EXCEPT ![c] = [todo |-> cleaner[c].todo \ {x}, deleted |-> None]]
    BY <1>5 DEF ExpireRow, ExportInv, TypeOK
  <2>3. IdemInv' /\ IdemTypeOK' /\ UNCHANGED <<row, bundles, expired, job, builder, stray, faults>>
    BY <1>5, KeysUntouched DEF ExpireRow
  <2>4. gone \in ExportRow /\ ~gone.named
    BY DEF ExportRow
  <2>5. /\ export' \in [Jobs -> ExportRow]
        /\ \A y \in Jobs : y # x => export'[y] = export[y]
        /\ ~export'[x].named
    BY <1>5, <2>1, <2>4 DEF ExpireRow, ExportInv, TypeOK
  <2>6. TypeOK'
    BY <1>1, <2>2, <2>3, <2>5, CleanerTypes DEF ExportInv, TypeOK
  <2>7. CleanersOK'
    BY <1>1, <1>2, <2>2, <2>3 DEF ExportInv, CleanersOK
  <2>8. CleanRows' /\ BuildersOK'
    BY <2>3 DEF ExportInv, CleanRows, BuildersOK
  <2>9. x \in bundles => x \in stray
    BY DEF ExportInv, CleanersOK
  <2>10. BundlesMatchRows'
    BY <2>1, <2>3, <2>5, <2>9 DEF ExportInv, TypeOK, BundlesMatchRows, NamedBundleExists,
                                  OrphansExplained
  <2> QED
    BY <2>3, <2>6, <2>7, <2>8, <2>10 DEF ExportInv
<1>6. CASE CleanupDies(c)
  <2>1. cleaner' = [cleaner EXCEPT ![c] = [todo |-> {}, deleted |-> None]]
    BY <1>6 DEF CleanupDies, IdleCleaner
  <2>2. UNCHANGED <<row, replay, request, answers, export, bundles, expired, job, builder, stray, faults>>
    BY <1>6 DEF CleanupDies, objects
  <2>3. deaths' \in 0..MaxDeaths
    BY <1>6, IdempotentConstantsOK DEF CleanupDies, ExportInv, IdemInv, IdemTypeOK
  <2>4. IdemInv' /\ IdemTypeOK'
    BY <2>2, <2>3 DEF ExportInv, IdemInv, IdemTypeOK, AnswersStored, RequestsOK
  <2>5. TypeOK'
    BY <2>1, <2>2, <2>4, CleanerTypes DEF ExportInv, TypeOK
  <2>6. CleanersOK'
    BY <1>1, <1>2, <2>1, <2>2 DEF ExportInv, CleanersOK
  <2> QED
    BY <2>2, <2>4, <2>5, <2>6 DEF ExportInv, CleanRows, BuildersOK, BundlesMatchRows,
                                  NamedBundleExists, OrphansExplained
<1> QED
  BY <1>3, <1>4, <1>5, <1>6 DEF CleanerStep

\* Every step of the exports keeps the invariant.
LEMMA ExportStepOK == ExportInv /\ [Next]_vars => ExportInv'
<1> SUFFICES ASSUME ExportInv, [Next]_vars PROVE ExportInv'
  OBVIOUS
<1>1. CASE UNCHANGED vars
  <2>1. IdemInv' /\ UNCHANGED <<row, exportVars>>
    BY <1>1, KeysUntouched DEF vars
  <2> QED
    BY <2>1, KeyStepsOK
<1>2. ASSUME NEW r \in Requests, KeyStep(r), UNCHANGED exportVars
      PROVE  ExportInv'
  BY <1>2, KeyStepOK
<1>3. ASSUME NEW r \in Requests, ExportStep(r)
      PROVE  ExportInv'
  BY <1>3, BeginDashboardExportOK, CreateExportOK, EnqueueExportOK DEF ExportStep
<1>4. ASSUME NEW x \in Jobs, Expire(x)
      PROVE  ExportInv'
  BY <1>4, ExpireOK
<1>5. ASSUME NEW w \in Workers, BuilderStep(w)
      PROVE  ExportInv'
  BY <1>5, BeginBuildOK, SetProcessingOK, PutBundleOK, CompleteExportOK, RecordFailureOK,
     BuildReturnsOK DEF BuilderStep
<1>6. ASSUME NEW c \in Cleaners, CleanerStep(c)
      PROVE  ExportInv'
  BY <1>6, CleanerStepOK
<1>7. CASE Fault
  BY <1>7, BuildRejectsOK, BuildReturnsOK, CrashOK, LoseLockOK, CleanerStepOK DEF Fault
<1> QED
  BY <1>1, <1>2, <1>3, <1>4, <1>5, <1>6, <1>7 DEF Next

-----------------------------------------------------------------------------
\* Rows, keys, jobs, runs and cleanups stay what their types say.
THEOREM ExportsAreTyped == Spec => []TypeOK
<1>1. ExportInv => TypeOK
  BY DEF ExportInv
<1> QED
  BY <1>1, ExportInitOK, ExportStepOK, PTL DEF Spec

\* A named bundle that has not expired is in the store, and every other bundle is
\* about to be named or was left behind by a cut-short run.
THEOREM BundlesAreExplained == Spec => []BundlesMatchRows
<1>1. ExportInv => BundlesMatchRows
  BY DEF ExportInv
<1> QED
  BY <1>1, ExportInitOK, ExportStepOK, PTL DEF Spec

\* The clients of a key are told of one export, though dashboard exports, builds and
\* cleanups go on beside them.
THEOREM ExportKeyHasOneAnswer == Spec => []OneAnswerPerKey
<1>1. ExportInv => OneAnswerPerKey
  BY StoredIsOneAnswer DEF ExportInv
<1> QED
  BY <1>1, ExportInitOK, ExportStepOK, PTL DEF Spec

=============================================================================
