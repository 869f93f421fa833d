---------------------------- MODULE Attestation ----------------------------
(***************************************************************************)
(* One attestation of Proveria: its row and its submission attempts in     *)
(* Postgres, the artifacts of each attempt in the object store, the API    *)
(* handlers that change them, the two BullMQ queues behind them and the    *)
(* worker processes that validate attempts and issue the receipt.          *)
(*                                                                         *)
(* Every await of a handler is a point where others run: a handler is a    *)
(* read that applies its guard, then one step per write.  No handler       *)
(* repeats its guard in the UPDATE it issues, except the confirmation,     *)
(* whose WHERE clause asks for confirmed_at IS NULL.                       *)
(***************************************************************************)
EXTENDS Naturals, FiniteSets

CONSTANTS
  Attempts,        \* ids submission_attempts rows may get
  Manifests,       \* contents a manifest.json may have
  ValidManifests,  \* those that pass every check that is a function of the manifest
  Packages,        \* receipt package ids (newPackageId)
  Requests,        \* API handlers that may run at the same time
  Processes,       \* worker processes; each runs one Worker per queue
  Jobs,            \* slots for unfinished jobs in Redis
  None,            \* SQL NULL, a missing object
  MaxTries,        \* BullMQ "attempts" of a job
  MaxStalls,       \* BullMQ maxStalledCount
  MaxDeaths,       \* bound: API handlers that may die half-way
  MaxFaults        \* bound: worker faults (throw, crash, lost lock, failed check)

ASSUME ConstantsOK ==
  /\ ValidManifests \subseteq Manifests
  /\ None \notin Attempts \cup Manifests \cup Packages \cup Processes \cup Jobs
  /\ None \notin {"validated", "failed"}
  /\ MaxTries \in Nat \ {0}
  /\ {MaxStalls, MaxDeaths, MaxFaults} \subseteq Nat

VARIABLES
  att,         \* the attestations row
  attempt,     \* submission_attempts.state of each attempt
  manifestObj, \* <attempt prefix>/manifest.json
  leavesObj,   \* <attempt prefix>/leaves.jsonl
  resultObj,   \* <attempt prefix>/validation-result.json
  receiptObj,  \* <attempt prefix>/receipt.json
  links,       \* verification_links rows of the receipt, by package issued with
  announced,   \* audit and webhook events written
  req,         \* the handler each request runs
  jobs,        \* the attestation-validation and receipt-generation queues
  vtask,       \* validateAttempt in each process
  rtask,       \* generateReceipt in each process
  drawn,       \* package ids drawn so far
  deaths,      \* API handlers that died
  faults       \* worker faults that happened

rowVars    == <<att, attempt>>
objectVars == <<manifestObj, leavesObj, resultObj, receiptObj>>
eventVars  == <<links, announced>>
budgetVars == <<drawn, deaths, faults>>
vars == <<rowVars, objectVars, eventVars, req, jobs, vtask, rtask, budgetVars>>

-----------------------------------------------------------------------------
(* Rows, objects, handlers, jobs and tasks *)

AttestationStates ==
  {"absent", "pending", "uploaded", "validating", "confirmed",
   "failed_needs_review", "canceled"}
AttemptStates ==
  {"absent", "pending", "uploaded", "validated", "failed", "canceled"}

Row ==
  [state     : AttestationStates,
   channel   : {"device", "api"},          \* created_by_device_id set or NULL
   renamed   : BOOLEAN,                    \* label carries the __canceled- suffix
   confirmed : Attempts \cup {None},       \* confirmed_attempt_id, confirmed_at,
                                           \* manifest and leaves object keys
   root      : Manifests \cup {None},      \* merkle_root
   package   : Packages \cup {None},       \* package_id
   receipt   : Attempts \cup {None},       \* receipt_json_object_key
   pdf       : BOOLEAN]                    \* receipt_pdf_object_key set

Receipt == [package : Packages \cup {None}, root : Manifests \cup {None}]
NoReceipt == [package |-> None, root |-> None]

Events ==
  {"attestation.confirmed", "attestation.failed", "receipt.issued"}
    \X (Attempts \cup {None})

RequestSteps ==
  {"idle", "put", "markAttempt", "markAttestation", "mark", "enqueue",
   "cancel", "insert", "reopen"}
Handler ==
  [op       : {"none", "upload", "api", "finalize", "cancel", "repair"},
   step     : RequestSteps,
   attempt  : Attempts \cup {None},
   manifest : Manifests \cup {None}]
NoHandler == [op |-> "none", step |-> "idle", attempt |-> None, manifest |-> None]

Job ==
  [kind    : {"none", "validate", "receipt"},
   attempt : Attempts \cup {None},
   status  : {"free", "waiting", "active", "failed"},
   owner   : Processes \cup {None},        \* holder of the job lock
   made    : Nat,                          \* attemptsMade
   stalls  : Nat]                          \* stalledCounter
FreeJob == [kind |-> "none", attempt |-> None, status |-> "free", owner |-> None,
            made |-> 0, stalls |-> 0]

ValidationSteps ==
  {"idle", "fetch", "leaves", "result", "commit", "announce", "enqueue",
   "recordFailure", "commitFailure", "announceFailure", "return"}
ReceiptSteps ==
  {"idle", "fetch", "put", "commit", "announce", "pdf", "return"}
Task(steps) ==
  [step     : steps,
   job      : Jobs \cup {None},
   attempt  : Attempts \cup {None},
   manifest : Manifests \cup {None},
   package  : Packages \cup {None}]
NoTask == [step |-> "idle", job |-> None, attempt |-> None, manifest |-> None,
           package |-> None]

TypeOK ==
  /\ att \in Row
  /\ attempt \in [Attempts -> AttemptStates]
  /\ manifestObj \in [Attempts -> Manifests \cup {None}]
  /\ leavesObj \in [Attempts -> Manifests \cup {None}]
  /\ resultObj \in [Attempts -> {"validated", "failed", None}]
  /\ receiptObj \in [Attempts -> Receipt]
  /\ links \subseteq Packages
  /\ announced \subseteq Events
  /\ req \in [Requests -> Handler]
  /\ jobs \in [Jobs -> Job]
  /\ vtask \in [Processes -> Task(ValidationSteps)]
  /\ rtask \in [Processes -> Task(ReceiptSteps)]
  /\ drawn \subseteq Packages
  /\ deaths \in 0..MaxDeaths
  /\ faults \in 0..MaxFaults

Init ==
  /\ att = [state |-> "absent", channel |-> "device", renamed |-> FALSE,
            confirmed |-> None, root |-> None, package |-> None,
            receipt |-> None, pdf |-> FALSE]
  /\ attempt = [a \in Attempts |-> "absent"]
  /\ manifestObj = [a \in Attempts |-> None]
  /\ leavesObj = [a \in Attempts |-> None]
  /\ resultObj = [a \in Attempts |-> None]
  /\ receiptObj = [a \in Attempts |-> NoReceipt]
  /\ links = {}
  /\ announced = {}
  /\ req = [r \in Requests |-> NoHandler]
  /\ jobs = [j \in Jobs |-> FreeJob]
  /\ vtask = [w \in Processes |-> NoTask]
  /\ rtask = [w \in Processes |-> NoTask]
  /\ drawn = {}
  /\ deaths = 0
  /\ faults = 0

-----------------------------------------------------------------------------
(* The queues.  BullMQ delivers at least once: a job returns to the wait    *)
(* list when its handler throws and when its lock is lost.                  *)

\* queue.add
Enqueue(kind, a) ==
  \E j \in Jobs :
    /\ jobs[j].status = "free"
    /\ jobs' = [jobs EXCEPT ![j] = [FreeJob EXCEPT !.kind = kind, !.attempt = a,
                                                   !.status = "waiting"]]

Taken(j, w) == [jobs EXCEPT ![j] = [@ EXCEPT !.status = "active", !.owner = w]]

\* the handler returned: the job is removed, unless its lock was lost
Completed(j, w) ==
  IF jobs[j].owner = w THEN [jobs EXCEPT ![j] = FreeJob] ELSE jobs

\* the handler threw: retried until "attempts" is used up
Retried(j, w) ==
  IF jobs[j].owner = w
    THEN [jobs EXCEPT ![j] =
            [@ EXCEPT !.owner = None,
                      !.made = jobs[j].made + 1,
                      !.status = IF jobs[j].made + 1 < MaxTries
                                   THEN "waiting" ELSE "failed"]]
    ELSE jobs

\* the lock of the job expired: the stalled check puts it back, or gives up
Unlocked(job) ==
  [job EXCEPT !.owner = None,
              !.stalls = job.stalls + 1,
              !.status = IF job.stalls < MaxStalls THEN "waiting" ELSE "failed"]

-----------------------------------------------------------------------------
(* The API: creation.  The row and its first attempt are one transaction.   *)

FirstAttempt(a, channel) ==
  /\ att.state = "absent"
  /\ att' = [att EXCEPT !.state = "pending", !.channel = channel]
  /\ attempt' = [attempt EXCEPT ![a] = "pending"]

\* POST /tenants/:slug/projects/:projectSlug/attestations, from a device
CreateAttestation(a) ==
  /\ FirstAttempt(a, "device")
  /\ UNCHANGED <<objectVars, eventVars, req, jobs, vtask, rtask, budgetVars>>

\* POST /v1/tenants/:slug/projects/:projectSlug/attestations, with an API key:
\* one request goes on to store the manifest the server built, to mark both
\* rows in one transaction and to enqueue the validation
SubmitByApi(r, a, m) ==
  /\ req[r] = NoHandler
  /\ m \in ValidManifests
  /\ FirstAttempt(a, "api")
  /\ req' = [req EXCEPT ![r] = [op |-> "api", step |-> "put", attempt |-> a,
                                manifest |-> m]]
  /\ UNCHANGED <<objectVars, eventVars, jobs, vtask, rtask, budgetVars>>

-----------------------------------------------------------------------------
(* The API: the device-signed handlers.  An attestation of the API channel  *)
(* has no device, so each of them answers 403 wrong_device.                 *)

Begin(r, op, step, a, m) ==
  /\ req[r] = NoHandler
  /\ att.channel = "device"
  /\ req' = [req EXCEPT ![r] = [op |-> op, step |-> step, attempt |-> a,
                                manifest |-> m]]
  /\ UNCHANGED <<rowVars, objectVars, eventVars, jobs, vtask, rtask, budgetVars>>

\* upload-manifest: the attempt must be pending; the attestation is not looked at
BeginUpload(r, a, m) ==
  /\ attempt[a] = "pending"
  /\ Begin(r, "upload", "put", a, m)

\* finalize: the attempt must be uploaded
BeginFinalize(r, a) ==
  /\ attempt[a] = "uploaded"
  /\ Begin(r, "finalize", "mark", a, None)

\* mutant: the guard on the state is gone
BeginCancelInAnyState(r) == Begin(r, "cancel", "cancel", None, None)

\* cancel: the attestation must be pending or uploaded
BeginCancel(r) ==
  /\ att.state \in {"pending", "uploaded"}
  /\ Begin(r, "cancel", "cancel", None, None)

\* mutant: the guard on the state is gone
BeginRepairInAnyState(r) == Begin(r, "repair", "insert", None, None)

\* repair: the attestation must be failed_needs_review
BeginRepair(r) ==
  /\ att.state = "failed_needs_review"
  /\ Begin(r, "repair", "insert", None, None)

Goto(r, step) == req' = [req EXCEPT ![r].step = step]
Reply(r)      == req' = [req EXCEPT ![r] = NoHandler]

PutManifest(r) ==
  /\ req[r].step = "put"
  /\ manifestObj' = [manifestObj EXCEPT ![req[r].attempt] = req[r].manifest]
  /\ Goto(r, "markAttempt")
  /\ UNCHANGED <<rowVars, leavesObj, resultObj, receiptObj, eventVars, jobs,
                 vtask, rtask, budgetVars>>

MarkAttemptUploaded(r) ==
  /\ req[r].step = "markAttempt"
  /\ req[r].op = "upload"
  /\ attempt' = [attempt EXCEPT ![req[r].attempt] = "uploaded"]
  /\ Goto(r, "markAttestation")
  /\ UNCHANGED <<att, objectVars, eventVars, jobs, vtask, rtask, budgetVars>>

MarkAttestationUploaded(r) ==
  /\ req[r].step = "markAttestation"
  /\ att' = [att EXCEPT !.state = "uploaded"]
  /\ Reply(r)
  /\ UNCHANGED <<attempt, objectVars, eventVars, jobs, vtask, rtask, budgetVars>>

MarkApiSubmission(r) ==
  /\ req[r].step = "markAttempt"
  /\ req[r].op = "api"
  /\ attempt' = [attempt EXCEPT ![req[r].attempt] = "uploaded"]
  /\ att' = [att EXCEPT !.state = "validating"]
  /\ Goto(r, "enqueue")
  /\ UNCHANGED <<objectVars, eventVars, jobs, vtask, rtask, budgetVars>>

MarkValidating(r) ==
  /\ req[r].step = "mark"
  /\ att' = [att EXCEPT !.state = "validating"]
  /\ Goto(r, "enqueue")
  /\ UNCHANGED <<attempt, objectVars, eventVars, jobs, vtask, rtask, budgetVars>>

EnqueueValidation(r) ==
  /\ req[r].step = "enqueue"
  /\ Enqueue("validate", req[r].attempt)
  /\ Reply(r)
  /\ UNCHANGED <<rowVars, objectVars, eventVars, vtask, rtask, budgetVars>>

\* one transaction; only the attempts still pending or uploaded follow
CancelAttestation(r) ==
  /\ req[r].step = "cancel"
  /\ att' = [att EXCEPT !.state = "canceled", !.renamed = TRUE]
  /\ attempt' = [a \in Attempts |->
                   IF attempt[a] \in {"pending", "uploaded"} THEN "canceled"
                                                             ELSE attempt[a]]
  /\ Reply(r)
  /\ UNCHANGED <<objectVars, eventVars, jobs, vtask, rtask, budgetVars>>

InsertRepairAttempt(r, a) ==
  /\ req[r].step = "insert"
  /\ attempt[a] = "absent"
  /\ attempt' = [attempt EXCEPT ![a] = "pending"]
  /\ Goto(r, "reopen")
  /\ UNCHANGED <<att, objectVars, eventVars, jobs, vtask, rtask, budgetVars>>

ReopenAttestation(r) ==
  /\ req[r].step = "reopen"
  /\ att' = [att EXCEPT !.state = "pending"]
  /\ Reply(r)
  /\ UNCHANGED <<attempt, objectVars, eventVars, jobs, vtask, rtask, budgetVars>>

\* the API process stops, or the database, the store or Redis refuses the next
\* call: what the handler wrote so far stays
RequestDies(r) ==
  /\ req[r] # NoHandler
  /\ deaths < MaxDeaths
  /\ deaths' = deaths + 1
  /\ Reply(r)
  /\ UNCHANGED <<rowVars, objectVars, eventVars, jobs, vtask, rtask, drawn, faults>>

-----------------------------------------------------------------------------
(* The worker: attestation-validation (validateAttempt)                     *)

NextValidation(w, step) == vtask' = [vtask EXCEPT ![w].step = step]

\* mutant: a retry does not look at the attempt's state
BeginValidationInAnyState(w, j) ==
  /\ vtask[w] = NoTask
  /\ jobs[j].status = "waiting" /\ jobs[j].kind = "validate"
  /\ jobs' = Taken(j, w)
  /\ vtask' = [vtask EXCEPT ![w] = [NoTask EXCEPT !.step = "fetch", !.job = j,
                                                  !.attempt = jobs[j].attempt]]
  /\ UNCHANGED <<rowVars, objectVars, eventVars, req, rtask, budgetVars>>

BeginValidation(w, j) ==
  /\ vtask[w] = NoTask
  /\ jobs[j].status = "waiting" /\ jobs[j].kind = "validate"
  /\ attempt[jobs[j].attempt] = "uploaded"
  /\ jobs' = Taken(j, w)
  /\ vtask' = [vtask EXCEPT ![w] = [NoTask EXCEPT !.step = "fetch", !.job = j,
                                                  !.attempt = jobs[j].attempt]]
  /\ UNCHANGED <<rowVars, objectVars, eventVars, req, rtask, budgetVars>>

\* attempt_not_in_uploaded_state: { ok: false } completes the job
RefuseValidation(w, j) ==
  /\ vtask[w] = NoTask
  /\ jobs[j].status = "waiting" /\ jobs[j].kind = "validate"
  /\ attempt[jobs[j].attempt] # "uploaded"
  /\ jobs' = [jobs EXCEPT ![j] = FreeJob]
  /\ UNCHANGED <<rowVars, objectVars, eventVars, req, vtask, rtask, budgetVars>>

\* mutant: the leaves are not stored
AcceptManifestWithoutLeaves(w) ==
  /\ vtask[w].step = "fetch"
  /\ manifestObj[vtask[w].attempt] \in ValidManifests
  /\ vtask' = [vtask EXCEPT ![w] =
                 [@ EXCEPT !.step = "result",
                           !.manifest = manifestObj[vtask[w].attempt]]]
  /\ UNCHANGED <<rowVars, objectVars, eventVars, req, jobs, rtask, budgetVars>>

\* every check passes on the manifest that was fetched
AcceptManifest(w) ==
  /\ vtask[w].step = "fetch"
  /\ manifestObj[vtask[w].attempt] \in ValidManifests
  /\ vtask' = [vtask EXCEPT ![w] =
                 [@ EXCEPT !.step = "leaves",
                           !.manifest = manifestObj[vtask[w].attempt]]]
  /\ UNCHANGED <<rowVars, objectVars, eventVars, req, jobs, rtask, budgetVars>>

RejectManifest(w) ==
  /\ vtask[w].step = "fetch"
  /\ manifestObj[vtask[w].attempt] \notin ValidManifests
  /\ NextValidation(w, "recordFailure")
  /\ UNCHANGED <<rowVars, objectVars, eventVars, req, jobs, rtask, budgetVars>>

\* a check fails whatever the manifest: fetch error, device revoked meanwhile,
\* tenant moved to the free plan
EnvironmentRejects(w) ==
  /\ vtask[w].step = "fetch"
  /\ faults < MaxFaults
  /\ faults' = faults + 1
  /\ NextValidation(w, "recordFailure")
  /\ UNCHANGED <<rowVars, objectVars, eventVars, req, jobs, rtask, drawn, deaths>>

PutLeaves(w) ==
  /\ vtask[w].step = "leaves"
  /\ leavesObj' = [leavesObj EXCEPT ![vtask[w].attempt] = vtask[w].manifest]
  /\ NextValidation(w, "result")
  /\ UNCHANGED <<rowVars, manifestObj, resultObj, receiptObj, eventVars, req,
                 jobs, rtask, budgetVars>>

PutResult(w) ==
  /\ vtask[w].step = "result"
  /\ resultObj' = [resultObj EXCEPT ![vtask[w].attempt] = "validated"]
  /\ NextValidation(w, "commit")
  /\ UNCHANGED <<rowVars, manifestObj, leavesObj, receiptObj, eventVars, req,
                 jobs, rtask, budgetVars>>

\* mutant: the root of the manifest stored now, not of the one checked
CommitValidatedRefetched(w) ==
  /\ vtask[w].step = "commit"
  /\ attempt' = [attempt EXCEPT ![vtask[w].attempt] = "validated"]
  /\ att' = IF att.confirmed = None
              THEN [att EXCEPT !.state = "confirmed",
                               !.confirmed = vtask[w].attempt,
                               !.root = manifestObj[vtask[w].attempt]]
              ELSE att
  /\ NextValidation(w, "announce")
  /\ UNCHANGED <<objectVars, eventVars, req, jobs, rtask, budgetVars>>

\* one transaction: the attempt unconditionally, the attestation only while
\* confirmed_at IS NULL
CommitValidated(w) ==
  /\ vtask[w].step = "commit"
  /\ attempt' = [attempt EXCEPT ![vtask[w].attempt] = "validated"]
  /\ att' = IF att.confirmed = None
              THEN [att EXCEPT !.state = "confirmed",
                               !.confirmed = vtask[w].attempt,
                               !.root = vtask[w].manifest]
              ELSE att
  /\ NextValidation(w, "announce")
  /\ UNCHANGED <<objectVars, eventVars, req, jobs, rtask, budgetVars>>

\* mutant: the receipt is not asked for
AnnounceConfirmedOnly(w) ==
  /\ vtask[w].step = "announce"
  /\ announced' = announced \cup {<<"attestation.confirmed", vtask[w].attempt>>}
  /\ NextValidation(w, "return")
  /\ UNCHANGED <<rowVars, objectVars, links, req, jobs, rtask, budgetVars>>

AnnounceConfirmed(w) ==
  /\ vtask[w].step = "announce"
  /\ announced' = announced \cup {<<"attestation.confirmed", vtask[w].attempt>>}
  /\ NextValidation(w, "enqueue")
  /\ UNCHANGED <<rowVars, objectVars, links, req, jobs, rtask, budgetVars>>

EnqueueReceipt(w) ==
  /\ vtask[w].step = "enqueue"
  /\ Enqueue("receipt", vtask[w].attempt)
  /\ NextValidation(w, "return")
  /\ UNCHANGED <<rowVars, objectVars, eventVars, req, rtask, budgetVars>>

\* fail(): the result document is written at best effort
RecordFailure(w) ==
  /\ vtask[w].step = "recordFailure"
  /\ \/ resultObj' = [resultObj EXCEPT ![vtask[w].attempt] = "failed"]
     \/ UNCHANGED resultObj
  /\ NextValidation(w, "commitFailure")
  /\ UNCHANGED <<rowVars, manifestObj, leavesObj, receiptObj, eventVars, req,
                 jobs, rtask, budgetVars>>

\* mutant: the attempt is left as it was
CommitFailedRowOnly(w) ==
  /\ vtask[w].step = "commitFailure"
  /\ att' = [att EXCEPT !.state = "failed_needs_review"]
  /\ NextValidation(w, "announceFailure")
  /\ UNCHANGED <<attempt, objectVars, eventVars, req, jobs, rtask, budgetVars>>

\* mutant: the columns of an earlier confirmation are cleared
CommitFailedClearing(w) ==
  /\ vtask[w].step = "commitFailure"
  /\ attempt' = [attempt EXCEPT ![vtask[w].attempt] = "failed"]
  /\ att' = [att EXCEPT !.state = "failed_needs_review", !.confirmed = None,
                        !.root = None]
  /\ NextValidation(w, "announceFailure")
  /\ UNCHANGED <<objectVars, eventVars, req, jobs, rtask, budgetVars>>

\* fail(): one transaction, neither update is conditional
CommitFailed(w) ==
  /\ vtask[w].step = "commitFailure"
  /\ attempt' = [attempt EXCEPT ![vtask[w].attempt] = "failed"]
  /\ att' = [att EXCEPT !.state = "failed_needs_review"]
  /\ NextValidation(w, "announceFailure")
  /\ UNCHANGED <<objectVars, eventVars, req, jobs, rtask, budgetVars>>

AnnounceFailed(w) ==
  /\ vtask[w].step = "announceFailure"
  /\ announced' = announced \cup {<<"attestation.failed", vtask[w].attempt>>}
  /\ NextValidation(w, "return")
  /\ UNCHANGED <<rowVars, objectVars, links, req, jobs, rtask, budgetVars>>

CompleteValidation(w) ==
  /\ vtask[w].step = "return"
  /\ jobs' = Completed(vtask[w].job, w)
  /\ vtask' = [vtask EXCEPT ![w] = NoTask]
  /\ UNCHANGED <<rowVars, objectVars, eventVars, req, rtask, budgetVars>>

\* an await of the handler rejects
ThrowValidation(w) ==
  /\ vtask[w].step \in {"fetch", "leaves", "result", "commit", "announce", "enqueue",
                        "commitFailure", "announceFailure"}
  /\ faults < MaxFaults
  /\ faults' = faults + 1
  /\ jobs' = Retried(vtask[w].job, w)
  /\ vtask' = [vtask EXCEPT ![w] = NoTask]
  /\ UNCHANGED <<rowVars, objectVars, eventVars, req, rtask, drawn, deaths>>

-----------------------------------------------------------------------------
(* The worker: receipt-generation (generateReceipt)                         *)

NextReceipt(w, step) == rtask' = [rtask EXCEPT ![w].step = step]

\* mutants: whichever attempt is confirmed; whether or not it was issued
CanIssueToAny(a) == att.state = "confirmed" /\ att.package = None
CanIssueAgain(a) == att.state = "confirmed" /\ att.confirmed = a

CanIssue(a) == att.state = "confirmed" /\ att.confirmed = a /\ att.package = None

BeginReceipt(w, j) ==
  /\ rtask[w] = NoTask
  /\ jobs[j].status = "waiting" /\ jobs[j].kind = "receipt"
  /\ CanIssue(jobs[j].attempt)
  /\ jobs' = Taken(j, w)
  /\ rtask' = [rtask EXCEPT ![w] = [NoTask EXCEPT !.step = "fetch", !.job = j,
                                                  !.attempt = jobs[j].attempt]]
  /\ UNCHANGED <<rowVars, objectVars, eventVars, req, vtask, budgetVars>>

\* not confirmed for this attempt ({ ok: false }), or already issued: either
\* way the job completes
SkipReceipt(w, j) ==
  /\ rtask[w] = NoTask
  /\ jobs[j].status = "waiting" /\ jobs[j].kind = "receipt"
  /\ ~CanIssue(jobs[j].attempt)
  /\ jobs' = [jobs EXCEPT ![j] = FreeJob]
  /\ UNCHANGED <<rowVars, objectVars, eventVars, req, vtask, rtask, budgetVars>>

\* the receipt is built from the manifest fetched now, under a new package id
BuildReceipt(w, p) ==
  /\ rtask[w].step = "fetch"
  /\ p \notin drawn
  /\ drawn' = drawn \cup {p}
  /\ rtask' = [rtask EXCEPT ![w] =
                 [@ EXCEPT !.step = "put",
                           !.manifest = manifestObj[rtask[w].attempt],
                           !.package = p]]
  /\ UNCHANGED <<rowVars, objectVars, eventVars, req, jobs, vtask, deaths, faults>>

\* manifest_fetch_failed returns { ok: false }, which BullMQ does not retry
FetchForReceiptFails(w) ==
  /\ rtask[w].step = "fetch"
  /\ faults < MaxFaults
  /\ faults' = faults + 1
  /\ NextReceipt(w, "return")
  /\ UNCHANGED <<rowVars, objectVars, eventVars, req, jobs, vtask, drawn, deaths>>

\* the manifest fetched now is not the one that was checked, and it does not
\* parse or has no signature: { ok: false } again
RefuseManifestForReceipt(w) ==
  /\ rtask[w].step = "fetch"
  /\ manifestObj[rtask[w].attempt] \notin ValidManifests
  /\ NextReceipt(w, "return")
  /\ UNCHANGED <<rowVars, objectVars, eventVars, req, jobs, vtask, budgetVars>>

PutReceipt(w) ==
  /\ rtask[w].step = "put"
  /\ receiptObj' = [receiptObj EXCEPT ![rtask[w].attempt] =
                      [package |-> rtask[w].package, root |-> rtask[w].manifest]]
  /\ NextReceipt(w, "commit")
  /\ UNCHANGED <<rowVars, manifestObj, leavesObj, resultObj, eventVars, req,
                 jobs, vtask, budgetVars>>

\* one transaction: the row, unconditionally, and a new verification link
CommitReceipt(w) ==
  /\ rtask[w].step = "commit"
  /\ att' = [att EXCEPT !.package = rtask[w].package, !.receipt = rtask[w].attempt]
  /\ links' = links \cup {rtask[w].package}
  /\ NextReceipt(w, "announce")
  /\ UNCHANGED <<attempt, objectVars, announced, req, jobs, vtask, budgetVars>>

AnnounceReceipt(w) ==
  /\ rtask[w].step = "announce"
  /\ announced' = announced \cup {<<"receipt.issued", rtask[w].attempt>>}
  /\ NextReceipt(w, "pdf")
  /\ UNCHANGED <<rowVars, objectVars, links, req, jobs, vtask, budgetVars>>

\* the PDF is rendered and cached at best effort
RenderReceiptPdf(w) ==
  /\ rtask[w].step = "pdf"
  /\ \/ att' = [att EXCEPT !.pdf = TRUE]
     \/ UNCHANGED att
  /\ NextReceipt(w, "return")
  /\ UNCHANGED <<attempt, objectVars, eventVars, req, jobs, vtask, budgetVars>>

CompleteReceipt(w) ==
  /\ rtask[w].step = "return"
  /\ jobs' = Completed(rtask[w].job, w)
  /\ rtask' = [rtask EXCEPT ![w] = NoTask]
  /\ UNCHANGED <<rowVars, objectVars, eventVars, req, vtask, budgetVars>>

ThrowReceipt(w) ==
  /\ rtask[w].step \in {"fetch", "put", "commit", "announce"}
  /\ faults < MaxFaults
  /\ faults' = faults + 1
  /\ jobs' = Retried(rtask[w].job, w)
  /\ rtask' = [rtask EXCEPT ![w] = NoTask]
  /\ UNCHANGED <<rowVars, objectVars, eventVars, req, vtask, drawn, deaths>>

-----------------------------------------------------------------------------
(* Faults of the worker processes                                           *)

\* the lock of an active job expires while its handler goes on
LoseLock(j) ==
  /\ jobs[j].status = "active"
  /\ faults < MaxFaults
  /\ faults' = faults + 1
  /\ jobs' = [jobs EXCEPT ![j] = Unlocked(jobs[j])]
  /\ UNCHANGED <<rowVars, objectVars, eventVars, req, vtask, rtask, drawn, deaths>>

\* the process dies and restarts; its jobs are found stalled
Crash(w) ==
  /\ vtask[w] # NoTask \/ rtask[w] # NoTask
  /\ faults < MaxFaults
  /\ faults' = faults + 1
  /\ vtask' = [vtask EXCEPT ![w] = NoTask]
  /\ rtask' = [rtask EXCEPT ![w] = NoTask]
  /\ jobs' = [j \in Jobs |-> IF jobs[j].owner = w THEN Unlocked(jobs[j]) ELSE jobs[j]]
  /\ UNCHANGED <<rowVars, objectVars, eventVars, req, drawn, deaths>>

-----------------------------------------------------------------------------
ClientCall ==
  \/ \E a \in Attempts : CreateAttestation(a)
  \/ \E r \in Requests :
       \/ \E a \in Attempts, m \in Manifests : SubmitByApi(r, a, m)
       \/ \E a \in Attempts, m \in Manifests : BeginUpload(r, a, m)
       \/ \E a \in Attempts : BeginFinalize(r, a)
       \/ BeginCancel(r)
       \/ BeginRepair(r)

HandlerStep(r) ==
  \/ PutManifest(r)
  \/ MarkAttemptUploaded(r)
  \/ MarkAttestationUploaded(r)
  \/ MarkApiSubmission(r)
  \/ MarkValidating(r)
  \/ EnqueueValidation(r)
  \/ CancelAttestation(r)
  \/ \E a \in Attempts : InsertRepairAttempt(r, a)
  \/ ReopenAttestation(r)

ValidationStep(w) ==
  \/ \E j \in Jobs : BeginValidation(w, j) \/ RefuseValidation(w, j)
  \/ AcceptManifest(w)
  \/ RejectManifest(w)
  \/ PutLeaves(w)
  \/ PutResult(w)
  \/ CommitValidated(w)
  \/ AnnounceConfirmed(w)
  \/ EnqueueReceipt(w)
  \/ RecordFailure(w)
  \/ CommitFailed(w)
  \/ AnnounceFailed(w)
  \/ CompleteValidation(w)

ReceiptStep(w) ==
  \/ \E j \in Jobs : BeginReceipt(w, j) \/ SkipReceipt(w, j)
  \/ \E p \in Packages : BuildReceipt(w, p)
  \/ RefuseManifestForReceipt(w)
  \/ PutReceipt(w)
  \/ CommitReceipt(w)
  \/ AnnounceReceipt(w)
  \/ RenderReceiptPdf(w)
  \/ CompleteReceipt(w)

WorkerFault ==
  \/ \E w \in Processes :
       \/ EnvironmentRejects(w)
       \/ ThrowValidation(w)
       \/ FetchForReceiptFails(w)
       \/ ThrowReceipt(w)
       \/ Crash(w)
  \/ \E j \in Jobs : LoseLock(j)

Next ==
  \/ ClientCall
  \/ \E r \in Requests : HandlerStep(r) \/ RequestDies(r)
  \/ \E w \in Processes : ValidationStep(w) \/ ReceiptStep(w)
  \/ WorkerFault

Spec == Init /\ [][Next]_vars

-----------------------------------------------------------------------------
(* The inductive invariant: what a handler, a job or a task has made sure   *)
(* of at the step it has reached, and that nothing undoes it meanwhile.     *)

HandlersInv ==
  \A r \in Requests :
    /\ req[r].step \in {"put", "markAttempt", "markAttestation", "mark", "enqueue"} =>
         req[r].attempt \in Attempts
    /\ req[r].step = "put" => req[r].manifest \in Manifests
    /\ req[r].step = "markAttempt" => manifestObj[req[r].attempt] # None

JobsInv == \A j \in Jobs : jobs[j].kind # "none" => jobs[j].attempt \in Attempts

ValidationInv ==
  \A w \in Processes :
    /\ vtask[w].step # "idle" =>
         vtask[w].attempt \in Attempts /\ manifestObj[vtask[w].attempt] # None
    /\ vtask[w].step \in {"leaves", "result", "commit"} =>
         vtask[w].manifest \in ValidManifests
    /\ vtask[w].step \in {"result", "commit"} => leavesObj[vtask[w].attempt] # None
    /\ vtask[w].step = "commit" => resultObj[vtask[w].attempt] # None

ReceiptInv ==
  \A w \in Processes :
    /\ rtask[w].step # "idle" =>
         rtask[w].attempt \in Attempts /\ att.confirmed = rtask[w].attempt
    /\ rtask[w].step \in {"put", "commit", "announce"} =>
         rtask[w].package \in Packages
    /\ rtask[w].step = "commit" => receiptObj[rtask[w].attempt] # NoReceipt
    /\ rtask[w].step = "announce" => att.package # None

-----------------------------------------------------------------------------
(* What holds whatever the clients and the workers do                       *)

\* The first confirmation is the only one: however many validations of however
\* many attempts end well, none replaces the confirmed attempt or its root.
ConfirmationWriteOnce ==
  [][att.confirmed # None =>
       att'.confirmed = att.confirmed /\ att'.root = att.root]_att

\* The root an attestation is confirmed with is that of a manifest the worker
\* checked, even when manifest.json is replaced between check and commit.
ConfirmedContentValid == att.confirmed # None => att.root \in ValidManifests

\* No row points at an object that is not there: objects are put before the
\* row that names them is written, and a crash between the two leaves no pointer.
PointersResolve ==
  /\ \A a \in Attempts :
       attempt[a] \in {"uploaded", "validated"} => manifestObj[a] # None
  /\ att.confirmed # None =>
       /\ manifestObj[att.confirmed] # None
       /\ leavesObj[att.confirmed] # None
       /\ resultObj[att.confirmed] # None
  /\ att.receipt # None => receiptObj[att.receipt] # NoReceipt

\* A receipt, its link and its event are only ever for the confirmed attempt,
\* although generateReceipt reads the row long before it writes it.
ReceiptBindsConfirmedAttempt ==
  /\ att.package # None =>
       att.confirmed # None /\ att.receipt = att.confirmed /\ att.package \in links
  /\ links # {} => att.package # None
  /\ \A a \in Attempts : <<"receipt.issued", a>> \in announced => att.confirmed = a

IInv ==
  /\ TypeOK
  /\ HandlersInv
  /\ JobsInv
  /\ ValidationInv
  /\ ReceiptInv
  /\ ConfirmedContentValid
  /\ PointersResolve
  /\ ReceiptBindsConfirmedAttempt

\* A confirmed attestation is never failed, reopened, renamed or canceled again
\* (docs/v1 11.4).  It holds for the clients of SequentialClient only: fail()
\* and the API handlers write the row whatever its state has become.
ConfirmedIsImmutable ==
  [][att.confirmed # None =>
       att'.state = "confirmed" /\ att'.renamed = att.renamed]_att

\* The row and its receipt, as the promise ConfirmationRegister makes of them.
Register == INSTANCE ConfirmationRegister WITH
  confirmation <- IF att.confirmed = None THEN {}
                  ELSE {[attempt |-> att.confirmed, root |-> att.root]},
  receipt      <- IF att.package = None THEN {}
                  ELSE {[package |-> att.package, attempt |-> att.receipt]}

\* The handlers, queues and workers implement that promise.
ImplementsRegister == Register!Spec

=============================================================================
