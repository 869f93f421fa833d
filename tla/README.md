# Proveria in TLA+

A verification development kept beside the Proveria code: TLA+ modules that
follow the code of `apps/api`, `apps/worker`, `apps/desktop`, `apps/verifier`, the
command line tool and `packages`,
TLC configurations that check them on small instances, and TLAPS proofs of the
results that matter most, for every value of the constants.

Paths below are relative to the repository root. `PROJECT.json` holds the same
facts in machine-readable form: the line range behind every definition, the
runs, the mutants, the hazards and the theorems.

## 1. The system

Proveria lets a producer commit to a set of documents (a signed manifest with a
Merkle root) without uploading them, confirms the commitment, and issues a
signed receipt that others can verify. Three kinds of process share three
stores:

    desktop app, SDK, CLI, public verifier
              | HTTP
          API (Fastify)  --- adds jobs --->  Redis / BullMQ queues
              |                                      |
              |                                worker (one Worker per queue)
              +------------- Postgres --------------+
              +------------- S3 objects ------------+

Handlers and job processors are asynchronous functions: every `await` is a point
where another handler, or another process, runs. Most handlers read a row, apply
their guard to what they read, and write some awaits later by id, without the
guard in the `WHERE` clause. That is where the difficulty of this code is.

The programs of the users have the same difficulty at home. The desktop's window and
its main process talk by asynchronous calls, and share two files and a query
cache; the verifier's page hashes and asks while its user goes on; two commands
of the CLI share a file or a folder.

### Inventory

| Component | State | Operations | What is hard | What makes it correct |
|---|---|---|---|---|
| Attestation lifecycle, device channel (`apps/api/src/attestations/routes.ts`) | `attestations`, `submission_attempts`, `manifest.json` | create, upload-manifest, finalize, cancel, repair | stale reads, several statements without a transaction, death between row and job | confirmed once, from a checked manifest; lifecycle edges; a finalized attempt is decided |
| Attestation submission, public API (`apps/api/src/public-v1/routes.ts`) | the same, plus idempotency keys | one request that does all of the above | same, plus retries of the client | same |
| Validation worker (`handlers/attestation-validation.ts`) | `leaves.jsonl`, `validation-result.json`, both rows, events | validate, confirm, fail | at-least-once jobs, overlapping runs, crash after commit | objects exist before rows name them; one outcome per attempt |
| Receipt worker (`handlers/receipt-generation.ts`) | `receipt.json`, package id, verification link, PDF key | build, sign, put, commit, announce, render | same; random package id per run | receipt only for the confirmed attempt; row, link and object agree |
| Queues (`queues/producer.ts`, `worker/src/index.ts`, BullMQ) | jobs, locks, attempts, stalls | add, take, retry, stall, fail | duplicates, lost locks, retry limit | no job is silently forgotten |
| Webhooks (`webhook-events.ts`, `webhook-delivery.ts`) | `webhook_endpoints`, `webhook_deliveries`, jobs | write rows, add jobs, post, record, retry, disable | rows before jobs, late failures, two try counters | status is true, delivered is final, every delivery settles |
| Audit chain (`packages/audit`, `tenants/routes.ts`) | `audit_events`, `audit_event_hash_chain`, `audit_checkpoints` | write event, append under advisory lock, checkpoint, integrity walk | concurrent appends, plan changes, death in the transaction | one gapless linked chain; checkpoints cover it once |
| Evidence export (`evidence-export.ts`, `cleanup.ts`) | `export_jobs`, bundle objects, jobs | request, build, complete, fail, expire, clean up | a redelivered job reopens a finished row; cleanup races a re-run | a bundle its row names exists; every export is owned and settles |
| Idempotency keys (`public-v1/idempotency.ts`) | `idempotency_keys` | look up, write, store | two requests in flight, death before the store | one answer per key |
| Access grants and requests (`attestations/routes.ts`) | grants, requests | request, approve, deny, grant, revoke, claim | approve and deny at once; two grants at once | an answer is final; one active grant per email |
| Verification links (`links/routes.ts`, `lookups`, PDF) | `verification_links`, targets, PDFs | issue, resolve, revoke, expire, rotate, render | rotation without a transaction | one live link per shared target |
| Membership, invitations (`tenants/routes.ts`) | organization and workspace memberships, invitations | invite, accept, change, remove, archive | administrators counted before the write; two tables of members | an organization keeps an administrator |
| Plan limits (`entitlements/limits.ts`) | row counts | count, then insert | concurrent creation; archived and failed rows count | a cap is exceeded by fewer rows than there are requests in flight |
| Devices and pairing (`devices/routes.ts`) | pairing attempts, devices | initiate, approve, poll, mint, revoke | approval races expiry; a key shown twice | what was answered "approved" is final |
| Accounts, sessions, tokens, identities (`auth`, `me`) | users, sessions, tokens, external identities | register, verify, log in, reset, connect, disconnect | check and insert apart; callbacks of an old state | a reset leaves only sessions of logins that it met; an identity is left |
| Lists of the public API (`public-v1/routes.ts`) | none of their own | page by offset | rows come and go between pages | a walk misses nothing that stayed |
| Desktop sign-in (`desktop/src`) | `private.key.enc`, `session.json` | sign in, sign out, switch, refresh, request | two files, no lock, torn writes | the files hold what was last chosen |
| Desktop window (`renderer/routes/home.tsx`, `rpc/tenant.ts`) | query cache, fetches under way | switch, create, archive, settings, act on an item | cached rows of another workspace | calls are made where the window says |
| Merkle trees and proofs (`crypto-core/src/merkle.ts`) | none | build root, build proof, verify | odd levels | proofs of exactly the leaves verify |
| Projects, API keys, admin, onboarding | rows | row-at-a-time CRUD | little beyond limits | unique names |
| Manifests, receipts, lookup packages (`public-v1`, `packages/manifest`, `apps/api/src/lookups`) | rows, packages | build, tally, check, look up, show, rate limit | two channels with checks of their own; plans and devices change in between | what is accepted is confirmed; an answer is true, and said truly |
| Content proofs (`packages/shingling`, `packages/ocr`, `crypto-core`) | none | normalise, cut windows, text layer or OCR, hash a passage | two layouts of one text on two machines | a passage is found exactly when its words stand there |
| Desktop form, panel, tables (`renderer/routes/home.tsx`) | component state | choose, hash, submit, open, show, search, sort, page | late answers, a loop that goes on after the user left | what is shown belongs to what is selected |
| Public verifier (`apps/verifier/src`) | page state | choose, hash, ask, request access | calls nobody cancels | a verdict is of what stands beside it |
| CLI (Rust) | `config.json`, package folder | log in, set, create, rotate; collect, bundle, unpack, check | no lock on the file, commands cut anywhere | a saved key works; a finished package checks |
| SDK (`packages/sdk`) | none | build bodies, derive keys, retry | limits of the API | its bodies are accepted |
| Infrastructure | none | deploys one worker process | | read for the number of processes |

## 2. Modules and how they correspond to the code

| Module | Role |
|---|---|
| `Attestation` | the attestation pipeline: API handlers, both queues, both worker processors, S3 objects, faults |
| `SequentialClient` | `Attestation` under the discipline of the desktop's `submit` and one worker process, with fairness |
| `ConfirmationRegister` | abstract specification: a write-once confirmation, then one or more receipts for it |
| `AttestationProofs` | TLAPS proofs about `Attestation`, and, on top of them, about `SequentialClient` |
| `AuditChain`, `AuditChainProofs` | audit events, hash chain, checkpoints, and proofs, also about `Merkle` |
| `WebhookDelivery`, `WebhookDeliveryProofs` | webhook rows, jobs and the delivery worker, and proofs |
| `IdempotentWrite` | the routes that take an Idempotency-Key: look up, write, store |
| `EvidenceExport` | export rows, their queue, two workers, bundles, cleanup; extends `IdempotentWrite`, one of whose routes creates exports |
| `ApiRequests` | what the modules below share: requests in flight, each a task with what it has read |
| `AttestationAccess` | grants and access requests of one attestation |
| `VerificationLinks` | links, their targets and rendered PDFs |
| `Accounts`, `OidcSignIn` | passwords, reset and verification tokens, sessions; and identities of a provider, on top of `Accounts` |
| `DevicePairing` | pairing codes and devices |
| `Membership` | organization, workspaces, their members, invitations |
| `PlanLimits` | caps on projects and attestations |
| `Merkle` | tree, proof, verification as recursive functions, level by level |
| `DesktopSession` | the two files of a signed-in desktop, and the server's view of its device and workspaces |
| `DesktopWindow` | the window's query cache and the workspace main acts in |
| `Paging` | the six lists of the public API and a client that walks one |
| `CliKeys` | `config.json`, the API keys, and the commands that load, save and rotate |
| `EvidencePackage` | the folder of an evidence package and the commands that write and check it |
| `VerifierPage` | the lookup page: its input, the hashes and lookups under way, access |
| `DetailPanel` | the window's selected attestation, its link, receipt and grant form |
| `AttestationForm` | the window's form: hashing, three entries, the loop that submits |
| `ListViews` | the window's tables: rows, search, filter, sorting, pages |
| `LookupResults` | what a lookup answers, and what the page and the PDF of its link say |
| `TextProofs` | texts, their layouts, the windows attested and the windows looked up |
| `Submissions` | what the two channels accept, the manifests made of it, what is shown |
| `EvidenceExportProofs` | proofs about `IdempotentWrite` and `EvidenceExport` |
| `AccessProofs` | proofs about `VerificationLinks`, `AttestationAccess`, `DevicePairing`, `LookupResults` and `Paging` |
| `WorkspaceProofs` | proofs about `PlanLimits`, `Accounts`, `OidcSignIn`, `Membership` |
| `DesktopProofs` | proofs about `DesktopWindow`, `DesktopSession`, `Submissions` |
| `ClientProofs` | proofs about `VerifierPage`, `CliKeys`, `EvidencePackage`, `DetailPanel`, `AttestationForm`, `ListViews` |
| `MCAttestation`, `MCSequentialClient`, `MCAuditChain`, `MCWebhookDelivery`, `MCEvidenceExport`, `MCPlatform`, `MCClients` | the modules TLC runs |

**How a handler becomes actions.** A handler is a `Begin...` action, the read that
applies its guards and early returns, followed by one action per write
(`PutManifest`, `MarkAttemptUploaded`, ...). The step a handler is at is a field
of its record (`req[r].step`, `vtask[w].step`, `writer[w].step`, ...). Statements
inside one Postgres transaction are one action. Reads that feed no guard and
writes nothing reads back are folded into the neighbouring step.

**Jobs.** BullMQ is external and modelled from how `worker/src/index.ts` uses it: a
job waits, is taken by an idle Worker of a process (no `concurrency` option is
given, so one job of a queue at a time per process), and ends by returning or
throwing. A throw puts it back until `attempts` is used up; a lost lock or a
dead process puts it back until `maxStalledCount` is exceeded, and the run that
lost its lock goes on, with a job it can no longer end. The constants
`MaxTries`, `MaxStalls` stand for those settings.

**`Attestation`.** `att` is the `attestations` row, `attempt` the states of
`submission_attempts`, the four `...Obj` functions the S3 objects under each
attempt's prefix, `links` the verification links inserted with a receipt,
`announced` the audit and webhook events. A manifest is a value of `Manifests`;
`ValidManifests` are those that pass every check of `validateAttempt` that
depends on the manifest alone (schema, signature, Merkle root, and so on). The
checks that depend on something else (plan, device) may reject at any time:
`EnvironmentRejects`. Package ids are drawn without repetition, as
`newPackageId` draws random ones.

**`SequentialClient`.** `apps/desktop/src/rpc/attestations.ts` awaits create,
upload-manifest and finalize in turn, calls each once and stops at the first
error. The module lets cancel and repair be called under the same discipline. It
also assumes that there is one process (`OneProcess`), which is what
`docker-compose.yml` and `infra/terraform/ecs.tf` deploy.

**`AuditChain`.** `writer[w]` is `writeAuditEvent` (and the checkpoint route) in one
handler, `lock` the tenant's advisory lock. A hash is the sequence of events
hashed so far: SHA-256 is taken to be injective. The plan is changed by the
operator's SQL only (`SetPlan`). A checkpoint's root is the set of hashes in its
window; the Merkle construction belongs to a module of its own.

**`WebhookDelivery`.** `producer[p]` is `createWebhookDeliveries` and the loop that adds
its jobs, `sender[w]` is `sendWebhookDelivery` in a process. `received` is a ghost:
what the endpoint has really taken in. An endpoint that is not created yet is
one no event targets, so creating it is no action.

**`IdempotentWrite` and `EvidenceExport`.** A request looks up the stored response of its
key, writes a row and then stores its response, which the unique index may
refuse; each is a step, and a request may die between any two. `RouteOf` says
which of the six routes a key is for: they differ in what the write finds in the
way (a slug, an email) and in what follows it; each has its
refusals (`RefuseAt`), which store nothing. `answers` is a ghost, what
clients were told. In `EvidenceExport`, `builder[w]` is the processor of a worker,
`cleaner[c]` a cleanup request between its two writes; a bundle has one key per
job, so a second run puts it again.

**Routes over `ApiRequests`.** A request is the task of a handler: `Begin` reads and
applies the guards of the route, each later action writes. What the task has
read stays in the task, so it may be stale when it is used, as in the code.
Statements in one transaction are one action. `Cut` ends a task after any write.
Some promises hold except for overlaps that the code does not prevent. Such an
overlap is recorded in a ghost where it happens, and the property names it:

| Ghost | Module | Recorded when |
|---|---|---|
| `racedGrants` | `AttestationAccess` | two handlers both saw no grant of an email, and both insert |
| `contested` | `AttestationAccess` | two handlers loaded a request while it was pending |
| `loose` | `VerificationLinks` | a rotation was cut between its writes, or met another change of the same link |
| `racedDisconnect` | `OidcSignIn` | two disconnections were decided at once, and nobody has signed in with an identity since |
| `staleEdit` | `Membership` | a change was written after another change to what it had checked |
| `stray` | `EvidenceExport` | a run was cut before it named its bundle, or put it back during a cleanup |
| `disputed` | `DesktopSession` | a call wrote a file that began before the last write of another, or was cut between writes |
| `undone` | `DesktopWindow` | a save that meant to keep the workspace has changed it |
| `loose` | `Paging` | a row left the list during a walk, or two shared an instant |
| `withdrawnKeys` | `CliKeys` | a key ended otherwise than by a rotation that saves the new one |
| `clobbered` | `CliKeys` | a save met another save, or a rotation was cut before its save |
| `met`, `whole` | `EvidencePackage` | commands wrote into one folder at once; the last one was alone and came to its end |
| `crossed` | `VerifierPage` | a hash or verdict of earlier input was shown, or a pasted hash edited under its verdict |
| `late`, `slid`, `oldText` | `DetailPanel` | a receipt came after the selection changed; a panel stayed open; a message was kept |
| `astray`, `early` | `AttestationForm` | the form was left, or its files changed, during a loop; a release was submitted while its record was hashed |
| `stale` | `ListViews` | rows were fetched under a control that had been used |

So a property says that nothing else breaks the promise: no sequence of calls,
no crash, no other overlap. The exceptions are narrow: each is recorded in the one
step where the overlap happens, and the interleavings around it stay.
`answered` in `LookupResults` excepts nothing, it counts. `Accounts` and `PlanLimits` need no
ghost for the race between a check and the write that follows it: `SessionsFollowPassword` and
`WithinCap` bound what the race can do. There are fewer sessions on an old password than
requests in flight, and a cap is exceeded by fewer rows than that.

**`Membership`.** A member has a row in the organization and one in each workspace;
`Access` is `resolveTenantContext`, which needs both. `PATCH` takes its bodies from
`MCEdits`: a lower role, no access, one selected workspace, no longer an
administrator of the organization.

**`Merkle`.** A leaf hash is a number, an inner node the pair of its children, so
hashes are injective and a leaf is no inner node, which the prefix bytes of the
code provide. `Levels` are the levels that `computeMerkleRoot` goes through. `Climb` is the
loop of `buildMerkleProof`, with promoted nodes, and `Ascent` that of `verifyMerkleProof`:
each a function from the round to what the code has after it. The order of the
leaves is by `Rank`, the place of a hash among the others.

**`DesktopSession`.** A call of the window is a task in main: load the session, read the
key, send, and after a 401 clear key and session. `writeFile` empties a file
and then fills it: a session file in between is `Torn`, a key file unreadable. The
server ends devices and closes workspaces at any time. `choice` is what the
user was last told is done.

**`DesktopWindow`.** `asked` are the queries the window wants, a task in `work` is what
main is doing. When a change answers, `ChangeDone` puts its workspace into the
cached session and refetches everything; as in react-query (external), a fetch
under way is dropped, except the first of a query, which is awaited although
it may be of the workspace before: such a query stays in `stale`. A dropped
`currentSession` goes on in main, and saves. An item remembers the workspace it
was fetched from. Main reads `session.json` when it builds the path.
The sign-in of `DesktopSession` is not repeated here: the window has a session,
and calls may fail.

**`AttestationAccess`.** A grant is revoked from the dashboard or with an API key, by
two routes that do the same to the row.

**`Paging`.** The six list routes differ in their caps and in what orders them, so a
behaviour picks one. `walk` is a client that does what the integration policy says. Rows are
inserted with any instant, as `now()` is that of a transaction's beginning, and
rows with one instant are returned in any order, anew for every page.

**`CliKeys`, `EvidencePackage`.** Every command is a process that loads what it needs,
calls the API and writes: `config.json` is emptied and then filled (`TornFile` in
between), a package is written file after file. A command may be cut anywhere.
An export's idempotency key is derived from its filters, so a filter has one job.

**`VerifierPage`.** A task is a hash or a lookup under way. It is `old` once the input
it was begun for has changed; when it ends, it sets the page as it is by then.

**`DetailPanel`, `AttestationForm`, `ListViews`.** These are the component state of
`home.tsx`, with the effects of a state change in the action that makes the change.
react-query is external, modelled from how it is used: a fetch replaces the one
under way. `AttestationForm` carries the loop of `submitAttestation` as a task that
keeps the rows it was given. In `ListViews` a row is its marks, the words by which
the filters tell rows apart, and `Place` is where sorting puts it.

**`LookupResults`, `Submissions`.** Canonical JSON and hashes are injective, so a digest is
the object itself. A body, a label or a record is told apart by what the checks
on either channel ask of it (`plain`, `odd`, `long`, ...). A manifest is a sequence
of leaves; what the page and the PDF say is modelled by what they look at.

**`TextProofs`.** A text is a sequence of pieces and separators; each of the three ways
into the desktop, and the clipboard, lays it out with line ends, hyphens and page
breaks of its own. `ParagraphsIn` is a fold over the symbols. What OCR and
the text layer of a PDF read is external: pages may fail or be empty. A passage is asked
for by one of three programs. The page and the CLI send all windows as candidates; the
CLI has a normaliser of its own (`main.rs:4506`), which treats a page end before hyphens, where
`normalize.ts` does it after. The SDK's `verifyHash` sends one hash, with or without a kind.
`Sought` is what the API then looks for. The windows are those of the preset `standard`, which is
the one the desktop attests; windows of the others never match.

Definitions marked `mutant:` are not part of the system: each is a plausible
bug, replacing the definition that follows it, and shows that a property can
fail (section 5).

## 3. What is checked

Runs that pass:

| Run | Bounds | Shows |
|---|---|---|
| `MCAttestationRaces` | 2 attempts, 2 manifests (one invalid), 2 concurrent handlers, 1 process, no faults | `ConfirmedContentValid`, `PointersResolve` under every interleaving of two handlers with the worker |
| `MCAttestationRedelivery` | 2 attempts, 1 valid manifest, 1 handler at a time that may die once, 2 processes, 2 faults, tries 2, stalls 1 | `ReceiptBindsConfirmedAttempt`, and that the model implements `ConfirmationRegister` with overlapping runs of one job |
| `MCSequentialClient` | 2 attempts, 3 packages, 1 process, 2 faults, 1 handler death | the stronger promises under the client discipline: `OutcomesAgree` (`OneReceipt`, `AnnouncedOutcomesAgree`), `ConfirmedIsImmutable`, `FollowsLifecycle`, and the liveness `FinalizedIsDecided`, `ConfirmedGetsReceipt` |
| `MCAuditChain` | 3 writers, 1 administrator, 4 events, 1 death | `ChainIntact`, `CheckpointsMatchChain`, `AppendsLand`, `AppendsEnd` |
| `MCWebhookDelivery` | 2 endpoints, 2 deliveries, 1 producer, 1 process, 2 faults, 1 death, tries 2, stalls 1 | `StatusIsTrue`, `DeliveredIsFinal`, `DeliverySettles` |
| `MCEvidenceExport` | focus "writes": 2 requests, 6 routes one at a time, 2 bodies, 2 rows; focus "exports": 1 job, 2 requests, 2 workers, 1 cleanup, 2 faults, tries 2, stalls 1; 1 death in both | `OneAnswerPerKey`; `BundlesMatchRows` (`NamedBundleExists`, `OrphansExplained`) and `ExportSettles`, in 374,000 states |
| `MCPlatform` | 2 concurrent requests, one group of routes per behaviour (below) | ten promises of the routes around the attestations and of the desktop, and `MCTypeOK`, in 826,000 states |
| `MCClients` | 2 commands, calls or hashes at once, one program per behaviour (below) | nine promises of the programs and of what passes between them and the API, and `MCTypeOK`, in 374,000 states |

`MCPlatform` runs modules that share nothing but the handlers. Each behaviour
picks one `focus` and leaves the rows of the others alone:

| Focus | Instance | Property |
|---|---|---|
| access | 1 person, 2 grants, 2 requests | `OneGrantOneAnswer` (`OneActiveGrant`, `AnswersStay`) |
| links | 1 receipt, 1 lookup package, 3 links | `RotationLeavesOne` |
| merkle | every set of at most 7 leaves | `ProofsVerify` |
| accounts | 2 users, 2 sessions, 2 tokens, 2 passwords | `AccountsTrue` (`SessionsFollowPassword`) |
| identities | the same, with 2 subjects and 2 states | `AccountsTrue` (`KeepsAnIdentity`) |
| pairing | 2 codes, 2 keys, 2 devices, 2 members | `PairingFinal` |
| members | 2 users, 2 workspaces, 2 invitations, 2 edits | `OrgAdminKept` |
| plan | 3 slugs, 3 labels in one project, all caps 1 | `WithinCap` |
| desktop | 2 devices, 2 workspaces, 2 calls | `StoredIsChosen` |
| window | 2 workspaces, 1 list, 2 calls or fetches in main | `ActsWhereShown` |
| paging | 6 routes, 4 rows, 3 instants, pages of 1 or 3 with a cap of 2, offsets up to 2 | `WalkReturnsAll` |

`MCClients` does the same for the programs:

| Focus | Instance | Property |
|---|---|---|
| keys | 2 keys, 2 workspaces, 2 commands | `SavedKeyWorks` |
| package | 2 filters, 1 artifact of 2 contents, 1 poll, 2 commands | `PackageChecks` |
| verifier | 2 files, 1 of them an image, 2 passages with a window in common | `VerdictIsOfShown` |
| panel | 2 attestations, 2 links each | `PanelIsOfSelected` |
| form | 2 files, 2 records, 2 names, 2 loops or hashings | `SentAsShown` |
| lists | 3 rows, pages of 1, every table | `ListsTrue` |
| lookups | 2 payloads, 2 leaves, 2 candidates, 1 lookup a minute, 2 minutes | `LookupsTrue` (`AnswerIsTrue`, `PageIsTrue`, `WithinMinute`) |
| texts | 2 documents in every layout, windows of 2 with a stride of 1 | `PassageFound` |
| submissions | 2 attestations, 2 names, 2 contents, 1 window, all plans | `SubmissionsTrue` (`AcceptedIsConfirmed`, `SdkBodiesFit`, `ShownIsAttested`) |

Runs that find a violation, each of one property taken from a document or comment:

| Run | Property | What happens |
|---|---|---|
| `MCAttestationFinalizeTwice` | `ConfirmedIsImmutable` (docs/v1 11.4) | a second `finalize` read the attempt as `uploaded`; after the worker confirmed, it sets the row back to `validating`, where it stays |
| `MCSequentialReceiptLost` | `EveryConfirmationGetsReceipt` (docs/v1 18.2) | the worker dies after the confirmation and before it enqueues the receipt; the retried job answers `ok: false` |
| `MCAuditCheckpointRace` | `CheckpointsTile` (comment on the checkpoint route) | two administrators checkpoint at once and their windows overlap |
| `MCMembershipAccepted` | `AcceptedHasAccess` (docs/v5-workspace-membership-design.md) | a member whose access was set to none is invited again and accepts: the organization row stays revoked and the workspace stays closed |

**Why the bounds are enough.** Two attempts are needed for a repair and for the
confirmed attempt to differ from another; two manifests, for a replaced one to
be invalid; two handlers or two processes, for every race in the code, which
are all between two. Two faults let one fault strike the recovery from another
and reach the stall limit; two tries make both branches of the retry reachable.
Three writers give a queue on the advisory lock, and four events leave room for
a checkpoint's own event between two appends. Two deliveries and two endpoints
let an event write two rows and the producer die between their jobs. The real
settings (3 or 5 tries) only repeat the same branches.

In `MCPlatform` two handlers suffice, as the races of the code are between two, and
every kind of row has two, one more where a third can be told apart: a link that
replaces one while another is revoked, a row that is inserted during a walk of
two pages, a fourth that goes past the cap. Where rows are alike, a bound in
`MCPlatform` fixes which is used first (`AnyFounder`, `AnyCodeFirst`, `AnyRowNext`, the
workspace the window opens in); these lose no behaviour up to renaming. The
others are bounds in the proper sense: `OneAccount` (two people do not both have
passwords; an identity cannot be two people's), `OneJob` and `OneExpired` (PDFs waiting,
links expired), `OneSealed` (attestations in one project), `OneWorkspace`, `OneInvitation` and `OneAtATime` (either two
administrators meet in one workspace, or one request at a time goes through the
long histories), `MaxEdits`, `CallsBegin` and `ServerCalm` (a desktop whose files are
disputed begins one call at a time, and the server takes nothing away while two
are under way), `ListRests` (no row comes or goes once a walk is excepted). In `MCClients` the bounds are
`OneThing`, `OneFolder`, `OnePanel`, `OneBatch`, `FewRows`, `OneQuestion`, `OneText` and
`OneOddity`, each explained where it is defined: two actors meet at what they
share, and the long histories that follow an exception, or that repeat what is
symmetric, are run one actor at a time. In the exports run `OneKey` keeps to one key of each route, and two routes share no row.

`MaxDeaths` and `MaxFaults` bound the faults, in the guards of the fault actions.
Deadlock is not checked: attempts, package ids, events and deliveries are finite,
as are the rows of the other modules, so a model that has done everything stops. Nothing waits for anything except
jobs and the advisory lock, and the liveness properties cover both.

Symmetry of the constants is used in the runs without liveness only; in
`MCPlatform` and `MCClients` it is that of the handlers, none of which is ever chosen by
`CHOOSE`.

## 4. Fairness

* `WF(HandlerStep(r))`, `WF(WriterStep(w))`, `WF(ProducerStep(p))`: a promise that settles
  resumes its function; Node runs it in the end. A handler that dies instead is
  a separate, bounded action.
* `WF(ValidationStep(w))`, `WF(ReceiptStep(w))`, `WF(SenderStep(w))`: the same for job
  processors; BullMQ hands a waiting job to an idle Worker, and `fetch` gives up
  on an endpoint that does not answer.
* `WF(BuilderStep(w))` in the exports run: the same for the export processors. It is
  stated of the steps that belong to that focus.
* `SF(TakeChainLock(w))`: Postgres grants a lock in the order of the requests.
* Clients owe nothing: no fairness on API calls, `CreateAttestation`, `BeginEvent`,
  `DisableEndpoint`. Faults owe nothing either. `MCPlatform` and `MCClients` state no
  fairness: their properties are all safety.

## 5. What makes a property worth its run

Every property of a passing run has a mutant in `PROJECT.json`: one definition
replaced as a plausible bug would (the confirmation without `confirmed_at IS NULL`,
`generateReceipt` without its state guard, the append without waiting for the
lock, the checkpoint that starts one row early, the failure that is returned
and not thrown, the response that replaces a stored one, the grant inserted
without looking, the password set without revoking sessions, the cap that
counts active projects only, the refresh that opens the first workspace, the
page that reads no row beyond it, the key that is saved without its workspace, the
verdict that is kept when another file is chosen, ...), under which TLC finds that property violated.

## 6. What is proved

With TLAPS, for every value of the constants that satisfies the assumptions named
in the modules. They say that `None` is no id, row or task, that bounds and caps are
numbers (or there is no cap), that one set of ids is part of another
(`ValidManifests` of `Manifests`, `Admins` of `Writers`, `Jobs` of `Rows`, `Images` of `Files`) or
apart from it (`Receipts`, `Packages`; the titles of a form and the words it shows),
that a function is of the right sets, that the windows of texts and the rows of a
table are finitely many, in `VerificationLinks`, `Accounts` and `PlanLimits` that there are finitely many handlers (in the
latter two at least one), as their properties compare their number with that of links, sessions and rows, and in `SequentialClient`
that there is one worker process (`ConstantsOK`, `OneProcess`, `AuditConstantsOK`,
`WebhookConstantsOK`, `IdempotentConstantsOK`, `ExportConstantsOK`, `PairingAssumption`,
`LinkAssumption`, `AccessAssumption`, `PlanAssumption`, `CapAssumption`,
`AccountAssumption`, `OidcAssumption`, `MemberAssumption`, `WindowAssumption`,
`VerifierConstantsOK`, `VerifierAssumption`, `CliAssumption`, `MerkleAssumption`,
`LookupAssumption`, `LookupConstantsOK`, `PagingAssumption`, `WalkAssumption`,
`DesktopAssumption`, `LargeAssumption`, `SubmissionAssumption`, `PackageConstantsOK`,
`PackageAssumption`, `PanelConstantsOK`, `FormConstantsOK`, `ListsAssumption`,
`MarksAssumption`). TLC evaluates all of them for the instances it runs.

| Theorem | Property |
|---|---|
| `TypeCorrect`, `AuditTypeCorrect`, `WebhookTypeCorrect` | `TypeOK` of the three modules, which the runs therefore do not repeat |
| `ConfirmedContentIsValid` | `ConfirmedContentValid` |
| `PointersAlwaysResolve` | `PointersResolve` |
| `ReceiptsBindConfirmedAttempt` | `ReceiptBindsConfirmedAttempt` |
| `ConfirmationIsWriteOnce` | `ConfirmationWriteOnce` |
| `RegisterImplemented` | `Attestation` implements `ConfirmationRegister` |
| `OutcomesAlwaysAgree` | `OutcomesAgree` of `SequentialClient` |
| `LifecycleFollowed` | `FollowsLifecycle` of `SequentialClient` |
| `ConfirmedStaysConfirmed` | `ConfirmedIsImmutable`, for the clients of `SequentialClient` |
| `ChainAlwaysIntact` | `ChainIntact` |
| `CheckpointsAlwaysMatch` | `CheckpointsMatchChain` |
| `AppendsAlwaysLand` | `AppendsLand` |
| `StatusAlwaysTrue` | `StatusIsTrue` |
| `DeliveredStaysDelivered` | `DeliveredIsFinal`, where there is one worker process |
| `ApprovalIsFinal` | `PairingFinal` |
| `PairingAlwaysSound` | types of `DevicePairing`, and `KeysUnique` |
| `KeyHasOneAnswer`, `ExportKeyHasOneAnswer` | `OneAnswerPerKey`, of the writes alone and inside the exports |
| `BundlesAreExplained` | `BundlesMatchRows` |
| `RotationsLeaveOne` | `RotationLeavesOne` |
| `GrantsAndAnswersHold` | `OneGrantOneAnswer` |
| `PlanIsKept` | `WithinCap` |
| `AccountsStayTrue` | `AccountsTrue` |
| `AnAdminIsKept` | `OrgAdminKept` |
| `CallsGoWhereShown` | `ActsWhereShown` |
| `VerdictsAreOfShown` | `VerdictIsOfShown` |
| `SavedKeysWork` | `SavedKeyWorks` |
| `StoredAlwaysChosen` | `StoredIsChosen` |
| `SubmissionsAlwaysTrue` | `SubmissionsTrue` |
| `PanelAlwaysOfSelected` | `PanelIsOfSelected` |
| `SentAlwaysAsShown` | `SentAsShown` |
| `PackagesCheck` | `PackageChecks` |
| `ListsAlwaysTrue` | `ListsTrue`: two invariants and an action property |
| `LookupsAlwaysTrue` | `LookupsTrue` |
| `WalkAlwaysReturnsAll` | `WalkReturnsAll` |
| `ProofsAlwaysVerify` | `ProofsVerify`, for trees of any size |
| `ExportsAreTyped`, `LinksAreTyped`, `GrantsAreTyped`, `SignInIsTyped`, `PlanIsTyped`, `MembersAreTyped`, `WindowIsTyped`, `DesktopIsTyped`, `SubmissionIsTyped`, `VerifierIsTyped`, `CliIsTyped`, `PackageIsTyped`, `PanelIsTyped`, `FormIsTyped`, `ListIsTyped`, `LookupIsTyped`, `PagingIsTyped` | the types of `EvidenceExport`, `VerificationLinks`, `AttestationAccess`, `OidcSignIn` over `Accounts`, `PlanLimits`, `Membership`, `DesktopWindow`, `DesktopSession`, `Submissions`, `VerifierPage`, `CliKeys`, `EvidencePackage`, `DetailPanel`, `AttestationForm`, `ListViews`, `LookupResults`, `Paging`: conjuncts of `MCTypeOK` in the runs |

Few of these properties are inductive as they stand. Each inductive invariant was
first checked by TLC on a small instance (with three handlers where that made
more overlaps possible), and only then proved.

**The argument for `Attestation`.** The safety invariants alone are not inductive: a
worker at `CommitValidated` writes pointers to objects it stored some steps ago,
and `CommitReceipt` relies on a guard checked when the job began. `IInv` adds what
each actor knows at its step: `ValidationInv` (the manifest it holds is valid, the
leaves and the result are stored), `ReceiptInv` (the attempt it works for is the
confirmed one, its package is drawn), `HandlersInv` and `JobsInv` (they name real
attempts, whose manifest is stored). Two facts make these stable: no action
deletes an object, and `att.confirmed` never changes once set. Each actor has a
lemma (`ClientStepOK`, ...) with one step per action.

**The argument for `SequentialClient`.** Every step of it is a step of `Attestation`, so `IInv`
holds; but `IInv` lets two attempts be open at once and a late write of a handler
meet a decision of the worker. `SeqInv` adds two sides. `ClientSide`: at most one request
is under way and at most one attempt is open (pending, uploaded or validated);
the row says what that attempt says, except between the two writes of an upload or a
repair and after a handler died; and each handler is at a step only while the row is in
a state that step may leave (`HandlersKnow`). `WorkerSide`: a job is for an attempt
that is to be decided or has been; a validation under way works on one that is
not decided, on the manifest that stays; a receipt is built, put and committed only
while the row names none. Each side is kept by the other because of what they
leave alone: a client writes nothing of an attempt once it is given to the worker
(`KeepsWorker`), and of the worker's steps only the two decisions change what
clients read (`KeepsClients`, `AtDecision`). After a handler's death no call follows:
`SequentialCall` has that guard, and a client that goes on after an answer it never
got is outside the theorem.

**The argument for `AuditChain`.** `LockInv` says the lock is held exactly from the read
of the latest row to the insert; hence `LatestInv`, that the row read is still the
latest at the insert; hence the new row takes the next number. `EventsInv` says an
event is being appended by one handler at most and is not in the chain yet, so
neither unique index can refuse. `ChainCounted` and `WindowInv` carry the checkpoint:
rows are only ever added at the end, so a window read earlier still matches.

**The argument for `WebhookDelivery`.** What a worker records was observed some steps
before. `SendersKnow` says it still holds: an endpoint that took a delivery in
has taken it in, and one that is disabled stays so, as nothing enables it again.
`HaveRows` says that whoever is to send a delivery has its row; so an insert,
which uses new ids, changes no row that somebody is working on. A number of
tries that is not below `MaxTries` equals it, because the queue counts no further.
These theorems are for any number of worker processes. `DeliveredIsFinal` is for one, a
hypothesis of `DeliveredStaysDelivered`: what that process is about to send or to
record was not delivered when it took the job (`NotYetDelivered`), and nobody else
writes a row that exists.

**The argument for `DevicePairing`.** `PairingInv`: types; `KeysUnique`, the unique index on
`devices.public_key`; `ApprovedOwnsDevice`, an approved code names a device with
the key it was shown; `TasksOK`, what a request has read (the code and its key, the
device to revoke) is still there. A second approval of a code finds its device
set and changes nothing; an expiry does not matter to one that has a device; and
since keys are unique, a revoked device is the only one with its key.

**The argument for `IdempotentWrite` and `EvidenceExport`.** `AnswersStored`: what any client was
told of is the stored response of its key, which the unique index never lets
another replace; so two answers of one key agree. `RequestsOK`: what a handler found or
wrote is a row that exists. `ExportInv` adds what the processors know. `CleanRows`: a
row not yet created has no bundle, job or run, so a new export meets nothing of
an older one. `BuildersOK`: a run that is about to name its bundle has it in the store,
unless it has expired. `CleanersOK`: a cleanup deletes only what has expired, and a
bundle that is there again before its row is written was put back, hence a stray.

**The argument for `VerificationLinks`.** A rotation inserts the new link, then revokes the
old one, and other requests run in between. `Replaced(t)` are the old links about
to be revoked. `SoleRotation`: no link is replaced twice. `OneLeft`: the live links of a
target are the replaced ones and one more, until an administrator revokes that.
Counting is then a bijection between rotations and replaced links.
`RotationsOK`, `LookupsOK` and `LinkedIsStored` tie tasks and links to what they are about.
Targets whose rotation was cut or met another change (`loose`) are excepted.

**The argument for `AttestationAccess`.** `GrantsOK`: while a handler that found no grant of a
person is at it, there is none, and nobody else is at it, unless the person is
marked as raced. `RequestsPending`: a request that somebody is about to resolve is
still pending and is resolved by nobody else, unless it is contested; so an answer is
only ever given to what is pending. `AccessTasksOK`: what was read still exists.

**The argument for `PlanLimits`.** `RoomForAll`: the rows that count for a cap and the requests
that have counted and are about to insert one exceed it, together, by fewer than there are
handlers. When a request counts, the rows are below the cap and at most all handlers are at
it; after that, a request only turns into a row. `CountedProjects` counts archived
projects too, so that nothing is gained by archiving. `RowsFinite` is for the cardinalities.

**The argument for `Accounts` and `OidcSignIn`.** A login checks a password and opens a session
some awaits later. `FewOutdated`: of an account, the sessions opened on an older password and
the requests that still carry one are together fewer than the handlers. A reset closes
all sessions of the account, so that what is outdated afterwards are other handlers'
requests at most, and the one that resets is none of them; after that, a request only
turns into a session. `OneDisconnects`: while somebody
gives up an identity, nobody else of the account does, and another identity stays
connected, unless the account is marked. `SignInsKnow`: what was read still exists.
The theorem is about `SignInNext`, passwords and providers together, for any number
of accounts; the run has the bound `OneAccount`.

**The argument for `Membership`.** `EditsLeaveAdmin`: a change that nothing was written after,
and that takes access from an administrator, leaves another one. `EditsKnown`,
`InvitationsKnown`: changes and invitations under way are of rows that exist. The
theorem is for every body of a `PATCH`, where the run has a few. The proof
showed that two `CASE` expressions of the model had overlapping arms, of which
TLA+ may take either; they, and the like in three other modules, are disjoint now.

**The argument for `DesktopWindow`.** The window is `Steady` when nothing was undone and no
change of the workspace is still to be heard of. `TasksOK`: then an answer the window
trusts is of the workspace in `session.json`; and a call on an item that began while
the window was calm is of that workspace, and remains so until another change
begins. `FetchedOnce`: a list has one fetch at a time, so an old answer is the last of
its kind. `ShowsActive`: rows that are cached and not stale are of the active
workspace. `AskedFirst`: before there is a session nothing else is asked for.

**The argument for `VerifierPage`.** `PendingOK`: until the hash of the input that is shown
arrives, the page has neither hash nor verdict. `AskedOK`: a lookup that is not old asks
for what is shown. `OneHashes`, `OneAsks`: there is one of either at a time.
`HashIsOfShown` joins them: a hash on the page is that of the input beside it.
All of them except the page once it is crossed.

**The argument for `CliKeys`.** A key is `Held` when it is live or was ended with leave. `CommandsOK`:
a key that a command has made is held until it is saved, and what was loaded is as
good as the file was. `FillsAlone`: a command about to fill `config.json` has no other
save beside it, but for those that met an empty file, unless saves have met. Hence
a rotation that ends leaves a key that is held, and takes the excuse of being
rotated from no key that another command has still to write.

**The argument for `DesktopSession`.** A call of which no other has written the files
since it began is untouched. `CallKnows` says what such a call knows at each of its
steps: what the key file and the session file hold, that the key it carries is the
one in the file, that a session the server has just refreshed is of the workspace
chosen. `Undisputed` singles out the one call that has written and is not at its
end; whatever else ends by then is marked as disputing the files. `WithdrawnKnown`:
if the server has ended the device or closed the workspace, that is recorded, so
that files which were cleared after a 401 are explained.

**The argument for `Submissions`.** `RowKept`: every attempt that is past its upload has
the manifest that was built of leaves the worker has nothing against (`GoodLeaves`:
a file first, digests in plain form, none twice), so that an attempt can only be
refused for its plan or device. `UploadKept` says the same of the leaves that the
desktop holds between its calls. `SourceIsLeaf` ties the record beside the leaves to
the first of them. What the SDK's bodies fit is a fact about the two schemas.

**The argument for `DetailPanel`.** `LinksKnown`: the detail shown is of a link that the
server has issued, and never newer than the one being fetched, so the newest
answer wins. `BatchHasNoReceipt`: a batch that waits to be confirmed has cleared the
receipt, so that a selection made when it is confirmed shows no other's.

**The argument for `AttestationForm`.** `LoopKnows`: the loop has a title for each item left
and its attestation is in the state in which the last call left it. `MadeByOne`: two
loops, should the user have made two, never work on one attestation.
`RowsAreOfFiles` is what the rows then say. `HashIsOfRecord`: at most the hash of the
record that is shown is being computed.

**The argument for `EvidencePackage`.** `HasBundle` is what a command has read at each step,
`FolderIs` what the folder holds as long as nobody met the command: the manifest of
its filter, the bundle it fetched, the artifacts it has unpacked so far, and the
list of those that are missing. At its end these are what `export check` asks for.

**The argument for `ListViews`.** Sorting compares rows by a key and then by their order, in
either direction, which is a strict total order (`BeforeOrders`); the number of rows
up to a row is then a place of its own (`Placed`), so the sorted rows are those that
match. Pages cut them without a gap as the division is exact (`PagesEnough`).
`AskedIsShown` is the invariant: unless rows were fetched under it, the page asked for
exists and the filter is an option. `NeverBack` follows from what the server may
send (`Follows`) and from the order in which the two answers are looked at.

**The argument for `LookupResults`.** `MinuteKept`: of each minute, the lookups answered and
those counted but not answered yet are together no more than were counted, and
than the plan has. `AnswerIsOfQuestion`: an answer is the package for its question; what
the page and the PDF say is read off it.

**The argument for `Paging`.** A walk that nobody disturbed has behind its offset every row
that it has still to return (`Behind`): rows that come are newer than those, so the
number of rows before each only grows. A page is then shown to be the rows from
the offset on, in their order, whichever order the database takes for equal ones.

**The argument for `Merkle`.** A node stands for the leaves under it (`Under`, by way of a path
down). Every level stands for the leaves of its set and no others
(`LevelsStandForAll`), so equal roots have equal sets (`RootsDiffer`). `LeadsTo` is the
invariant of the prover's loop: the proof so far, walked from the leaf, ends at the
node the loop has reached. Two leaves walk to different nodes (`WalksDiffer`). These
are inductions over the rounds of three loops. The provers cannot apply an induction
theorem; each is an argument about the least round that fails (`UpTo`), which exists
as `<` is well founded. That the functions are what their recursive definitions
say is shown in the same way (`RecursionExists`).

Model-checked only:

* all liveness (`FinalizedIsDecided`, `ConfirmedGetsReceipt`, `AppendsEnd`,
  `DeliverySettles`, `ExportSettles`): the prover handles neither fairness nor `ENABLED`;
* `PassageFound` of `TextProofs`: it is about folds over sequences of symbols, which need an
  induction over data, and about given documents: for any sequence of
  symbols as a word it does not hold;
* `MCTypeOK` of `MCPlatform` and `MCClients`, which puts the types of the modules together: proved
  of the modules one by one, except `TextProofs`.

## 7. Findings

Beside the four violation runs above, the models made these limits explicit:

* `ConfirmedIsImmutable`, `FollowsLifecycle` and `AnnouncedOutcomesAgree` hold for one client
  call at a time and one worker process. They do not hold for the API as such.
* `DeliveredIsFinal` holds for one worker process: with two, a run that lost its
  lock and fails late takes `delivered` back to `retrying`.
* A handler that dies between `state = 'validating'` and the job, or between the
  delivery or export rows and their jobs, leaves rows nobody will pick up; no
  sweeper exists. The liveness properties say of everything whose job was added that
  it settles, or that the queue shows its job as failed (an export may also be left
  by a run that lost its lock). So no property covers the three hazards themselves.
* `CheckpointsTile` holds for one administrator; for two it is a violation run.
* The table of ghosts in section 2 lists the overlaps the routes do not prevent.

Disagreements between the code and its documents or comments that were met while
reading, with their lines in `PROJECT.json`; the models follow the code:

* approving a request may reuse a pending grant, which lets nobody in;
* the public API creates projects without the plan's project cap;
* `PATCH` of a member's access may take the last administrator from another
  workspace;
* two requests with one key may both write, and the second is answered 500;
* a `session.json` cut while it was written makes signing out impossible;
* a session refresh may undo a switch of the workspace or a sign-out, and saving
  the organization's settings a switch;
* after a switch during a batch, the rest of it is attested in the other workspace;
* a client that pages as the policy says never ends past offset 10,000;
* a receipt job that runs again after its put writes other bytes under the same key;
* the page of a verification link shows every receipt as `INVALID`;
* a repaired attempt loses its source metadata;
* a person whose request was approved and whose grant was revoked can never ask
  again.

Smaller observations, which the models follow as well:

* Texts: a hyphen at the end of a line is not joined when the line ends in `\r\n`
  (`normalize.ts:52`), and a word broken at its own hyphen loses it. A passage with a hyphen
  before a page end gives the CLI other tokens than the page. The SDK's
  `passageProofHashes` is for plain text unless told otherwise.
* Lookups: `lookupKind: 'content'` looks for the candidates alone (`public-v1/routes.ts:2566`), so a
  single hash never matches. The SDK can send nothing else: `verifyHash` (`sdk/src/client.ts:428`)
  with that kind, as in its own `examples/verifier.ts:20-29`, is always answered "no match",
  also for a passage that was attested; without a kind it finds one window, when the method
  is the attestation's. `PassageFound` has all three. Other kinds look
  for the first candidate only; the rate limit is for sessions, not for API keys; each
  202 of a PDF adds another render job; the page calls unsigned results signed.
* Tables: the users' search and filter are shown only while some row matches; the category
  of audit events stays after a switch of the workspace, and filters its exports.
* Panel: opening another attestation clears the receipt's JSON, not its summary; a late
  receipt is shown beside another attestation; a batch moves the selection.
* Form: a file removed while the loop runs is submitted still; leaving the form allows a
  second loop beside the first; a release submitted right after an edit carries
  the hash before the edit.
* Packages: an older `missing-artifacts.json` fails `export check`; after a job expires, its
  derived idempotency key brings the same job back for ever.
* CLI: a rotation cut before its save loses the new key; two commands may lose each
  other's changes, or leave `config.json` torn.
* Verifier: a hash or verdict of earlier input may end late, and an edited hash keeps the
  verdict of the one before.
* Submissions: `invalid_source_metadata` cannot be reached behind the schema; a label that the
  SDK derives may be too long for the API.

## 8. Not modelled, and the plan

Left out of modelled components:

* acceptance of an invitation at registration, and renaming (`Membership`): the rows
  are those of the accept route, for a user who has none;
* caps on users and storage (`PlanLimits`): the first is a count like the others, the
  second looks at the request alone;
* the checks of a manifest (`ValidManifests` in `Attestation`), the verification of a
  device's signature (`Accepted` in `DesktopSession`): the model has the verdict;
* an update of a delivery to `delivered` that commits although its reply is lost, and so
  ends in the handler for failed requests (`webhook-delivery.ts:117`);
* in `DetailPanel` the effect that resolves the bundle of a receipt (`home.tsx:1303-1336`), which
  shows what is stored;
* in `EvidencePackage` the loop that waits for an export may ask once more than the code does,
  which only adds behaviour;
* the workspaces the server closes are in `DesktopSession`, not in `DesktopWindow`; an
  expired session, which clears the window's cache, is in neither of the two views
  at once.

Not modelled:

* the desktop's forms for members and organization, its help and layout; the
  dashboard's and the verifier's sign-in pages: they call routes that are modelled;
* `public-v1/openapi.ts`, the documentation pages, fixtures, seed data, smoke and
  walkthrough scripts, infrastructure: data and scripts;
* the CLI's commands that print what one call answers; how the SDK retries a call,
  beyond what `IdempotentWrite` says of a retry;
* reads that feed no guard: dashboards, statistics, the audit trail's views, the evidence
  manifest of an attestation;
* API keys' other routes, administration, onboarding: row-at-a-time changes, each
  guarded by one unique index or none, that no other part races with;
* canonical JSON, signatures, and what Tesseract and pdf.js read.

These are many lines, most of them markup and data. About 30 % of the
repository's implementation lines are behind a definition; what keeps state and runs
concurrently is behind one.

What could be proved next: `PassageFound` for documents of one paragraph, by the argument about the least number
that `Merkle` has, applied to the folds of `TextProofs`.

## 9. Running

    tlc -workers 2 -config MCAuditChain.cfg MCAuditChain.tla
    tlapm AttestationProofs.tla

Each run takes between a few seconds and five minutes (`MCPlatform` and `MCClients` are
the longest); the proofs of each module take between a quarter of a minute and a
few minutes.
