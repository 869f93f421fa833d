--------------------------- MODULE EvidenceExport ---------------------------
(***************************************************************************)
(* Evidence exports of one tenant: the export_jobs rows, the queue and the *)
(* workers that build a bundle for each, the bundles in the object store,  *)
(* and the cleanup of expired bundles that administrators start.  Exports  *)
(* are created by dashboard requests and, under an Idempotency-Key, by     *)
(* public API requests.                                                    *)
(*                                                                         *)
(* The bundle of a job has one key, so a second run puts it again.  Every  *)
(* update of a row is by its id; only the cleanup looks at what it changes.*)
(***************************************************************************)
EXTENDS IdempotentWrite

CONSTANTS
  Jobs,       \* the rows that are export_jobs
  Workers,    \* builds that may run at the same time
  Cleaners,   \* cleanup requests that may run at the same time
  MaxTries,   \* attempts of a queue job
  MaxStalls,  \* BullMQ maxStalledCount
  MaxFaults   \* bound: worker faults (reject, crash, lost lock)

ASSUME ExportConstantsOK ==
  /\ Jobs \subseteq Rows
  /\ None \notin Workers
  /\ MaxTries \in Nat \ {0}
  /\ {MaxStalls, MaxFaults} \subseteq Nat

VARIABLES
  export,   \* export_jobs
  expired,  \* jobs whose expires_at has passed
  bundles,  \* jobs whose bundle is in the object store
  job,      \* the queue job of each row
  builder,  \* processEvidenceExportJob in each worker
  cleaner,  \* cleanupExpiredEvidenceExports in each request
  stray,    \* jobs of which a run was cut short after it put the bundle, before the
            \* row named it, or put it back between the two writes of a cleanup
  faults    \* worker faults that happened

objects == <<export, bundles>>
exportVars == <<objects, expired, job, builder, cleaner, stray, faults>>
vars == <<idemVars, exportVars>>

ExportRow ==
  [status : {"absent", "queued", "processing", "completed", "failed", "expired"},
   named  : BOOLEAN]    \* result_object_key is set
NoExport == [status |-> "absent", named |-> FALSE]

QueueJob ==
  [status : {"none", "waiting", "active", "done", "failed"},
   owner  : Workers \cup {None},
   made   : 0..MaxTries - 1,    \* attemptsMade
   stalls : 0..MaxStalls]       \* stalledCounter, kept when the job ends
NoJob == [status |-> "none", owner |-> None, made |-> 0, stalls |-> 0]

Builder ==
  [step : {"idle", "reopen", "put", "complete", "catch", "throw", "return"},
   job  : Jobs \cup {None},
   try  : 0..MaxTries]          \* attemptNumber
IdleBuilder == [step |-> "idle", job |-> None, try |-> 0]

Cleaner == [todo : SUBSET Jobs, deleted : Jobs \cup {None}]
IdleCleaner == [todo |-> {}, deleted |-> None]

TypeOK ==
  /\ IdemTypeOK
  /\ export \in [Jobs -> ExportRow]
  /\ expired \subseteq Jobs
  /\ bundles \subseteq Jobs
  /\ job \in [Jobs -> QueueJob]
  /\ builder \in [Workers -> Builder]
  /\ cleaner \in [Cleaners -> Cleaner]
  /\ stray \subseteq Jobs
  /\ faults \in 0..MaxFaults

Init ==
  /\ IdemInit
  /\ export = [x \in Jobs |-> NoExport]
  /\ expired = {}
  /\ bundles = {}
  /\ job = [x \in Jobs |-> NoJob]
  /\ builder = [w \in Workers |-> IdleBuilder]
  /\ cleaner = [c \in Cleaners |-> IdleCleaner]
  /\ stray = {}
  /\ faults = 0

-----------------------------------------------------------------------------
(* The API: create an export, enqueue it                                    *)

\* a dashboard request carries no key
BeginDashboardExport(r) ==
  /\ request[r] = IdleRequest
  /\ request' = [request EXCEPT ![r].step = "insert"]
  /\ UNCHANGED <<row, replay, answers, deaths, exportVars>>

CreateDashboardExport(r, x) ==
  /\ request[r].key = None
  /\ Insert(r, "exports", x)

\* the row is committed as queued before its job is added
CreateExport(r, x) ==
  /\ CreateDashboardExport(r, x) \/ CreatePublicExport(r, x)
  /\ export' = [export EXCEPT ![x] = [status |-> "queued", named |-> FALSE]]
  /\ UNCHANGED <<bundles, expired, job, builder, cleaner, stray, faults>>

EnqueueExport(r) ==
  /\ Announce(r)
  /\ job' = [job EXCEPT ![request[r].row].status = "waiting"]
  /\ UNCHANGED <<objects, expired, builder, cleaner, stray, faults>>

\* EXPORT_JOB_RETENTION_DAYS go by
Expire(x) ==
  /\ export[x].status # "absent"
  /\ x \notin expired
  /\ expired' = expired \cup {x}
  /\ UNCHANGED <<idemVars, objects, job, builder, cleaner, stray, faults>>

-----------------------------------------------------------------------------
(* The worker: evidence-export (processEvidenceExportJob)                   *)

NextBuild(w, step) == builder' = [builder EXCEPT ![w].step = step]

\* the row is read; what it says does not matter
BeginBuild(w, x) ==
  /\ builder[w] = IdleBuilder
  /\ job[x].status = "waiting"
  /\ job' = [job EXCEPT ![x] = [@ EXCEPT !.status = "active", !.owner = w]]
  /\ builder' = [builder EXCEPT ![w] = [step |-> "reopen", job |-> x, try |-> job[x].made + 1]]
  /\ UNCHANGED <<idemVars, objects, expired, cleaner, stray, faults>>

SetStatus(w, status) == export' = [export EXCEPT ![builder[w].job].status = status]

\* unconditional: a row that was completed or expired is reopened
SetProcessing(w) ==
  /\ builder[w].step = "reopen"
  /\ SetStatus(w, "processing")
  /\ NextBuild(w, "put")
  /\ UNCHANGED <<idemVars, bundles, expired, job, cleaner, stray, faults>>

\* mutant: the row names the bundle before it is stored
NameBeforePut(w) ==
  /\ builder[w].step = "put"
  /\ export' = [export EXCEPT ![builder[w].job].named = TRUE]
  /\ NextBuild(w, "complete")
  /\ UNCHANGED <<idemVars, bundles, expired, job, cleaner, stray, faults>>

\* the artifacts the manifest names are read, those missing are listed as such,
\* and the bundle is put under the key of the job
PutBundle(w) ==
  /\ builder[w].step = "put"
  /\ bundles' = bundles \cup {builder[w].job}
  /\ stray' = IF \E c \in Cleaners : cleaner[c].deleted = builder[w].job
                THEN stray \cup {builder[w].job}
                ELSE stray
  /\ NextBuild(w, "complete")
  /\ UNCHANGED <<idemVars, export, expired, job, cleaner, faults>>

CompleteExport(w) ==
  /\ builder[w].step = "complete"
  /\ export' = [export EXCEPT ![builder[w].job] = [status |-> "completed", named |-> TRUE]]
  /\ NextBuild(w, "return")
  /\ UNCHANGED <<idemVars, bundles, expired, job, cleaner, stray, faults>>

CutShort(w) ==
  stray' = IF builder[w].step = "complete" THEN stray \cup {builder[w].job} ELSE stray

\* a read, the put or the update inside the try block rejects
BuildRejects(w) ==
  /\ builder[w].step \in {"put", "complete"}
  /\ faults < MaxFaults
  /\ faults' = faults + 1
  /\ CutShort(w)
  /\ NextBuild(w, "catch")
  /\ UNCHANGED <<idemVars, objects, expired, job, cleaner>>

FinalTry(w) == builder[w].try >= MaxTries

\* mutant: the last try leaves the row queued for another
NeverFinal(w) ==
  /\ builder[w].step = "catch"
  /\ SetStatus(w, "queued")
  /\ NextBuild(w, IF FinalTry(w) THEN "return" ELSE "throw")
  /\ UNCHANGED <<idemVars, bundles, expired, job, cleaner, stray, faults>>

\* status, progress and error are set; the key of an earlier bundle stays
RecordFailure(w) ==
  /\ builder[w].step = "catch"
  /\ SetStatus(w, IF FinalTry(w) THEN "failed" ELSE "queued")
  /\ NextBuild(w, IF FinalTry(w) THEN "return" ELSE "throw")
  /\ UNCHANGED <<idemVars, bundles, expired, job, cleaner, stray, faults>>

Ended(j, status) == [NoJob EXCEPT !.status = status, !.stalls = j.stalls]

Retried(j) ==
  IF j.made + 1 < MaxTries
    THEN [j EXCEPT !.status = "waiting", !.owner = None, !.made = j.made + 1]
    ELSE Ended(j, "failed")

\* a job whose lock was lost is not touched by the run that lost it
EndBuild(w, j) ==
  /\ job' = [job EXCEPT ![builder[w].job] = IF @.owner = w THEN j ELSE @]
  /\ builder' = [builder EXCEPT ![w] = IdleBuilder]
  /\ UNCHANGED <<idemVars, objects, expired, cleaner>>

RethrowFailure(w) ==
  /\ builder[w].step = "throw"
  /\ EndBuild(w, Retried(job[builder[w].job]))
  /\ UNCHANGED <<stray, faults>>

ReturnResult(w) ==
  /\ builder[w].step = "return"
  /\ EndBuild(w, Ended(job[builder[w].job], "done"))
  /\ UNCHANGED <<stray, faults>>

\* the read or an update outside the try block rejects
BuildThrows(w) ==
  /\ builder[w].step \in {"reopen", "catch"}
  /\ faults < MaxFaults
  /\ faults' = faults + 1
  /\ EndBuild(w, Retried(job[builder[w].job]))
  /\ UNCHANGED stray

Unlocked(j) ==
  IF j.stalls < MaxStalls
    THEN [j EXCEPT !.status = "waiting", !.owner = None, !.stalls = j.stalls + 1]
    ELSE Ended(j, "failed")

\* the lock expires while the run goes on
LoseLock(x) ==
  /\ job[x].status = "active"
  /\ faults < MaxFaults
  /\ faults' = faults + 1
  /\ job' = [job EXCEPT ![x] = Unlocked(job[x])]
  /\ UNCHANGED <<idemVars, objects, expired, builder, cleaner, stray>>

Crash(w) ==
  /\ builder[w] # IdleBuilder
  /\ faults < MaxFaults
  /\ faults' = faults + 1
  /\ CutShort(w)
  /\ builder' = [builder EXCEPT ![w] = IdleBuilder]
  /\ job' = [x \in Jobs |-> IF job[x].owner = w THEN Unlocked(job[x]) ELSE job[x]]
  /\ UNCHANGED <<idemVars, objects, expired, cleaner>>

-----------------------------------------------------------------------------
(* cleanupExpiredEvidenceExports.  Rows the code creates are all to be      *)
(* deleted after they expire.                                               *)

\* mutant: every job that has a bundle is a candidate
AnyNamed == {x \in Jobs : export[x].named}

Candidates == {x \in Jobs : x \in expired /\ export[x].named}

BeginCleanup(c) ==
  /\ cleaner[c] = IdleCleaner
  /\ Candidates # {}
  /\ cleaner' = [cleaner EXCEPT ![c].todo = Candidates]
  /\ UNCHANGED <<idemVars, objects, expired, job, builder, stray, faults>>

DeleteBundle(c, x) ==
  /\ cleaner[c].deleted = None
  /\ x \in cleaner[c].todo
  /\ bundles' = bundles \ {x}
  /\ stray' = stray \ {x}
  /\ cleaner' = [cleaner EXCEPT ![c].deleted = x]
  /\ UNCHANGED <<idemVars, export, expired, job, builder, faults>>

\* only a row that still has the key is updated
ExpireRow(c) ==
  LET x == cleaner[c].deleted
  IN  /\ x # None
      /\ export' = IF export[x].named
                     THEN [export EXCEPT ![x] = [status |-> "expired", named |-> FALSE]]
                     ELSE export
      /\ cleaner' = [cleaner EXCEPT ![c] = [todo |-> @.todo \ {x}, deleted |-> None]]
      /\ UNCHANGED <<idemVars, bundles, expired, job, builder, stray, faults>>

\* the process stops, or deleteObject or an update rejects
CleanupDies(c) ==
  /\ cleaner[c] # IdleCleaner
  /\ deaths < MaxDeaths
  /\ deaths' = deaths + 1
  /\ cleaner' = [cleaner EXCEPT ![c] = IdleCleaner]
  /\ UNCHANGED <<row, replay, request, answers, objects, expired, job, builder, stray, faults>>

-----------------------------------------------------------------------------
ExportKeys == {k \in Keys : RouteOf[k] = "exports"}

\* the part of a public request that touches nothing but the keys
KeyStep(r) ==
  \/ \E k \in ExportKeys, b \in Bodies : ReplayStored(r, k, b) \/ BeginWrite(r, k, b)
  \/ StoreReplay(r)
  \/ Refuse(r)
  \/ RequestDies(r)

ExportStep(r) ==
  \/ BeginDashboardExport(r)
  \/ \E x \in Jobs : CreateExport(r, x)
  \/ EnqueueExport(r)

BuilderStep(w) ==
  \/ \E x \in Jobs : BeginBuild(w, x)
  \/ SetProcessing(w)
  \/ PutBundle(w)
  \/ CompleteExport(w)
  \/ RecordFailure(w)
  \/ RethrowFailure(w)
  \/ ReturnResult(w)

CleanerStep(c) ==
  \/ BeginCleanup(c)
  \/ \E x \in Jobs : DeleteBundle(c, x)
  \/ ExpireRow(c)

Fault ==
  \/ \E w \in Workers : BuildRejects(w) \/ BuildThrows(w) \/ Crash(w)
  \/ \E x \in Jobs : LoseLock(x)
  \/ \E c \in Cleaners : CleanupDies(c)

Next ==
  \/ \E r \in Requests : (KeyStep(r) /\ UNCHANGED exportVars) \/ ExportStep(r)
  \/ \E x \in Jobs : Expire(x)
  \/ \E w \in Workers : BuilderStep(w)
  \/ \E c \in Cleaners : CleanerStep(c)
  \/ Fault

Spec == Init /\ [][Next]_vars

\* an idle worker takes waiting jobs and its awaits resume; nobody has to ask
\* for a cleanup
FairSpec == Spec /\ \A w \in Workers : WF_vars(BuilderStep(w))

-----------------------------------------------------------------------------
NamedBundleExists == \A x \in Jobs : export[x].named /\ x \notin expired => x \in bundles

\* a bundle that its row does not name
OrphansExplained ==
  \A x \in bundles :
    \/ export[x].named
    \/ x \in stray
    \/ \E w \in Workers : builder[w].job = x /\ builder[w].step = "complete"

\* Until it expires, a bundle that its row names can be downloaded, whatever is
\* run again, fails late or is cleaned up meanwhile.  One that no row names is never
\* cleaned up: there is one only while a run is about to name it, after a run was cut
\* short before it could, or after a run put it back between the two writes of a cleanup.
BundlesMatchRows == NamedBundleExists /\ OrphansExplained

\* An export whose job was added, and whose lock is never lost, is completed or
\* failed in the end, or its job is in the failed set: since a job never goes
\* back to "none", it is enough that this is so again and again.
ExportSettles ==
  \A x \in Jobs :
    []<>(\/ job[x].status \in {"none", "failed"}
         \/ job[x].stalls > 0
         \/ export[x].status \in {"completed", "failed", "expired"})

=============================================================================
