-------------------------- MODULE EvidencePackage --------------------------
(***************************************************************************)
(* An evidence package on disk: what export collect, bundle and unpack     *)
(* write into one folder, file after file, and what export check asks of   *)
(* it.  The folder may hold an older package, and a command may be cut     *)
(* between any two files.                                                  *)
(*                                                                         *)
(* The idempotency key of an export is derived from its filters, so a      *)
(* filter has one job: posting it again returns the first.                 *)
(***************************************************************************)
EXTENDS ApiRequests, FiniteSets, FiniteSetsExt, Integers

CONSTANTS
  Filters,    \* request bodies, each with its export job
  Artifacts,  \* paths of artifacts
  Sizes,      \* contents of artifacts, told apart by their sizes
  Missing,    \* no object under the key: listed among missingArtifacts
  MaxPolls    \* EXPORT_COLLECT_MAX_POLLS

ASSUME PackageConstantsOK == Sizes \subseteq Nat /\ Missing \notin Sizes /\ MaxPolls \in Nat

VARIABLES
  export,   \* the export job of each filter
  folder,   \* the files in the folder
  \* what a reader of the folder may rely on
  met,      \* commands during which another wrote into the folder
  whole     \* the last command that wrote into it was alone and came to its end

packageVars == <<export, folder, met, whole>>

\* the manifest names artifacts; the bundle has those that were found
Bundle == UNION {[named -> Sizes \cup {Missing}] : named \in SUBSET Artifacts}
Job == [status : {"queued", "completed", "failed", "expired"},
        named  : SUBSET Artifacts, bundle : Bundle \cup {None}]
Fetched == [of : Filters, entries : Bundle]

ASSUME PackageAssumption == None \notin Job \cup Fetched

Folder ==
  [manifest : Filters \cup {None},             \* manifest.json
   bundle   : Fetched \cup {None},             \* bundle.json
   artifact : [Artifacts -> Sizes \cup {None}],
   missing  : (SUBSET Artifacts) \cup {None},    \* missing-artifacts.json
   summary  : Fetched \cup {None}]             \* summary.json: counts of this bundle

PackageTask ==
  [command : {"collect", "bundle", "unpack"},
   step    : {"post", "poll", "manifest", "fetch", "unpack", "artifacts", "missing",
              "summary", "close"},
   filter  : Filters, polls : 0..MaxPolls,
   bundle  : Fetched \cup {None}, todo : SUBSET Artifacts]

PackageTypeOK ==
  /\ export \in [Filters -> Job \cup {None}]
  /\ folder \in Folder
  /\ met \subseteq Handlers /\ whole \in BOOLEAN

PackageInit ==
  /\ export = [x \in Filters |-> None]
  /\ folder = [manifest |-> None, bundle |-> None, artifact |-> [a \in Artifacts |-> None],
               missing |-> None, summary |-> None]
  /\ met = {} /\ whole = FALSE

-----------------------------------------------------------------------------
(* The server: a job and its bundle                                         *)

Build(x, entries) ==
  /\ export[x] # None /\ export[x].status \in {"queued", "completed"}
  /\ entries \in [export[x].named -> Sizes \cup {Missing}]
  /\ export' = [export EXCEPT ![x].status = "completed", ![x].bundle = entries]
  /\ UNCHANGED <<work, folder, met, whole>>

EndJob(x, status) ==
  /\ export[x] # None
  /\ \/ status = "failed" /\ export[x].status = "queued"
     \/ status = "expired" /\ export[x].status = "completed"
  /\ export' = [export EXCEPT ![x].status = status, ![x].bundle = None]
  /\ UNCHANGED <<work, folder, met, whole>>

-----------------------------------------------------------------------------
(* The commands                                                             *)

Found(entries) == {a \in DOMAIN entries : entries[a] # Missing}
Absent(entries) == {a \in DOMAIN entries : entries[a] = Missing}

StartPackage(h, command, step, x, fetched) ==
  Begin(h, [command |-> command, step |-> step, filter |-> x, polls |-> 0,
            bundle |-> fetched, todo |-> {}])

\* export collect with a filter
Collect(h, x) ==
  /\ StartPackage(h, "collect", "post", x, None)
  /\ UNCHANGED packageVars

\* export bundle of a job, into bundle.json of the folder
DownloadBundle(h, x) ==
  /\ export[x] # None
  /\ StartPackage(h, "bundle", "fetch", x, None)
  /\ UNCHANGED packageVars

\* export unpack of bundle.json, into the same folder
Unpack(h) ==
  /\ folder.bundle # None
  /\ StartPackage(h, "unpack", "unpack", folder.bundle.of, folder.bundle)
  /\ UNCHANGED packageVars

\* h is done with the folder
Away(h) == Finish(h) /\ met' = met \ {h}
Proceed(h, step) == Continue(h, [work[h] EXCEPT !.step = step])

\* POST: the manifest names what there is; a known filter has its stored answer
PostExport(h, named) ==
  LET x == work[h].filter
  IN  /\ At(h, "post")
      /\ export' = IF export[x] = None
                     THEN [export EXCEPT ![x] = [status |-> "queued", named |-> named,
                                                 bundle |-> None]]
                     ELSE export
      /\ Proceed(h, "poll")
      /\ UNCHANGED <<folder, met, whole>>

\* mutant: once more than EXPORT_COLLECT_MAX_POLLS
OncePollTooOften(t) == t.polls <= MaxPolls

PollsLeft(t) == t.polls < MaxPolls

\* wait_for_export_job: an expired job is waited for like one that is still built
Poll(h) ==
  LET status == export[work[h].filter].status
  IN  /\ At(h, "poll")
      /\ IF status = "completed"
           THEN Continue(h, [work[h] EXCEPT !.step = "manifest", !.polls = 0]) /\ UNCHANGED met
         ELSE IF status = "failed" \/ ~PollsLeft(work[h]) THEN Away(h)
         ELSE Continue(h, [work[h] EXCEPT !.polls = @ + 1]) /\ UNCHANGED met
      /\ UNCHANGED <<export, folder, whole>>

\* h writes into the folder
Writes(h, files) ==
  /\ folder' = files
  /\ whole' = FALSE
  /\ met' = met \cup {o \in Handlers \ {h} : work[o] # None}
  /\ UNCHANGED export

WriteManifest(h) ==
  /\ At(h, "manifest")
  /\ Writes(h, [folder EXCEPT !.manifest = work[h].filter])
  /\ Proceed(h, "fetch")

\* 404 when the bundle is not there
FetchBundle(h) ==
  LET x == work[h].filter
      fetched == [of |-> x, entries |-> export[x].bundle]
  IN  /\ At(h, "fetch")
      /\ IF export[x].bundle = None
           THEN /\ Away(h)
                /\ UNCHANGED <<export, folder, whole>>
           ELSE /\ Writes(h, [folder EXCEPT !.bundle = fetched])
                /\ Continue(h, [work[h] EXCEPT
                     !.step = IF work[h].command = "bundle" THEN "close" ELSE "unpack",
                     !.bundle = fetched])

\* unpack_evidence_bundle: the manifest, every artifact, the list of the missing ones
UnpackManifest(h) ==
  /\ At(h, "unpack")
  /\ Writes(h, [folder EXCEPT !.manifest = work[h].bundle.of])
  /\ Continue(h, [work[h] EXCEPT !.step = "artifacts",
                                 !.todo = Found(work[h].bundle.entries)])

WriteArtifact(h, a) ==
  /\ At(h, "artifacts") /\ a \in work[h].todo
  /\ Writes(h, [folder EXCEPT !.artifact[a] = work[h].bundle.entries[a]])
  /\ Continue(h, [work[h] EXCEPT !.todo = @ \ {a}])

AfterUnpack(t) == IF t.command = "collect" THEN "summary" ELSE "close"

\* mutant: the missing artifacts are not listed
ListNothing(h) ==
  /\ At(h, "artifacts") /\ work[h].todo = {}
  /\ Writes(h, folder)
  /\ Proceed(h, AfterUnpack(work[h]))

\* when nothing is missing, no list is written, and one that is there stays
ListMissing(h) ==
  LET absent == Absent(work[h].bundle.entries)
  IN  /\ At(h, "artifacts") /\ work[h].todo = {}
      /\ Writes(h, IF absent # {} THEN [folder EXCEPT !.missing = absent] ELSE folder)
      /\ Proceed(h, AfterUnpack(work[h]))

WriteSummary(h) ==
  /\ At(h, "summary")
  /\ Writes(h, [folder EXCEPT !.summary = work[h].bundle])
  /\ Proceed(h, "close")

Close(h) ==
  /\ At(h, "close")
  /\ whole' = (h \notin met /\ work[h].command # "bundle")
  /\ Away(h)
  /\ UNCHANGED <<export, folder>>

CutPackage(h) ==
  /\ Cut(h) /\ Away(h)
  /\ UNCHANGED <<export, folder, whole>>

-----------------------------------------------------------------------------
(* export check of the folder                                               *)

\* inspect_evidence_bundle: how many, how many missing, how many bytes
Inspection(entries) ==
  [artifacts |-> Cardinality(Found(entries)),
   missing   |-> Cardinality(Absent(entries)),
   bytes     |-> MapThenSumSet(LAMBDA a : entries[a], Found(entries))]

MissingListChecks(entries) ==
  IF Absent(entries) = {}
    THEN folder.missing \in {None, {}}
    ELSE folder.missing = Absent(entries)

SummaryChecks(entries) ==
  folder.summary # None => Inspection(folder.summary.entries) = Inspection(entries)

\* check_evidence_export_directory
Checks ==
  /\ folder.bundle # None
  /\ folder.manifest = folder.bundle.of
  /\ LET entries == folder.bundle.entries
     IN  /\ \A a \in Found(entries) : folder.artifact[a] = entries[a]
         /\ MissingListChecks(entries)
         /\ SummaryChecks(entries)

-----------------------------------------------------------------------------
PackageNext ==
  \/ \E x \in Filters :
       \/ \E entries \in Bundle : Build(x, entries)
       \/ \E status \in {"failed", "expired"} : EndJob(x, status)
       \/ \E h \in Handlers : Collect(h, x) \/ DownloadBundle(h, x)
  \/ \E h \in Handlers :
       \/ Unpack(h)
       \/ \E named \in SUBSET Artifacts : PostExport(h, named)
       \/ Poll(h)
       \/ WriteManifest(h) \/ FetchBundle(h) \/ UnpackManifest(h)
       \/ \E a \in Artifacts : WriteArtifact(h, a)
       \/ ListMissing(h) \/ WriteSummary(h)
       \/ Close(h) \/ CutPackage(h)

\* A package that a command has written to its end, with no other command writing
\* meanwhile, passes export check, whatever older, half-written or other package
\* was in the folder before.  Two leftovers are in the way: a list of missing
\* artifacts when nothing is missing now, and the summary of another bundle, which
\* unpack does not replace.
PackageChecks ==
  whole => \/ Checks
           \/ Absent(folder.bundle.entries) = {} /\ folder.missing # None
           \/ folder.summary # None /\ folder.summary # folder.bundle
=============================================================================
