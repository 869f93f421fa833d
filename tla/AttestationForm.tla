--------------------------- MODULE AttestationForm ---------------------------
(***************************************************************************)
(* The form of the desktop for new attestations.  It hashes files in the   *)
(* window, or takes a hash, or builds the record of a model release and    *)
(* hashes that; and submits them one after the other, each by three        *)
(* requests.  Nothing stops a hashing or a submission under way: the user  *)
(* may choose other files, remove some, or leave the form and come back,   *)
(* while a loop goes on with what it was given.                            *)
(***************************************************************************)
EXTENDS ApiRequests, FiniteSets, Naturals

CONSTANTS
  Docs,      \* files, each standing for its hash
  Records,   \* versions of the record of a model release
  Titles     \* names of attestations, unique in the project

VARIABLES
  attested,    \* the attestations of the project
  entry,       \* hashMode
  rows,        \* attestationFiles: what the form shows of each file
  external,    \* externalHash
  record, recordHash,   \* modelReleaseForm, modelReleaseHash
  computing,   \* records whose hash is being computed
  outcome,     \* attestationResults
  hashingFiles, sending,   \* hashing, submittingAttestation
  \* where the form may say something else
  astray,      \* the user has left the form, or removed or replaced files, during a loop
  early        \* releases submitted while the hash of the record was being computed

formVars == <<attested, entry, rows, external, record, recordHash, computing, outcome,
              hashingFiles, sending, astray, early>>

Entries == {"file", "external", "release"}
Items == Docs \cup Records
\* a title in the place of a result is the attestation that was made
Result == Titles \cup {"refused"}
Attested == [of : Items, told : Items, state : {"created", "uploaded", "validating", "confirmed"}]

ASSUME FormConstantsOK ==
  /\ None \notin Items \cup Titles \cup Attested
  /\ Titles \cap {"refused", "absent", "hashing", "ready", "unreadable"} = {}

FormTask ==
  [step : {"hash"}, files : SUBSET Docs]
  \cup
  [step : {"create", "upload", "finalize"}, entry : Entries,
   todo : SUBSET Items, item : Items \cup {None}, told : Records \cup {None},
   title : UNION {[items -> Titles] : items \in SUBSET Items}]

FormTypeOK ==
  /\ attested \in [Titles -> Attested \cup {None}]
  /\ entry \in Entries
  /\ rows \in [Docs -> Result \cup {"absent", "hashing", "ready", "unreadable"}]
  /\ external \in Docs \cup {None}
  /\ record \in Records /\ recordHash \in Records \cup {None} /\ computing \subseteq Records
  /\ outcome \in Result \cup {None}
  /\ hashingFiles \in BOOLEAN /\ sending \in BOOLEAN /\ astray \in BOOLEAN
  /\ early \subseteq Titles

FormInit ==
  /\ attested = [n \in Titles |-> None]
  /\ entry = "file" /\ rows = [d \in Docs |-> "absent"] /\ external = None
  /\ record \in Records /\ recordHash = None /\ computing = {record}
  /\ outcome = None /\ hashingFiles = FALSE /\ sending = FALSE
  /\ astray = FALSE /\ early = {}

Listed == {d \in Docs : rows[d] # "absent"}
IsLoop(task) == task # None /\ task.step \in {"create", "upload", "finalize"}
Loops == {h \in Handlers : IsLoop(work[h])}

\* attestationSubmissionLocked, canSubmitAttestation
Locked == sending \/ outcome # None \/ \E d \in Docs : rows[d] \in Result
CanSubmit ==
  /\ ~hashingFiles /\ ~Locked
  /\ CASE entry = "file" -> Listed # {} /\ \A d \in Listed : rows[d] = "ready"
       [] entry = "external" -> external # None
       [] entry = "release" -> recordHash # None

-----------------------------------------------------------------------------
(* Input                                                                    *)

\* selectAttestationFiles, by the file input or a drop
SelectFiles(h, files) ==
  /\ entry = "file" /\ work[h] = None
  /\ rows' = [d \in Docs |-> IF d \in files THEN "hashing" ELSE "absent"]
  /\ outcome' = None
  /\ IF files = {}
       THEN UNCHANGED <<work, hashingFiles>>
       ELSE Begin(h, [step |-> "hash", files |-> files]) /\ hashingFiles' = TRUE
  /\ astray' = (astray \/ Loops # {})
  /\ UNCHANGED <<attested, entry, external, record, recordHash, computing, sending, early>>

\* all are hashed: the rows are these files, whatever they have become meanwhile
FilesHashed(h, unreadable) ==
  /\ At(h, "hash") /\ unreadable \subseteq work[h].files
  /\ rows' = [d \in Docs |-> CASE d \in unreadable -> "unreadable"
                                [] d \in work[h].files \ unreadable -> "ready"
                                [] OTHER -> "absent"]
  /\ hashingFiles' = FALSE
  /\ Finish(h)
  /\ astray' = (astray \/ Loops # {})
  /\ UNCHANGED <<attested, entry, external, record, recordHash, computing, outcome, sending,
                 early>>

RemoveFile(d) ==
  /\ entry = "file" /\ d \in Listed
  /\ rows' = [rows EXCEPT ![d] = "absent"]
  /\ astray' = (astray \/ Loops # {})
  /\ UNCHANGED <<work, attested, entry, external, record, recordHash, computing, outcome,
                 hashingFiles, sending, early>>

\* the button of "file" clears nothing
ChooseEntry(e) ==
  /\ e # entry
  /\ entry' = e
  /\ IF e = "file"
       THEN UNCHANGED <<rows, outcome>>
       ELSE rows' = [d \in Docs |-> "absent"] /\ outcome' = None
  /\ external' = IF e = "release" THEN None ELSE external
  /\ astray' = (astray \/ Loops # {})
  /\ UNCHANGED <<work, attested, record, recordHash, computing, hashingFiles, sending, early>>

TypeHash(d) ==
  /\ entry = "external"
  /\ external' = d
  /\ UNCHANGED <<work, attested, entry, rows, record, recordHash, computing, outcome,
                 hashingFiles, sending, astray, early>>

\* a field of the record, or the hashes that are generated; the hash of the last
\* record is computed no further
EditRecord(r) ==
  /\ entry = "release" /\ r # record
  /\ record' = r
  /\ computing' = {r}
  /\ UNCHANGED <<work, attested, entry, rows, external, recordHash, outcome, hashingFiles,
                 sending, astray, early>>

RecordHashed(r) ==
  /\ r \in computing
  /\ recordHash' = r
  /\ computing' = computing \ {r}
  /\ UNCHANGED <<work, attested, entry, rows, external, record, outcome, hashingFiles,
                 sending, astray, early>>

\* resetNewAttestationForm: of a release, the record stays
Reset ==
  /\ entry' = "file" /\ rows' = [d \in Docs |-> "absent"] /\ external' = None
  /\ outcome' = None /\ hashingFiles' = FALSE /\ sending' = FALSE
  /\ astray' = (astray \/ Loops # {})
  /\ UNCHANGED <<work, attested, record, recordHash, computing, early>>

Leave == Reset

-----------------------------------------------------------------------------
(* submitAttestation, and createWholeFile in main                           *)

ToSend == CASE entry = "file" -> Listed
            [] entry = "external" -> {external}
            [] entry = "release" -> {recordHash}

\* title: the names typed; the loop keeps what the form shows when it begins
SubmitForm(h, title) ==
  /\ CanSubmit
  /\ Begin(h, [step |-> "create", entry |-> entry, todo |-> ToSend, item |-> None,
               told |-> IF entry = "release" THEN record ELSE None,
               title |-> title])
  /\ sending' = TRUE /\ outcome' = None
  /\ early' = early \cup (IF entry = "release" /\ computing # {}
                            THEN {title[recordHash]} ELSE {})
  /\ UNCHANGED <<attested, entry, rows, external, record, recordHash, computing,
                 hashingFiles, astray>>

\* mutant: the result is set on every row
AllMarked(d, result) == [e \in Docs |-> IF e \in Listed THEN result ELSE rows[e]]

\* the result is set on the row with the id of the submission, if it is there
Marked(d, result) == [rows EXCEPT ![d] = IF d \in Listed THEN result ELSE @]

\* the item is done: the next one, or the end of the loop
Done(h, item, result) ==
  LET t == work[h]
      left == t.todo \ {item}
  IN  /\ IF t.entry = "file"
           THEN rows' = Marked(item, result) /\ UNCHANGED outcome
           ELSE outcome' = result /\ UNCHANGED rows
      /\ IF left = {}
           THEN Finish(h) /\ sending' = FALSE
                /\ astray' = (astray /\ Loops # {h})
           ELSE Continue(h, [t EXCEPT !.step = "create", !.todo = left, !.item = None])
                /\ UNCHANGED <<sending, astray>>

\* the answer comes, or is lost after the request was served
Answered(h, item, lost, step) ==
  IF lost THEN Done(h, item, "refused")
          ELSE /\ Continue(h, [work[h] EXCEPT !.step = step, !.item = item])
               /\ UNCHANGED <<rows, outcome, sending, astray>>

formInput == <<entry, external, record, recordHash, computing, hashingFiles, early>>

\* POST attestations; label_taken when the project has the name
Create(h, item, lost) ==
  LET t == work[h]
      n == t.title[item]
  IN  /\ At(h, "create") /\ item \in t.todo
      /\ IF attested[n] # None
           THEN Done(h, item, "refused") /\ UNCHANGED attested
           ELSE /\ attested' = [attested EXCEPT ![n] =
                     [of |-> item, told |-> IF t.told = None THEN item ELSE t.told,
                      state |-> "created"]]
                /\ Answered(h, item, lost, "upload")
      /\ UNCHANGED formInput

\* POST upload-manifest
Upload(h, lost) ==
  LET t == work[h]
  IN  /\ At(h, "upload")
      /\ attested' = [attested EXCEPT ![t.title[t.item]].state = "uploaded"]
      /\ Answered(h, t.item, lost, "finalize")
      /\ UNCHANGED formInput

\* POST finalize
Finalize(h, lost) ==
  LET t == work[h]
      n == t.title[t.item]
  IN  /\ At(h, "finalize")
      /\ attested' = [attested EXCEPT ![n].state = "validating"]
      /\ Done(h, t.item, IF lost THEN "refused" ELSE n)
      /\ UNCHANGED formInput

\* the request of the step is refused, or does not reach the API
CallFails(h) ==
  /\ IsLoop(work[h])
  /\ \E item \in IF work[h].item = None THEN work[h].todo ELSE {work[h].item} :
       Done(h, item, "refused")
  /\ UNCHANGED attested /\ UNCHANGED formInput

\* the worker
Confirm(n) ==
  /\ attested[n] # None /\ attested[n].state = "validating"
  /\ attested' = [attested EXCEPT ![n].state = "confirmed"]
  /\ UNCHANGED <<work, entry, rows, external, record, recordHash, computing, outcome,
                 hashingFiles, sending, astray, early>>

-----------------------------------------------------------------------------
(* The effect that opens the detail when the batch is confirmed             *)

\* expectedSubmissionCount: for a release, none
Expected ==
  IF entry = "file" THEN Cardinality(Listed) ELSE IF external # None THEN 1 ELSE 0

Succeeded == {d \in Docs : rows[d] \in Titles}
AllConfirmed ==
  \A n \in ({rows[d] : d \in Docs} \cup {outcome}) \cap Titles : attested[n].state = "confirmed"

OpenConfirmed ==
  LET successes == Cardinality(Succeeded) + IF outcome \in Titles THEN 1 ELSE 0
  IN  /\ successes > 0 /\ successes = Expected
      /\ AllConfirmed
      /\ Reset

-----------------------------------------------------------------------------
FormNext ==
  \/ \E h \in Handlers :
       \/ \E files \in SUBSET Docs : SelectFiles(h, files) \/ FilesHashed(h, files)
       \/ \E title \in [ToSend -> Titles] : SubmitForm(h, title)
       \/ \E lost \in BOOLEAN :
            \/ \E item \in Items : Create(h, item, lost)
            \/ Upload(h, lost) \/ Finalize(h, lost)
       \/ CallFails(h)
  \/ \E d \in Docs : RemoveFile(d) \/ TypeHash(d)
  \/ \E e \in Entries : ChooseEntry(e)
  \/ \E r \in Records : EditRecord(r) \/ RecordHashed(r)
  \/ Leave \/ OpenConfirmed
  \/ \E n \in Titles : Confirm(n)

-----------------------------------------------------------------------------
\* A file that the form shows as submitted has been: the attestation of its result
\* commits to this file, although others were chosen, hashed late, removed or left
\* to a loop meanwhile.  While a loop sends, the form can send nothing else, unless
\* the user has left it or changed its files.  And a release is told with its own
\* record, unless it was submitted in the moment its hash was computed.
SentAsShown ==
  /\ \A d \in Succeeded :
       attested[rows[d]].of = d /\ attested[rows[d]].state \in {"validating", "confirmed"}
  /\ Loops # {} /\ ~astray => sending
  /\ \A n \in Titles \ early : attested[n] # None => attested[n].told = attested[n].of
=============================================================================
