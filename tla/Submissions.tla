---------------------------- MODULE Submissions ----------------------------
(***************************************************************************)
(* What the two channels accept, what they make of it, and what is shown   *)
(* of it.  The public channel checks a body and builds the manifest; a     *)
(* desktop builds and signs its own, which nobody looks at before the      *)
(* worker does.  In between plans change, devices are revoked and failed   *)
(* attestations are repaired.                                              *)
(***************************************************************************)
EXTENDS ApiRequests, SequencesExt

CONSTANTS
  Contents,   \* digests of files and of provenance records
  Windows,    \* digests of windows of a text
  Slots,      \* attestation rows
  Names,      \* labels
  Large       \* files beyond the storage cap of the free plan

ASSUME LargeAssumption == Large \subseteq Contents

VARIABLES
  submission,      \* attestation and submission_attempts rows
  tenantPlan,      \* tenants.plan
  deviceRevoked,   \* devices.revoked_at of the desktop
  uploading        \* what the desktop's createWholeFile is about to do

submissionVars == <<submission, tenantPlan, deviceRevoked, uploading>>

-----------------------------------------------------------------------------
\* labels, digests and records, as somebody wrote them

\* odd: characters the device channel refuses; long and longest: beyond what the device
\* channel, and the public one, take
Label == [name : Names, form : {"plain", "padded", "odd", "blank", "long", "longest"}]
Digest == [of : Contents, form : {"plain", "upper", "odd", "short"}]
TrimLabel(l) == IF l.form = "padded" THEN [l EXCEPT !.form = "plain"] ELSE l
NormalizeSha256(d) == IF d.form = "upper" THEN [d EXCEPT !.form = "plain"] ELSE d

\* the kinds of fields a record has: required texts, digests and counts, and remarks
FieldsOf ==
  [model_release     |-> {"text", "hash", "remark"},
   dataset_inventory |-> {"text", "hash", "count", "remark"},
   dataset_revision  |-> {"text", "hash", "count"},
   google_drive      |-> {"text", "remark"}]
\* lengthy: fits its field, but not into a label with the others
Flaws ==
  ({"text"} \X {"blank", "missing", "lengthy", "long"}) \cup ({"hash"} \X {"upper", "odd"})
    \cup {<<"count", "odd">>} \cup ({"remark"} \X {"blank", "long"})

\* a record has at most one field that is not written plainly; canonical is its digest
Source ==
  {s \in [provider : DOMAIN FieldsOf, canonical : Contents \cup {None}, flaw : Flaws \cup {None}] :
     /\ s.flaw = None \/ s.flaw[1] \in FieldsOf[s.provider]
     /\ (s.canonical = None) = (s.provider = "google_drive")}

-----------------------------------------------------------------------------
\* the schemas and the readers of sourceMetadata

FitsFields(s) ==
  s.flaw \in {None, <<"text", "blank">>, <<"text", "lengthy">>, <<"remark", "blank">>}
PublicSourceSchema(s) ==
  s.provider \in {"model_release", "dataset_inventory", "dataset_revision"} /\ FitsFields(s)
SourceMetadataSchema(s) == s.provider \in {"google_drive", "model_release"} /\ FitsFields(s)

HasTexts(s) == s.flaw # <<"text", "missing">>
HasCounts(s) == s.flaw # <<"count", "odd">>
ModelReleaseFromBody(s) == IF HasTexts(s) THEN s ELSE None
DatasetInventoryFromBody(s) == IF HasTexts(s) /\ HasCounts(s) THEN s ELSE None
DatasetRevisionFromBody(s) == IF HasTexts(s) /\ HasCounts(s) THEN s ELSE None
PublicSourceFromBody(s) ==
  CASE s.provider = "model_release"     -> ModelReleaseFromBody(s)
    [] s.provider = "dataset_inventory" -> DatasetInventoryFromBody(s)
    [] s.provider = "dataset_revision"  -> DatasetRevisionFromBody(s)
    [] OTHER                            -> None

\* what a device sends is kept, and what is read of it later shown, if it is one of the two
SourceFromBody(s) ==
  IF s # None /\ s.provider \in {"google_drive", "model_release"} /\ HasTexts(s) THEN s ELSE None
ReadSourceMetadata(s) == SourceFromBody(s)

-----------------------------------------------------------------------------
\* manifests

LeafTypes == {"file", "shingle", "component"}
ManifestLeaf ==
  [type : {"file"}, payload : Digest] \cup [type : {"shingle"}, payload : Windows]
    \cup [type : {"component"}, payload : Contents]
Manifest ==
  [attempt : Slots \X Nat, leaves : Seq(ManifestLeaf), counts : [LeafTypes -> Nat],
   device : {"desktop", "public_api"}]

FileLeaf(d) == [type |-> "file", payload |-> d]
HasDuplicates(leaves) == Cardinality(ToSet(leaves)) < Len(leaves)
TallyLeafCounts(leaves) ==
  [t \in LeafTypes |-> Cardinality({i \in DOMAIN leaves : leaves[i].type = t})]

\* buildManifest throws if there are none, or two that are equal
CanBuild(leaves) == leaves # <<>> /\ ~HasDuplicates(leaves)
BuildManifest(attempt, leaves, device) ==
  [attempt |-> attempt, leaves |-> leaves, counts |-> TallyLeafCounts(leaves), device |-> device]

ValidateManifest(m) ==
  {issue \in {"empty", "payload", "duplicate", "leaf_counts"} :
     CASE issue = "empty"       -> m.leaves = <<>>
       [] issue = "payload"     -> \E l \in ToSet(m.leaves) : l.type = "file" /\ l.payload.form # "plain"
       [] issue = "duplicate"   -> HasDuplicates(m.leaves)
       [] issue = "leaf_counts" -> m.counts # TallyLeafCounts(m.leaves)}

HasText(m) == \E l \in ToSet(m.leaves) : l.type = "shingle"
HasImage(m) == \E l \in ToSet(m.leaves) : l.type = "component"
OverStorageCap(leaves) ==
  tenantPlan = "free" /\ \E l \in ToSet(leaves) : l.type = "file" /\ l.payload.of \in Large

-----------------------------------------------------------------------------
\* rows

Taken(l) == \E x \in Slots : submission[x] # None /\ submission[x].label = l
FreeSlots == {x \in Slots : submission[x] = None}

AttemptRow ==
  [source   : Source \cup {None},
   manifest : Manifest \cup {None},
   errors   : SUBSET {"empty", "payload", "duplicate", "leaf_counts", "ids_mismatch",
                      "shingling_not_in_plan", "device_mismatch", "device_revoked"}]
AttestationRow ==
  [label : Label, byDevice : BOOLEAN, attempts : Seq(AttemptRow),
   state : {"pending", "uploaded", "validating", "confirmed", "failed_needs_review"}]

ASSUME SubmissionAssumption == IsFiniteSet(Windows) /\ None \notin Flaws \cup AttestationRow

NewRow(l, byDevice, state, source, manifest) ==
  [label |-> l, byDevice |-> byDevice, state |-> state,
   attempts |-> <<[source |-> source, manifest |-> manifest, errors |-> {}]>>]

SubmissionTypeOK ==
  /\ tenantPlan \in {"free", "paid"} /\ deviceRevoked \in BOOLEAN
  /\ submission \in [Slots -> AttestationRow \cup {None}]
  /\ uploading # None =>
       uploading \in [slot : Slots, step : {"upload", "finalize"}, leaves : Seq(ManifestLeaf)]

SubmissionInit ==
  /\ submission = [x \in Slots |-> None]
  /\ tenantPlan \in {"free", "paid"} /\ deviceRevoked = FALSE /\ uploading = None

-----------------------------------------------------------------------------
(* The public channel                                                       *)

PlainBody(n, c) ==
  [label |-> [name |-> n, form |-> "plain"], sha |-> [of |-> c, form |-> "plain"],
   sized |-> TRUE, compliance |-> None, source |-> None]

\* bodies with at most one thing that is not plain
PublicBodies ==
  LET plain == {PlainBody(n, c) : n \in Names, c \in Contents}
  IN  UNION {plain, {[b EXCEPT !.sized = FALSE] : b \in plain},
             {[b EXCEPT !.label = l] : b \in plain, l \in Label},
             {[b EXCEPT !.sha = d] : b \in plain, d \in Digest},
             {[b EXCEPT !.compliance = c] : b \in plain,
                c \in [sha : Digest, media : {None, "application/json", "text/plain"}]},
             {[b EXCEPT !.source = s] : b \in plain, s \in Source}}

BodySchema(b) ==
  /\ b.label.form # "longest"
  /\ b.sha.form # "short"
  /\ b.compliance # None => b.compliance.sha.form # "short"
  /\ b.source # None => PublicSourceSchema(b.source)

PublicLeaves(b) ==
  <<FileLeaf(NormalizeSha256(b.sha))>>
    \o (IF b.compliance = None THEN <<>> ELSE <<FileLeaf(NormalizeSha256(b.compliance.sha))>>)

\* mutant: the two digests are compared as they were written
DuplicateAsWritten(b) == b.compliance # None /\ b.compliance.sha = b.sha

DuplicateCompliance(b) ==
  b.compliance # None /\ NormalizeSha256(b.compliance.sha) = NormalizeSha256(b.sha)

\* why a body is refused; the first of them, or of those below, is answered
BodyErrors(b) ==
  LET sha == NormalizeSha256(b.sha)
      source == IF b.source = None THEN None ELSE PublicSourceFromBody(b.source)
  IN  {e \in {"validation_failed", "invalid_label", "invalid_sha256", "invalid_source_metadata",
              "source_metadata_hash_mismatch", "invalid_compliance_sha256",
              "duplicate_compliance_sha256", "invalid_compliance_media_type"} :
        CASE e = "validation_failed"             -> ~BodySchema(b)
          [] e = "invalid_label"                 -> b.label.form = "blank"
          [] e = "invalid_sha256"                -> sha.form # "plain"
          [] e = "invalid_source_metadata"       -> b.source # None /\ source = None
          [] e = "source_metadata_hash_mismatch" -> source # None /\ source.canonical # sha.of
          [] e = "invalid_compliance_sha256"     ->
               b.compliance # None /\ NormalizeSha256(b.compliance.sha).form # "plain"
          [] e = "duplicate_compliance_sha256"   -> DuplicateCompliance(b)
          [] e = "invalid_compliance_media_type" ->
               b.compliance # None /\ b.compliance.media \notin {None, "application/json"}}

\* why the tenant has no place for it
LabelTaken(b) == Taken(TrimLabel(b.label))
StorageExceeded(b) == b.sized /\ OverStorageCap(PublicLeaves(b))

\* the rows are inserted before the manifest is built
PublicSubmit(x, b) ==
  LET leaves == PublicLeaves(b)
      built == CanBuild(leaves)
  IN  /\ x \in FreeSlots
      /\ BodyErrors(b) = {} /\ ~LabelTaken(b) /\ ~StorageExceeded(b)
      /\ submission' = [submission EXCEPT ![x] =
           NewRow(TrimLabel(b.label), FALSE, IF built THEN "validating" ELSE "pending",
                  IF b.source = None THEN None ELSE PublicSourceFromBody(b.source),
                  IF built THEN BuildManifest(<<x, 1>>, leaves, "public_api") ELSE None)]
      /\ UNCHANGED <<tenantPlan, deviceRevoked, uploading>>

-----------------------------------------------------------------------------
(* The SDK's bodies                                                         *)

\* a digest, or a record whose label, unless one is given, is made of its names
SdkInputs ==
  [label : Label, sha : Digest, source : {None}]
    \cup [label : [name : Names, form : {"plain"}], sha : {None},
          source : {s \in Source : s.provider # "google_drive"}]

\* texts and digests are trimmed and normalised, empty remarks dropped
SdkSource(s) ==
  IF s.flaw \in {<<"hash", "upper">>, <<"remark", "blank">>} THEN [s EXCEPT !.flaw = None] ELSE s
SdkThrows(i) ==
  IF i.source = None
    THEN NormalizeSha256(i.sha).form # "plain"
    ELSE i.source.flaw \in {<<"text", "blank">>, <<"text", "missing">>, <<"hash", "odd">>, <<"count", "odd">>}

IsLong(s) == s.flaw \in {<<"text", "long">>, <<"text", "lengthy">>}
RecordLabel(i) == IF IsLong(i.source) THEN [i.label EXCEPT !.form = "longest"] ELSE i.label
CreateHash(l, sha, source) ==
  [PlainBody(l.name, sha.of) EXCEPT !.label = l, !.sha = NormalizeSha256(sha), !.source = source]
SdkBody(i) ==
  IF i.source = None THEN CreateHash(i.label, i.sha, None)
  ELSE CreateHash(RecordLabel(i), [of |-> i.source.canonical, form |-> "plain"],
                  SdkSource(i.source))

-----------------------------------------------------------------------------
(* The desktop                                                              *)

\* a form that is filled in: a file with its proofs, or a model's record with its digest (which
\* may still be that of the record before an edit: AttestationForm)
DesktopInputs ==
  [label : Label, of : Contents, texts : SUBSET Windows, image : BOOLEAN, source : {None}]
    \cup {i \in [label : {[name |-> n, form |-> "plain"] : n \in Names}, of : Contents,
                 texts : {{}}, image : {FALSE}, source : Source] :
            \/ i.source.provider = "google_drive"
            \/ i.source.provider = "model_release" /\ i.source.canonical = i.of}

\* the form trims texts and lowers digests, and leaves out empty remarks
DesktopSource(s) ==
  CASE s = None -> None
    [] s # None /\ s.flaw = <<"text", "blank">> -> [s EXCEPT !.flaw = <<"text", "missing">>]
    [] s # None /\ s.flaw \in {<<"hash", "upper">>, <<"remark", "blank">>} ->
         [s EXCEPT !.flaw = None]
    [] OTHER -> s

DeviceErrors(i) ==
  LET source == DesktopSource(i.source)
  IN  {e \in {"validation_failed", "invalid_label", "label_taken"} :
        CASE e = "validation_failed" -> \/ i.label.form \in {"long", "longest"}
                                        \/ source # None /\ ~SourceMetadataSchema(source)
          [] e = "invalid_label"     -> TrimLabel(i.label).form # "plain"
          [] e = "label_taken"       -> Taken(TrimLabel(i.label))}

DesktopLeaves(i) ==
  <<FileLeaf([of |-> i.of, form |-> "plain"])>>
    \o SetToSeq({[type |-> "shingle", payload |-> w] : w \in i.texts})
    \o (IF i.image THEN <<[type |-> "component", payload |-> i.of]>> ELSE <<>>)

CreateWholeFile(x, i) ==
  /\ x \in FreeSlots
  /\ uploading = None /\ ~deviceRevoked
  /\ DeviceErrors(i) = {}
  /\ submission' = [submission EXCEPT ![x] =
       NewRow(TrimLabel(i.label), TRUE, "pending", SourceFromBody(DesktopSource(i.source)), None)]
  /\ uploading' = [slot |-> x, step |-> "upload", leaves |-> DesktopLeaves(i)]
  /\ UNCHANGED <<tenantPlan, deviceRevoked>>

\* a client of the device channel, as the walkthrough of repairs; the new attempt says
\* nothing of a source
RepairAttempt(x, i) ==
  /\ submission[x] # None /\ submission[x].byDevice
  /\ submission[x].state = "failed_needs_review"
  /\ uploading = None /\ ~deviceRevoked
  /\ submission' = [submission EXCEPT ![x].state = "pending", ![x].attempts =
       Append(@, [source |-> None, manifest |-> None, errors |-> {}])]
  /\ uploading' = [slot |-> x, step |-> "upload", leaves |-> DesktopLeaves(i)]
  /\ UNCHANGED <<tenantPlan, deviceRevoked>>

\* a request that is refused ends the call, and its row stays as it is
UploadManifest ==
  LET x == uploading.slot
      n == Len(submission[x].attempts)
  IN  /\ uploading # None /\ uploading.step = "upload"
      /\ IF deviceRevoked \/ OverStorageCap(uploading.leaves)
           THEN uploading' = None /\ UNCHANGED submission
           ELSE /\ submission' = [submission EXCEPT ![x].state = "uploaded",
                     ![x].attempts[n].manifest = BuildManifest(<<x, n>>, uploading.leaves, "desktop")]
                /\ uploading' = [uploading EXCEPT !.step = "finalize"]
      /\ UNCHANGED <<tenantPlan, deviceRevoked>>

FinalizeUpload ==
  /\ uploading # None /\ uploading.step = "finalize"
  /\ uploading' = None
  /\ submission' = IF deviceRevoked THEN submission
                   ELSE [submission EXCEPT ![uploading.slot].state = "validating"]
  /\ UNCHANGED <<tenantPlan, deviceRevoked>>

-----------------------------------------------------------------------------
(* The worker                                                               *)

AttemptIssues(x) ==
  LET n == Len(submission[x].attempts)
      m == submission[x].attempts[n].manifest
  IN  ValidateManifest(m) \cup
        {issue \in {"ids_mismatch", "shingling_not_in_plan", "device_mismatch", "device_revoked"} :
           CASE issue = "ids_mismatch"          -> m.attempt # <<x, n>>
             [] issue = "shingling_not_in_plan" -> HasText(m) /\ tenantPlan = "free"
             [] issue = "device_mismatch"       -> submission[x].byDevice /\ m.device # "desktop"
             [] issue = "device_revoked"        -> submission[x].byDevice /\ deviceRevoked}

ValidateSubmission(x) ==
  /\ submission[x] # None /\ submission[x].state = "validating"
  /\ LET issues == AttemptIssues(x)
     IN  submission' = [submission EXCEPT
           ![x].state = IF issues = {} THEN "confirmed" ELSE "failed_needs_review",
           ![x].attempts[Len(submission[x].attempts)].errors = issues]
  /\ UNCHANGED <<tenantPlan, deviceRevoked, uploading>>

SwitchPlan ==
  /\ tenantPlan' = IF tenantPlan = "free" THEN "paid" ELSE "free"
  /\ UNCHANGED <<submission, deviceRevoked, uploading>>

RevokeDevice ==
  /\ ~deviceRevoked
  /\ deviceRevoked' = TRUE
  /\ UNCHANGED <<submission, tenantPlan, uploading>>

SubmissionNext ==
  \/ \E x \in Slots, b \in PublicBodies : PublicSubmit(x, b)
  \/ \E x \in Slots, i \in DesktopInputs : CreateWholeFile(x, i) \/ RepairAttempt(x, i)
  \/ UploadManifest \/ FinalizeUpload
  \/ \E x \in Slots : ValidateSubmission(x)
  \/ SwitchPlan \/ RevokeDevice

-----------------------------------------------------------------------------
(* What is shown of a confirmed attestation                                 *)

\* of the confirmed attempt, which is the last, or else of the first that has one
PrimaryAttestationSource(x) ==
  LET read == [n \in DOMAIN submission[x].attempts |->
                 ReadSourceMetadata(submission[x].attempts[n].source)]
      with == {n \in DOMAIN read : read[n] # None}
  IN  IF read[Len(read)] # None \/ with = {} THEN read[Len(read)]
      ELSE read[CHOOSE n \in with : \A k \in with : n <= k]

SummarizeCoverage(m) ==
  {part \in {"whole-file", "native text shingles", "exact image proof"} :
     CASE part = "whole-file"           -> m.counts["file"] > 0
       [] part = "native text shingles" -> HasText(m)
       [] part = "exact image proof"    -> HasImage(m)}

Confirmed == {x \in Slots \ FreeSlots : submission[x].state = "confirmed"}

-----------------------------------------------------------------------------
\* What the public channel accepts becomes an attestation: its row gets a manifest,
\* and the worker confirms it, whatever has become of the plan.  A desktop, which
\* learns of a failure later, meets one only when its device was revoked or the free
\* plan does not hold text proofs.
AcceptedIsConfirmed ==
  \A x \in Slots \ FreeSlots :
    /\ ~submission[x].byDevice => submission[x].state \in {"validating", "confirmed"}
    /\ \A n \in DOMAIN submission[x].attempts :
         submission[x].attempts[n].errors \subseteq {"device_revoked", "shingling_not_in_plan"}

\* What the SDK makes of a record that it does not throw out is accepted, as long as no
\* text is too long for its field or for the label, and the label and the space are there.
\* (It does not depend on the rows, and is evaluated once they have all been inserted.)
SdkBodiesFit ==
  FreeSlots = {} => \A i \in SdkInputs :
    i.source # None /\ ~SdkThrows(i) /\ ~IsLong(i.source) /\ i.source.flaw # <<"remark", "long">>
      => BodyErrors(SdkBody(i)) = {}

\* The model's record that is shown beside a confirmed attestation is the one it commits
\* to, unless the attestation was repaired; and each kind of proof that its page names
\* is there.
ShownIsAttested ==
  \A x \in Confirmed :
    LET source == PrimaryAttestationSource(x)
        m == Last(submission[x].attempts).manifest
    IN  /\ source # None /\ source.provider = "model_release" /\ Len(submission[x].attempts) = 1
             => FileLeaf([of |-> source.canonical, form |-> "plain"]) \in ToSet(m.leaves)
        /\ "whole-file" \in SummarizeCoverage(m)

\* What is accepted is attested, and what is shown is what was accepted.
SubmissionsTrue == AcceptedIsConfirmed /\ SdkBodiesFit /\ ShownIsAttested
=============================================================================
