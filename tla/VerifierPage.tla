---------------------------- MODULE VerifierPage ----------------------------
(***************************************************************************)
(* The lookup page of the verifier.  It hashes a file, an image or a       *)
(* passage in the browser, asks the API whether the attestation has that   *)
(* hash, and shows the verdict.  Hashing and asking take their time, the   *)
(* user goes on meanwhile, and nothing cancels a call under way: when it   *)
(* ends, it sets the hash or the verdict of the page as it is by then.     *)
(*                                                                         *)
(* A task is a call under way.  It is old when the input has changed since *)
(* it began.                                                               *)
(***************************************************************************)
EXTENDS ApiRequests, FiniteSets

CONSTANTS
  Files,      \* files the user may choose, each standing for its hash
  Images,     \* those that isExactImageCandidate takes for PNG or JPEG
  Passages,   \* texts the user may enter
  WindowsOf,  \* hashes of the windows of each text; none if it is too short
  Leaves      \* canonical payload hashes in the manifest, by kind of leaf

Digests == Files \cup UNION {WindowsOf[p] : p \in Passages}
Kinds == {"whole_file", "exact_image", "content"}

ASSUME VerifierConstantsOK ==
  /\ Images \subseteq Files
  /\ WindowsOf \in [Passages -> SUBSET Digests]
  /\ Leaves \in [Kinds -> SUBSET Digests]

VARIABLES
  access,      \* the API lets this account look the attestation up
  page,        \* what the page shows
  mode,        \* hashMode
  chosen,      \* the file the input element shows
  passage,     \* passageText
  hash,        \* the hash the page shows and will submit
  candidates,  \* passageHashes
  hashing,     \* fileHashing and passageHashing
  submitting,
  verdict,     \* lookupResult
  crossed      \* a call begun for other input has set hash, candidates or verdict

inputVars == <<mode, chosen, passage, hash, candidates>>
verifierVars == <<access, page, inputVars, hashing, submitting, verdict, crossed>>

Modes == {"file", "image", "paste", "passage"}
Verdicts == {"match", "no_match"}

VerifierTask ==
  [step : {"load", "hash file", "hash passage", "lookup"},
   item : Files \cup Passages \cup {None},       \* what is hashed
   asked : SUBSET Digests, kind : Kinds \cup {"any", None},   \* what is looked up
   old  : BOOLEAN]

ASSUME VerifierAssumption == None \notin Digests \cup Passages \cup VerifierTask

VerifierTypeOK ==
  /\ access \in BOOLEAN
  /\ page \in {"loading", "lookup", "no access", "pending"}
  /\ mode \in Modes
  /\ chosen \in Files \cup {None} /\ passage \in Passages \cup {None}
  /\ hash \in Digests \cup {None} /\ candidates \subseteq Digests
  /\ hashing \subseteq {"hash file", "hash passage"}
  /\ submitting \in BOOLEAN /\ crossed \in BOOLEAN
  /\ verdict \in Verdicts \cup {None}

VerifierInit ==
  /\ access \in BOOLEAN
  /\ page = "loading"
  /\ mode = "file" /\ chosen = None /\ passage = None /\ hash = None /\ candidates = {}
  /\ hashing = {} /\ submitting = FALSE /\ verdict = None /\ crossed = FALSE

Task(step, item, asked, kind) ==
  [step |-> step, item |-> item, asked |-> asked, kind |-> kind, old |-> FALSE]

-----------------------------------------------------------------------------
(* Access: the producer grants and revokes it, the page is told when it asks *)

SetAccess ==
  /\ access' = ~access
  /\ UNCHANGED <<work, page, inputVars, hashing, submitting, verdict, crossed>>

\* the effect of the first rendering, once more after the page is reloaded
Load(h) ==
  /\ page = "loading" /\ \A o \in Handlers : ~At(o, "load")
  /\ Begin(h, Task("load", None, {}, None))
  /\ UNCHANGED verifierVars

AccessKnown(h) ==
  /\ At(h, "load")
  /\ page' = IF access THEN "lookup" ELSE "no access"
  /\ Finish(h)
  /\ UNCHANGED <<access, inputVars, hashing, submitting, verdict, crossed>>

\* requestAccess: reloads when access is already active
RequestAccess ==
  /\ page = "no access"
  /\ page' = IF access THEN "loading" ELSE "pending"
  /\ UNCHANGED <<work, access, inputVars, hashing, submitting, verdict, crossed>>

Reload ==
  /\ page \in {"no access", "pending"}
  /\ page' = "loading"
  /\ UNCHANGED <<work, access, inputVars, hashing, submitting, verdict, crossed>>

-----------------------------------------------------------------------------
(* Input                                                                    *)

Aged(tasks) == [h \in Handlers |-> IF tasks[h] = None THEN None
                                   ELSE [tasks[h] EXCEPT !.old = TRUE]]

\* a change of the input that empties hash and verdict, and begins a task, if any
Fresh(h, task) ==
  /\ work' = [Aged(work) EXCEPT ![h] = IF task = None THEN @ ELSE task]
  /\ hash' = None /\ verdict' = None

\* a mode button; the input element of "file" is that of "image" as well
ChooseMode(m) ==
  /\ page = "lookup"
  /\ mode' = m
  /\ chosen' = IF m \in {"file", "image"} /\ mode \in {"file", "image"} THEN chosen ELSE None
  /\ work' = Aged(work) /\ hash' = None /\ verdict' = None
  /\ IF m = "passage"
       THEN UNCHANGED <<passage, candidates, crossed>>
       ELSE passage' = None /\ candidates' = {} /\ crossed' = FALSE
  /\ UNCHANGED <<access, page, hashing, submitting>>

\* mutant: a new file leaves the verdict of the last one
ClearInputOnly(h, task) ==
  /\ work' = [Aged(work) EXCEPT ![h] = IF task = None THEN @ ELSE task]
  /\ hash' = None /\ verdict' = verdict

\* what selectFile and selectImage clear before they begin to hash
ClearForFile(h, task) == Fresh(h, task)

\* the browser reports a choice only when it differs from the last
SelectFile(h, f) ==
  /\ page = "lookup" /\ mode \in {"file", "image"} /\ work[h] = None
  /\ f # chosen
  /\ chosen' = f
  /\ passage' = None /\ candidates' = {} /\ crossed' = FALSE
  /\ IF f = None \/ (mode = "image" /\ f \notin Images)
       THEN ClearForFile(h, None) /\ UNCHANGED hashing
       ELSE /\ ClearForFile(h, Task("hash file", f, {}, None))
            /\ hashing' = hashing \cup {"hash file"}
  /\ UNCHANGED <<access, page, mode, submitting>>

\* hashPassage, at every change of the text
EnterPassage(h, p) ==
  /\ page = "lookup" /\ mode = "passage" /\ work[h] = None
  /\ p # passage
  /\ passage' = p
  /\ candidates' = {} /\ crossed' = FALSE
  /\ IF p = None
       THEN Fresh(h, None) /\ UNCHANGED hashing
       ELSE /\ Fresh(h, Task("hash passage", p, {}, None))
            /\ hashing' = hashing \cup {"hash passage"}
  /\ UNCHANGED <<access, page, mode, chosen, submitting>>

\* the field holds the hash itself; the verdict stays until the next lookup
PasteHash(d) ==
  /\ page = "lookup" /\ mode = "paste"
  /\ d # hash
  /\ hash' = d
  /\ work' = Aged(work)
  /\ crossed' = (crossed \/ verdict # None)
  /\ UNCHANGED <<access, page, mode, chosen, passage, candidates, hashing, submitting, verdict>>

PickCandidate(d) ==
  /\ page = "lookup" /\ mode = "passage" /\ d \in candidates
  /\ hash' = d
  /\ UNCHANGED <<work, access, page, mode, chosen, passage, candidates, hashing, submitting,
                 verdict, crossed>>

-----------------------------------------------------------------------------
(* Hashing ends                                                             *)

Hashed(h, step) ==
  /\ At(h, step)
  /\ hashing' = hashing \ {step}
  /\ Finish(h)
  /\ UNCHANGED <<access, page, mode, chosen, passage, submitting, verdict>>

FileHashed(h) ==
  /\ At(h, "hash file")
  /\ hash' = work[h].item
  /\ crossed' = (crossed \/ work[h].old)
  /\ UNCHANGED candidates
  /\ Hashed(h, "hash file")

\* a text that is too short has no hash, and an error is shown
PassageHashed(h) ==
  /\ At(h, "hash passage")
  /\ candidates' = WindowsOf[work[h].item]
  /\ IF candidates' = {} THEN UNCHANGED hash ELSE hash' \in candidates'
  /\ crossed' = (crossed \/ work[h].old)
  /\ Hashed(h, "hash passage")

HashFails(h) ==
  /\ UNCHANGED <<hash, candidates, crossed>>
  /\ \E step \in {"hash file", "hash passage"} : Hashed(h, step)

-----------------------------------------------------------------------------
(* The lookup                                                               *)

KindOf(m) == CASE m = "file" -> "whole_file" [] m = "image" -> "exact_image"
               [] m = "passage" -> "content" [] OTHER -> "any"

\* the button is disabled while the page hashes or submits
Submit(h) ==
  /\ page = "lookup"
  /\ hash # None /\ hashing = {} /\ ~submitting
  /\ Begin(h, Task("lookup", None, IF mode = "passage" THEN candidates ELSE {hash}, KindOf(mode)))
  /\ submitting' = TRUE
  /\ verdict' = None
  /\ UNCHANGED <<access, page, inputVars, hashing, crossed>>

\* leafMatchesLookupKind
LeavesOf(kind) == IF kind = "any" THEN UNION {Leaves[k] : k \in Kinds} ELSE Leaves[kind]

\* POST /attestations/:id/lookup
LookUp(asked, kind) == IF asked \cap LeavesOf(kind) # {} THEN "match" ELSE "no_match"

\* the API refuses an empty list of candidates, and an account without access
LookedUp(h) ==
  /\ At(h, "lookup")
  /\ access /\ work[h].asked # {}
  /\ verdict' = LookUp(work[h].asked, work[h].kind)
  /\ crossed' = (crossed \/ work[h].old)
  /\ submitting' = FALSE
  /\ Finish(h)
  /\ UNCHANGED <<access, page, inputVars, hashing>>

\* 400, 404, 429, or no answer: an error is shown
LookupFails(h) ==
  /\ At(h, "lookup")
  /\ submitting' = FALSE
  /\ Finish(h)
  /\ UNCHANGED <<access, page, inputVars, hashing, verdict, crossed>>

-----------------------------------------------------------------------------
VerifierNext ==
  \/ SetAccess \/ RequestAccess \/ Reload
  \/ \E m \in Modes : ChooseMode(m)
  \/ \E d \in Digests : PasteHash(d) \/ PickCandidate(d)
  \/ \E h \in Handlers :
       \/ Load(h) \/ AccessKnown(h)
       \/ \E f \in Files \cup {None} : SelectFile(h, f)
       \/ \E p \in Passages \cup {None} : EnterPassage(h, p)
       \/ FileHashed(h) \/ PassageHashed(h) \/ HashFails(h)
       \/ Submit(h) \/ LookedUp(h) \/ LookupFails(h)

\* what the page should say of what it shows
TrueVerdict ==
  LET committed ==
        CASE mode = "file" -> chosen \in Leaves["whole_file"]
          [] mode = "image" -> chosen \in Leaves["exact_image"]
          [] mode = "passage" -> passage # None /\ WindowsOf[passage] \cap Leaves["content"] # {}
          [] OTHER -> \E k \in Kinds : hash \in Leaves[k]
  IN  IF committed THEN "match" ELSE "no_match"

\* The verdict on the page is true of the file, image, passage or hash the page
\* shows next to it.  Only a call that was begun for other input and ended late, or
\* a verdict left standing while a pasted hash is edited, makes it say otherwise,
\* and only until the input is chosen anew.
VerdictIsOfShown == verdict # None /\ ~crossed => verdict = TrueVerdict
=============================================================================
