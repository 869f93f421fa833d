---------------------------- MODULE LookupResults ----------------------------
(***************************************************************************)
(* What a lookup answers, and what the page and the PDF of its link say of *)
(* it.  A lookup names one hash, or candidates, and the kind of leaf it    *)
(* asks for; the answer is a package that its reader can check.  Lookups   *)
(* of a session are counted by the minute; those with an API key are not.  *)
(***************************************************************************)
EXTENDS ApiRequests, Integers, Sequences, FiniteSets

CONSTANTS
  Payloads,        \* canonical payload hashes
  MaxLeaves,       \* bound on the leaves of the manifest
  MaxCandidates,   \* bound on the hashes named in one lookup
  PerMinute,       \* verificationsPerMinute of the plan
  LastMinute,      \* bound on the clock
  PdfTries         \* requests for a PDF before the page gives up

ASSUME LookupAssumption ==
  {MaxLeaves, MaxCandidates, PerMinute, LastMinute, PdfTries} \subseteq Nat

VARIABLES
  leaves,     \* leaf_set of the confirmed manifest, in its order
  minute,     \* the clock of the API
  counted,    \* the counters in Redis
  answered,   \* lookups of sessions that were answered, by minute counted
  answer,     \* the package that was answered last, with its request
  shared,     \* its link: "live", "expired" or "revoked"
  rendered,   \* its PDF is in object storage
  linkPage,       \* what the page of the link shows
  pdfTry, pdfSays   \* the download of the PDF: requests left, message

lookupVars ==
  <<leaves, minute, counted, answered, answer, shared, rendered, linkPage, pdfTry, pdfSays>>

Leaf == [hash : Payloads, kind : {"file", "text", "ocr text", "image"}]
AskKinds == {"whole_file", "content", "exact_image", "any"}

LeafLists == UNION {[1..n -> Leaf] : n \in 0..MaxLeaves}
Candidates ==
  {c \in UNION {[1..n -> Payloads] : n \in 0..MaxCandidates} :
     \A i, j \in DOMAIN c : i # j => c[i] # c[j]}
Question ==
  {q \in [submitted : Payloads \cup {None}, candidates : Candidates,
          kind : AskKinds \cup {None}] :
     q.submitted # None \/ q.candidates # <<>>}

Package == [question : Question, submitted : Payloads, match : Leaf \cup {None}]
LookupStep ==
  [step : {"count", "answer"}, question : Question, counted : 0..LastMinute \cup {None}]

ASSUME LookupConstantsOK == None \notin Payloads \cup Leaf \cup Package \cup LookupStep \cup Nat

LookupTypeOK ==
  /\ leaves \in LeafLists
  /\ minute \in 0..LastMinute
  /\ counted \in [0..LastMinute -> Nat] /\ answered \in [0..LastMinute -> Nat]
  /\ answer \in Package \cup {None}
  /\ shared \in {"live", "expired", "revoked"}
  /\ rendered \in BOOLEAN
  /\ linkPage \in {"none", "Link expired", "Link unavailable", "result"}
  /\ pdfTry \in 0..PdfTries
  /\ pdfSays \in {None, "saved", "expired", "unavailable", "still rendering"}

LookupInit ==
  /\ leaves \in {m \in LeafLists : \A i, j \in DOMAIN m : i # j => m[i] # m[j]}
  /\ minute = 0
  /\ counted = [m \in 0..LastMinute |-> 0] /\ answered = counted
  /\ answer = None /\ shared = "live" /\ rendered = FALSE
  /\ linkPage = "none" /\ pdfTry = 0 /\ pdfSays = None

-----------------------------------------------------------------------------
(* The answer to a question                                                 *)

KindAsked(q) ==
  IF q.kind # None THEN q.kind ELSE IF q.candidates # <<>> THEN "content" ELSE "any"

Submitted(q) == IF q.submitted # None THEN q.submitted ELSE q.candidates[1]

\* the candidates are for windows of text; of others only one hash is looked for
SubmittedSet(q) ==
  IF KindAsked(q) = "content" THEN {q.candidates[i] : i \in DOMAIN q.candidates}
                              ELSE {Submitted(q)}

LeafFits(kind, leaf) ==
  \/ kind = "any"
  \/ kind = "whole_file"  /\ leaf.kind = "file"
  \/ kind = "content"     /\ leaf.kind \in {"text", "ocr text"}
  \/ kind = "exact_image" /\ leaf.kind = "image"

Matching(q) ==
  {i \in DOMAIN leaves : leaves[i].hash \in SubmittedSet(q) /\ LeafFits(KindAsked(q), leaves[i])}

\* the first leaf that matches
MatchedLeaf(q) ==
  IF Matching(q) = {} THEN None
  ELSE leaves[CHOOSE i \in Matching(q) : \A j \in Matching(q) : i <= j]

\* mutant: the package names the hash that was sent first
SubmittedFirst(q) == Submitted(q)

\* the hash that matched, which is the one the proof is for
ResultSubmitted(q) == IF MatchedLeaf(q) # None THEN MatchedLeaf(q).hash ELSE Submitted(q)

PackageFor(q) ==
  [question |-> q, submitted |-> ResultSubmitted(q), match |-> MatchedLeaf(q)]

-----------------------------------------------------------------------------
(* POST .../lookup                                                          *)

\* with a session: access is checked, then the lookup is counted if the plan has a limit
AskWithSession(h, q) ==
  /\ Begin(h, [step |-> "count", question |-> q, counted |-> None])
  /\ UNCHANGED lookupVars

AskWithKey(h, q) ==
  /\ Begin(h, [step |-> "answer", question |-> q, counted |-> None])
  /\ UNCHANGED lookupVars

\* the bucket is that of the clock now; one INCR counts and reads
Count(h) ==
  /\ At(h, "count")
  /\ counted' = [counted EXCEPT ![minute] = @ + 1]
  /\ IF counted'[minute] > PerMinute
       THEN Finish(h)
       ELSE Continue(h, [work[h] EXCEPT !.step = "answer", !.counted = minute])
  /\ UNCHANGED <<leaves, minute, answered, answer, shared, rendered, linkPage, pdfTry, pdfSays>>

Answer(h) ==
  /\ At(h, "answer")
  /\ answer' = PackageFor(work[h].question)
  /\ answered' = IF work[h].counted = None THEN answered
                 ELSE [answered EXCEPT ![work[h].counted] = @ + 1]
  /\ shared' = "live" /\ rendered' = FALSE
  /\ linkPage' = "none" /\ pdfTry' = 0 /\ pdfSays' = None   \* the page of another link
  /\ Finish(h)
  /\ UNCHANGED <<leaves, minute, counted>>

NextMinute ==
  /\ minute < LastMinute
  /\ minute' = minute + 1
  /\ UNCHANGED <<leaves, counted, answered, answer, shared, rendered, linkPage, pdfTry, pdfSays>>

-----------------------------------------------------------------------------
(* The link of the answer                                                   *)

EndLink(how) ==
  /\ answer # None /\ shared = "live"
  /\ shared' = how
  /\ UNCHANGED <<leaves, minute, counted, answered, answer, rendered, linkPage, pdfTry, pdfSays>>

RenderResult ==
  /\ answer # None /\ ~rendered
  /\ rendered' = TRUE
  /\ UNCHANGED <<leaves, minute, counted, answered, answer, shared, linkPage, pdfTry, pdfSays>>

\* the page is loaded once; what it shows stays when the link ends
OpenPage ==
  /\ answer # None /\ linkPage = "none"
  /\ linkPage' = CASE shared = "live"    -> "result"
               [] shared = "expired" -> "Link expired"
               [] shared = "revoked" -> "Link unavailable"
  /\ UNCHANGED <<leaves, minute, counted, answered, answer, shared, rendered, pdfTry, pdfSays>>

DownloadResultPdf ==
  /\ linkPage = "result" /\ pdfTry = 0
  /\ pdfTry' = PdfTries /\ pdfSays' = None
  /\ UNCHANGED <<leaves, minute, counted, answered, answer, shared, rendered, linkPage>>

PdfAnswer ==
  CASE shared = "expired" -> "expired"
    [] shared = "revoked" -> "unavailable"
    [] shared = "live"    -> IF rendered THEN "saved" ELSE "pending"

\* GET /v/:linkId.pdf; pending is asked again after two seconds
AskForPdf ==
  /\ pdfTry > 0
  /\ pdfTry' = IF PdfAnswer = "pending" THEN pdfTry - 1 ELSE 0
  /\ pdfSays' = IF PdfAnswer # "pending" THEN PdfAnswer
                ELSE IF pdfTry = 1 THEN "still rendering" ELSE None
  /\ UNCHANGED <<leaves, minute, counted, answered, answer, shared, rendered, linkPage>>

\* what the page of the link says was matched
PageSays(package) ==
  LET leaf == package.match
  IN  IF leaf = None THEN "No match"
      ELSE CASE leaf.kind = "ocr text" -> "OCR content match"
             [] leaf.kind = "image"    -> "Exact image match"
             [] leaf.kind = "text"     -> "Content match"
             [] OTHER                  -> "Whole-file match"

LookupNext ==
  /\ \/ \E h \in Handlers :
          \/ \E q \in Question : AskWithSession(h, q) \/ AskWithKey(h, q)
          \/ Count(h) \/ Answer(h)
     \/ /\ \/ NextMinute \/ RenderResult \/ OpenPage \/ DownloadResultPdf \/ AskForPdf
           \/ \E how \in {"expired", "revoked"} : EndLink(how)
        /\ UNCHANGED work

-----------------------------------------------------------------------------
Named(q) == ({q.submitted} \ {None}) \cup {q.candidates[i] : i \in DOMAIN q.candidates}

\* Only part of what is named is looked for: of content the candidates, which may be
\* none, of anything else one hash.
LooksForAll(q) ==
  IF KindAsked(q) = "content" THEN q.submitted \in {None} \cup SubmittedSet(q)
                              ELSE Cardinality(Named(q)) = 1

\* The reader can rebuild the leaf from the package, and it is one of the manifest, of
\* the kind asked for.
Provable(package) ==
  /\ package.match \in {leaves[i] : i \in DOMAIN leaves}
  /\ package.submitted = package.match.hash
  /\ package.submitted \in Named(package.question)
  /\ LeafFits(KindAsked(package.question), package.match)

\* Nothing of what was named is in the manifest.
NotThere(package) ==
  \A i \in DOMAIN leaves :
    leaves[i].hash \in Named(package.question)
      => ~LeafFits(KindAsked(package.question), leaves[i])

\* A match can be checked, and is one that was asked for; a lookup that looked for all
\* it was given, and found no match, is right.
AnswerIsTrue ==
  answer # None =>
    IF answer.match # None THEN Provable(answer)
    ELSE LooksForAll(answer.question) => NotThere(answer)

\* The page calls the match what was asked for.
PageIsTrue ==
  linkPage = "result" =>
    PageSays(answer) \in
      CASE KindAsked(answer.question) = "whole_file"  -> {"No match", "Whole-file match"}
        [] KindAsked(answer.question) = "content"     ->
             {"No match", "Content match", "OCR content match"}
        [] KindAsked(answer.question) = "exact_image" -> {"No match", "Exact image match"}
        [] OTHER -> {"No match", "Whole-file match", "Content match", "OCR content match",
                     "Exact image match"}

\* Of the sessions of a tenant no more lookups are answered than the plan has in a
\* minute, by the counter of the minute in which each was counted.
WithinMinute == \A m \in 0..LastMinute : answered[m] <= PerMinute

\* A lookup answers what was asked, its page says so, and not oftener than the plan has.
LookupsTrue == AnswerIsTrue /\ PageIsTrue /\ WithinMinute
=============================================================================
