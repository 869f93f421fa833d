------------------------- MODULE VerificationLinks -------------------------
(***************************************************************************)
(* Lookup results and receipts, the share links that point at them, and    *)
(* the PDFs that carry a link.  A target is a receipt or a result package; *)
(* its PDF is one object, whatever link it was rendered for.               *)
(***************************************************************************)
EXTENDS ApiRequests, FiniteSets, Integers

CONSTANTS
  Receipts,   \* targets that the receipt worker issues
  Packages,   \* targets that lookups create
  Links       \* ids of links

LinkTargets == Receipts \cup Packages

VARIABLES
  stored,      \* result packages and receipts in object storage
  result,      \* verification_results, and attestations that name a receipt
  link,        \* verification_links
  renderJobs,  \* links with a job in the pdf-rendering queue
  pdf,         \* the link that the cached PDF of each target carries
  ended,       \* targets of links that an administrator revoked
  loose        \* targets with a rotation that was cut or met another one

linkVars == <<stored, result, link, renderJobs, pdf, ended, loose>>

Link == [target : LinkTargets, revoked : BOOLEAN, expired : BOOLEAN]
LinkTask ==
  [op     : {"lookup", "rotate"},
   step   : {"put", "insert result", "issue", "enqueue", "rotate", "revoke"},
   target : LinkTargets,
   link   : Links \cup {None}]

ASSUME LinkAssumption ==
  /\ Receipts \cap Packages = {}
  /\ None \notin Links \cup Link \cup LinkTask
  /\ IsFiniteSet(Handlers)

LinkTypeOK ==
  /\ stored \subseteq LinkTargets /\ result \subseteq LinkTargets
  /\ link \in [Links -> Link \cup {None}]
  /\ renderJobs \subseteq Links
  /\ pdf \in [LinkTargets -> Links \cup {None}]
  /\ ended \subseteq LinkTargets /\ loose \subseteq LinkTargets

LinkInit ==
  /\ stored = {} /\ result = {}
  /\ link = [l \in Links |-> None]
  /\ renderJobs = {}
  /\ pdf = [t \in LinkTargets |-> None]
  /\ ended = {} /\ loose = {}

-----------------------------------------------------------------------------
LinksOf(t) == {l \in Links : link[l] # None /\ link[l].target = t}

\* not revoked; a link that has expired answers 410 but is still rotated,
\* revoked or given a new deadline
Unrevoked(l) == link[l] # None /\ ~link[l].revoked
LiveLinks(t) == {l \in LinksOf(t) : Unrevoked(l)}

\* what GET /v/:linkId follows to its target
Resolves(l) == Unrevoked(l) /\ ~link[l].expired

FreeLinks == {l \in Links : link[l] = None}
NewLink == CHOOSE l \in FreeLinks : TRUE

\* issueVerificationLink: always a new row
Issue(l, t) == link' = [link EXCEPT ![l] = [target |-> t, revoked |-> FALSE, expired |-> FALSE]]

-----------------------------------------------------------------------------
(* Where the first link of a target comes from                              *)

\* the receipt worker names the receipt and issues its link in one transaction
IssueReceipt(t) ==
  /\ t \in Receipts \ result
  /\ FreeLinks # {}
  /\ stored' = stored \cup {t}
  /\ result' = result \cup {t}
  /\ Issue(NewLink, t)
  /\ UNCHANGED <<work, renderJobs, pdf, ended, loose>>

LookupTask(step, t, l) == [op |-> "lookup", step |-> step, target |-> t, link |-> l]

Lookup(h, t) ==
  /\ t \in Packages \ stored
  /\ \A o \in Handlers : work[o] # None => work[o].target # t
  /\ Begin(h, LookupTask("put", t, None))
  /\ UNCHANGED linkVars

PutPackage(h) ==
  /\ At(h, "put")
  /\ stored' = stored \cup {work[h].target}
  /\ Continue(h, LookupTask("insert result", work[h].target, None))
  /\ UNCHANGED <<result, link, renderJobs, pdf, ended, loose>>

InsertResult(h) ==
  /\ At(h, "insert result")
  /\ result' = result \cup {work[h].target}
  /\ Continue(h, LookupTask("issue", work[h].target, None))
  /\ UNCHANGED <<stored, link, renderJobs, pdf, ended, loose>>

IssueLink(h) ==
  /\ At(h, "issue")
  /\ FreeLinks # {}
  /\ Issue(NewLink, work[h].target)
  /\ Continue(h, LookupTask("enqueue", work[h].target, NewLink))
  /\ UNCHANGED <<stored, result, renderJobs, pdf, ended, loose>>

\* an error of the queue does not fail the lookup
EnqueuePdf(h) ==
  /\ At(h, "enqueue")
  /\ renderJobs' \in {renderJobs, renderJobs \cup {work[h].link}}
  /\ Finish(h)
  /\ UNCHANGED <<stored, result, link, pdf, ended, loose>>

-----------------------------------------------------------------------------
(* PDFs                                                                     *)

\* GET /v/:linkId.pdf of a PDF that is not cached
DownloadPdf(l) ==
  /\ Resolves(l)
  /\ pdf[link[l].target] = None
  /\ renderJobs' = renderJobs \cup {l}
  /\ UNCHANGED <<work, stored, result, link, pdf, ended, loose>>

\* the renderer loads the link and does not ask whether it is revoked
RenderPdf(l) ==
  /\ l \in renderJobs
  /\ renderJobs' = renderJobs \ {l}
  /\ pdf' = [pdf EXCEPT ![link[l].target] = l]
  /\ UNCHANGED <<work, stored, result, link, ended, loose>>

\* all attempts at rendering failed
RenderFails(l) ==
  /\ l \in renderJobs
  /\ renderJobs' = renderJobs \ {l}
  /\ UNCHANGED <<work, stored, result, link, pdf, ended, loose>>

-----------------------------------------------------------------------------
(* What administrators do with a link                                       *)

RevokeLink(l) ==
  /\ Unrevoked(l)
  /\ link' = [link EXCEPT ![l].revoked = TRUE]
  /\ ended' = ended \cup {link[l].target}
  /\ loose' = IF \E h \in Handlers : At(h, "revoke") /\ work[h].link = l
              THEN loose \cup {link[l].target} ELSE loose
  /\ UNCHANGED <<work, stored, result, renderJobs, pdf>>

\* the new deadline may be in the past, in the future, or none
SetExpiry(l) ==
  /\ Unrevoked(l)
  /\ \E expired \in BOOLEAN : link' = [link EXCEPT ![l].expired = expired]
  /\ UNCHANGED <<work, stored, result, renderJobs, pdf, ended, loose>>

DeadlinePasses(l) ==
  /\ link[l] # None
  /\ ~link[l].expired
  /\ link' = [link EXCEPT ![l].expired = TRUE]
  /\ UNCHANGED <<work, stored, result, renderJobs, pdf, ended, loose>>

RotateTask(step, l) ==
  [op |-> "rotate", step |-> step, target |-> link[l].target, link |-> l]

Rotate(h, l) ==
  /\ Unrevoked(l)
  /\ Begin(h, RotateTask("rotate", l))
  /\ UNCHANGED linkVars

\* the link may have been revoked, or rotated, since it was loaded
IssueRotated(h) ==
  LET l == work[h].link
      t == work[h].target
  IN  /\ At(h, "rotate")
      /\ FreeLinks # {}
      /\ Issue(NewLink, t)
      /\ loose' = IF ~Unrevoked(l) \/ \E o \in OthersAt(h, "revoke") : work[o].link = l
                  THEN loose \cup {t} ELSE loose
      /\ Continue(h, RotateTask("revoke", l))
      /\ UNCHANGED <<stored, result, renderJobs, pdf, ended>>

\* mutant: the target's links are revoked, the new one among them
RevokeAllOfTarget(h) ==
  /\ At(h, "revoke")
  /\ link' = [l \in Links |-> IF l \in LinksOf(work[h].target)
                              THEN [link[l] EXCEPT !.revoked = TRUE] ELSE link[l]]
  /\ Finish(h)
  /\ UNCHANGED <<stored, result, renderJobs, pdf, ended, loose>>

RevokeRotated(h) ==
  /\ At(h, "revoke")
  /\ link' = [link EXCEPT ![work[h].link].revoked = TRUE]
  /\ Finish(h)
  /\ UNCHANGED <<stored, result, renderJobs, pdf, ended, loose>>

\* a rotation that is cut after the first write leaves both links
CutLinkRequest(h) ==
  /\ Cut(h)
  /\ loose' = IF At(h, "revoke") THEN loose \cup {work[h].target} ELSE loose
  /\ UNCHANGED <<stored, result, link, renderJobs, pdf, ended>>

-----------------------------------------------------------------------------
LinkStep(h) ==
  \/ \E t \in Packages : Lookup(h, t)
  \/ PutPackage(h) \/ InsertResult(h) \/ IssueLink(h) \/ EnqueuePdf(h)
  \/ \E l \in Links : Rotate(h, l)
  \/ IssueRotated(h) \/ RevokeRotated(h) \/ CutLinkRequest(h)

LinkNext ==
  \/ \E h \in Handlers : LinkStep(h)
  \/ \E t \in Receipts : IssueReceipt(t)
  \/ \E l \in Links : \/ DownloadPdf(l) \/ RenderPdf(l) \/ RenderFails(l)
                      \/ RevokeLink(l) \/ DeadlinePasses(l) \/ SetExpiry(l)

-----------------------------------------------------------------------------
Rotating(t) == {h \in Handlers : At(h, "revoke") /\ work[h].target = t}

\* A target that was shared has one live link, from the first on, until an
\* administrator revokes it: rotating replaces it and never adds or loses one.
\* While a rotation is between its two writes there are two; a rotation that is
\* cut there, or meets another change of the same link, is the only exception.
RotationLeavesOne ==
  \A t \in LinkTargets \ loose :
    LinksOf(t) # {} =>
      Cardinality(LiveLinks(t)) - Cardinality(Rotating(t)) =
        IF t \in ended THEN 0 ELSE 1
=============================================================================
