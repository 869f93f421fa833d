---------------------------- MODULE AccessProofs ----------------------------
(***************************************************************************)
(* What a person who holds a link or a grant may see follows what the      *)
(* administrators last did, and an approved pairing code is final: for any *)
(* number of targets, links, people, grants, codes, keys, devices and      *)
(* requests in flight.  A lookup answers the question that was asked, and  *)
(* a walk over the pages of a list returns what is in it.                  *)
(***************************************************************************)
EXTENDS AttestationAccess, VerificationLinks, DevicePairing, LookupResults, Paging,
        SequenceTheorems, FiniteSetTheorems, FunctionTheorems, TLAPS

-----------------------------------------------------------------------------
(* Links                                                                    *)

LinkSpec == NoWork /\ LinkInit /\ [][LinkNext]_<<work, linkVars>>

\* a lookup that is about to enqueue a PDF has issued its link
LinkTasks == {task \in LinkTask : task.step = "enqueue" => task.link # None}
LinkTypes == LinkTypeOK /\ WorkIn(LinkTasks)

\* a rotation knows its link and the target of the link
RotationsOK ==
  \A h \in Handlers : At(h, "rotate") \/ At(h, "revoke") =>
    /\ work[h].link \in Links
    /\ link[work[h].link] # None
    /\ link[work[h].link].target = work[h].target

\* the links that rotations have replaced and are about to revoke
Replaced(t) == {work[h].link : h \in Rotating(t)}

\* no link is replaced twice
SoleRotation ==
  \A t \in LinkTargets \ loose : \A h, o \in Rotating(t) : work[h].link = work[o].link => h = o

\* the live links of a target are those being replaced, and one more until an
\* administrator revokes it
LiveShape(t) ==
  IF t \in ended
    THEN LiveLinks(t) = Replaced(t)
    ELSE \E l \in Links \ Replaced(t) : LiveLinks(t) = Replaced(t) \cup {l}

OneLeft == \A t \in LinkTargets \ loose : LinksOf(t) # {} => LiveShape(t)

\* the package of a lookup has no link before the lookup issues one, and until then
\* no other request is about it
LookingUp(h) == At(h, "put") \/ At(h, "insert result") \/ At(h, "issue")
LookupsOK ==
  \A h \in Handlers : LookingUp(h) =>
    /\ work[h].target \in Packages
    /\ LinksOf(work[h].target) = {}
    /\ ~At(h, "put") => work[h].target \in stored
    /\ \A o \in Handlers \ {h} : work[o] # None => work[o].target # work[h].target

\* what has a link was stored, and only what has a link can be revoked
LinkedIsStored ==
  \A t \in LinkTargets :
    /\ LinksOf(t) # {} => (t \in Receipts => t \in result) /\ (t \in Packages => t \in stored)
    /\ t \in ended => LinksOf(t) # {}

LinkInv == LinkTypes /\ RotationsOK /\ SoleRotation /\ OneLeft /\ LookupsOK /\ LinkedIsStored

\* The invariant's last parts speak of links, tasks and targets only.
LEMMA LinkInitOK == NoWork /\ LinkInit => LinkInv
BY DEF NoWork, LinkInit, LinkInv, LinkTypes, LinkTypeOK, WorkIn, RotationsOK, SoleRotation,
       OneLeft, LookupsOK, LookingUp, LinkedIsStored, LinksOf, Rotating, At

\* A target without links has no rotation and no live link.
LEMMA NothingOfUnlinked ==
  ASSUME LinkInv, NEW t \in LinkTargets, LinksOf(t) = {}
  PROVE  LiveLinks(t) = {} /\ Rotating(t) = {} /\ Replaced(t) = {} /\ t \notin ended
<1>1. Rotating(t) = {}
  BY DEF LinkInv, RotationsOK, Rotating, LinksOf
<1> QED
  BY <1>1 DEF LinkInv, LinkedIsStored, LiveLinks, Replaced

\* A replaced link is a link of the target.
LEMMA ReplacedIsOfTarget ==
  ASSUME LinkInv, NEW t \in LinkTargets, NEW l \in Replaced(t)
  PROVE  l \in LinksOf(t)
BY DEF LinkInv, RotationsOK, Replaced, Rotating, LinksOf

\* A new link is a live link of its target, and changes no other.
LEMMA Issued ==
  ASSUME LinkInv, NEW t \in LinkTargets, FreeLinks # {}, Issue(NewLink, t)
  PROVE  /\ NewLink \in Links /\ link[NewLink] = None
         /\ \A s \in LinkTargets : NewLink \notin LinksOf(s)
         /\ link' \in [Links -> Link \cup {None}]
         /\ link'[NewLink] # None /\ link'[NewLink].target = t
         /\ \A l \in Links \ {NewLink} : link'[l] = link[l]
         /\ LinksOf(t)' = LinksOf(t) \cup {NewLink}
         /\ LiveLinks(t)' = LiveLinks(t) \cup {NewLink}
         /\ \A s \in LinkTargets \ {t} : LinksOf(s)' = LinksOf(s) /\ LiveLinks(s)' = LiveLinks(s)
<1> DEFINE new == [target |-> t, revoked |-> FALSE, expired |-> FALSE]
<1>1. NewLink \in Links /\ link[NewLink] = None
  BY DEF NewLink, FreeLinks
<1>2. new \in Link /\ new # None /\ new.target = t /\ ~new.revoked
  <2>1. new \in Link
    BY DEF Link
  <2> QED
    BY <2>1, LinkAssumption
<1>3. link' = [link EXCEPT ![NewLink] = new]
  BY DEF Issue
<1> HIDE DEF new
<1>4. /\ link' \in [Links -> Link \cup {None}]
      /\ link'[NewLink] = new
      /\ \A l \in Links \ {NewLink} : link'[l] = link[l]
  BY <1>1, <1>2, <1>3 DEF LinkInv, LinkTypes, LinkTypeOK
<1>5. \A s \in LinkTargets : NewLink \notin LinksOf(s)
  BY <1>1 DEF LinksOf
<1>6. /\ LinksOf(t)' = LinksOf(t) \cup {NewLink}
      /\ \A s \in LinkTargets \ {t} : LinksOf(s)' = LinksOf(s)
  BY <1>1, <1>2, <1>4 DEF LinksOf
<1>7. /\ LiveLinks(t)' = LiveLinks(t) \cup {NewLink}
      /\ \A s \in LinkTargets \ {t} : LiveLinks(s)' = LiveLinks(s)
  BY <1>1, <1>2, <1>4, <1>5, <1>6 DEF LiveLinks, Unrevoked, LinksOf
<1> QED
  BY <1>1, <1>2, <1>4, <1>5, <1>6, <1>7

\* Only the flags of one link change.
LEMMA LinkRevoked ==
  ASSUME LinkInv, NEW l \in Links, link[l] # None, link' = [link EXCEPT ![l].revoked = TRUE]
  PROVE  /\ link' \in [Links -> Link \cup {None}]
         /\ link'[l] # None /\ link'[l].target = link[l].target
         /\ \A k \in Links \ {l} : link'[k] = link[k]
         /\ \A s \in LinkTargets : LinksOf(s)' = LinksOf(s) /\ LiveLinks(s)' = LiveLinks(s) \ {l}
<1> DEFINE new == [link[l] EXCEPT !.revoked = TRUE]
<1>1. new \in Link /\ new # None /\ new.target = link[l].target /\ new.revoked
  BY LinkAssumption DEF LinkInv, LinkTypes, LinkTypeOK, Link
<1>2. /\ link' \in [Links -> Link \cup {None}]
      /\ link'[l] = new
      /\ \A k \in Links \ {l} : link'[k] = link[k]
  BY <1>1 DEF LinkInv, LinkTypes, LinkTypeOK
<1> HIDE DEF new
<1>3. \A s \in LinkTargets : LinksOf(s)' = LinksOf(s)
  <2>1. \A k \in Links : /\ link'[k] # None <=> link[k] # None
                         /\ link[k] # None => link'[k].target = link[k].target
    BY <1>1, <1>2
  <2> QED
    BY <2>1 DEF LinksOf
<1>4. \A s \in LinkTargets : LiveLinks(s)' = LiveLinks(s) \ {l}
  BY <1>1, <1>2, <1>3 DEF LiveLinks, Unrevoked, LinksOf
<1> QED
  BY <1>1, <1>2, <1>3, <1>4

\* An expiry that is set or passed leaves the links of every target as they were.
LEMMA LinkExpires ==
  ASSUME LinkInv, NEW l \in Links, link[l] # None, NEW e \in BOOLEAN,
         link' = [link EXCEPT ![l].expired = e]
  PROVE  /\ link' \in [Links -> Link \cup {None}]
         /\ \A k \in Links : link[k] # None => link'[k] # None /\ link'[k].target = link[k].target
         /\ \A s \in LinkTargets : LinksOf(s)' = LinksOf(s) /\ LiveLinks(s)' = LiveLinks(s)
<1> DEFINE new == [link[l] EXCEPT !.expired = e]
<1>1. /\ new \in Link /\ new # None
      /\ new.target = link[l].target /\ new.revoked = link[l].revoked
  BY LinkAssumption DEF LinkInv, LinkTypes, LinkTypeOK, Link
<1>2. /\ link' \in [Links -> Link \cup {None}]
      /\ link'[l] = new
      /\ \A k \in Links \ {l} : link'[k] = link[k]
  BY <1>1 DEF LinkInv, LinkTypes, LinkTypeOK
<1> HIDE DEF new
<1>3. \A s \in LinkTargets : LinksOf(s)' = LinksOf(s)
  <2>1. \A k \in Links : /\ link'[k] # None <=> link[k] # None
                         /\ link[k] # None => link'[k].target = link[k].target
    BY <1>1, <1>2
  <2> QED
    BY <2>1 DEF LinksOf
<1>4. \A s \in LinkTargets : LiveLinks(s)' = LiveLinks(s)
  BY <1>1, <1>2, <1>3 DEF LiveLinks, Unrevoked, LinksOf
<1> QED
  BY <1>1, <1>2, <1>3, <1>4

\* One handler changes its task.
LEMMA TaskSet ==
  ASSUME WorkIn(LinkTasks), NEW h \in Handlers, NEW task \in LinkTask \cup {None},
         task # None /\ task.step = "enqueue" => task.link # None,
         work' = [work EXCEPT ![h] = task]
  PROVE  /\ WorkIn(LinkTasks)'
         /\ work'[h] = task
         /\ \A o \in Handlers \ {h} : work'[o] = work[o]
BY DEF WorkIn, LinkTasks

\* A handler that is not about to revoke, before or after, leaves the rotations.
LEMMA RotationsKept ==
  ASSUME NEW h \in Handlers, \A o \in Handlers \ {h} : work'[o] = work[o],
         ~At(h, "revoke"), ~At(h, "revoke")'
  PROVE  \A t \in LinkTargets : Rotating(t)' = Rotating(t) /\ Replaced(t)' = Replaced(t)
<1>1. \A t \in LinkTargets : Rotating(t)' = Rotating(t)
  BY DEF Rotating, At
<1>2. \A t \in LinkTargets : \A o \in Rotating(t) : work'[o] = work[o]
  BY DEF Rotating
<1> QED
  BY <1>1, <1>2 DEF Replaced

\* Nothing happens to the links, and no rotation begins or ends its second write.
LEMMA LinksRest ==
  ASSUME LinkInv, LinkTypes', NEW h \in Handlers,
         \A o \in Handlers \ {h} : work'[o] = work[o],
         ~At(h, "revoke"), ~At(h, "revoke")',
         UNCHANGED <<link, ended>>, loose \subseteq loose',
         stored \subseteq stored', result \subseteq result',
         At(h, "rotate")' => /\ work'[h].link \in Links
                             /\ link[work'[h].link] # None
                             /\ link[work'[h].link].target = work'[h].target,
         LookingUp(h)' =>
           /\ work'[h].target \in Packages
           /\ LinksOf(work'[h].target) = {}
           /\ ~At(h, "put")' => work'[h].target \in stored'
           /\ \A o \in Handlers \ {h} : work[o] # None => work[o].target # work'[h].target,
         \A o \in Handlers \ {h} : LookingUp(o) => work'[h] = None \/ work'[h].target # work[o].target
  PROVE  LinkInv'
<1>1. RotationsOK'
  BY DEF LinkInv, RotationsOK, At
<1>2. \A t \in LinkTargets : /\ Rotating(t)' = Rotating(t) /\ Replaced(t)' = Replaced(t)
                             /\ LinksOf(t)' = LinksOf(t) /\ LiveLinks(t)' = LiveLinks(t)
  BY RotationsKept DEF LinksOf, LiveLinks, Unrevoked
<1>3. SoleRotation'
  BY <1>2 DEF LinkInv, SoleRotation, Rotating, At
<1>4. OneLeft'
  BY <1>2 DEF LinkInv, OneLeft, LiveShape
<1>5. LookupsOK'
  <2> SUFFICES ASSUME NEW o \in Handlers, LookingUp(o)'
               PROVE  /\ work'[o].target \in Packages
                      /\ (LinksOf(work[o].target) = {})'
                      /\ ~At(o, "put")' => work'[o].target \in stored'
                      /\ \A p \in Handlers \ {o} : work'[p] # None => work'[p].target # work'[o].target
    BY DEF LookupsOK
  <2>1. CASE o = h
    <3>1. LookingUp(h)'
      BY <2>1
    <3>2. /\ work'[h].target \in Packages
          /\ LinksOf(work'[h].target) = {}
          /\ ~At(h, "put")' => work'[h].target \in stored'
          /\ \A p \in Handlers \ {h} : work[p] # None => work[p].target # work'[h].target
      BY <3>1
    <3>3. (LinksOf(work[h].target) = {})'
      BY <3>2 DEF LinksOf
    <3>4. \A p \in Handlers \ {h} : work'[p] # None => work'[p].target # work'[h].target
      BY <3>2
    <3> QED
      BY <2>1, <3>2, <3>3, <3>4
  <2>2. CASE o # h
    <3>1. LookingUp(o) /\ work'[o] = work[o] /\ (At(o, "put")' <=> At(o, "put"))
      BY <2>2 DEF LookingUp, At
    <3>2. /\ work[o].target \in Packages
          /\ LinksOf(work[o].target) = {}
          /\ ~At(o, "put") => work[o].target \in stored
          /\ \A p \in Handlers \ {o} : work[p] # None => work[p].target # work[o].target
      BY <3>1 DEF LinkInv, LookupsOK
    <3>3. (LinksOf(work[o].target) = {})'
      BY <1>2, <3>1, <3>2 DEF LinkTargets, LinksOf
    <3>4. \A p \in Handlers \ {o} : work'[p] # None => work'[p].target # work[o].target
      BY <2>2, <3>1, <3>2
    <3> QED
      BY <3>1, <3>2, <3>3, <3>4
  <2> QED
    BY <2>1, <2>2
<1>6. LinkedIsStored'
  BY <1>2 DEF LinkInv, LinkedIsStored
<1> QED
  BY <1>1, <1>3, <1>4, <1>5, <1>6 DEF LinkInv

\* The lookups under way are left alone, and so are their packages.
LEMMA LookupsKept ==
  ASSUME LinkInv, stored \subseteq stored',
         \A o \in Handlers : LookingUp(o)' => work'[o] = work[o],
         \A o \in Handlers, t \in Packages :
           LookingUp(o)' /\ work[o].target = t => LinksOf(t)' = LinksOf(t),
         \A o, p \in Handlers : LookingUp(o)' /\ o # p /\ work'[p] # None =>
           work[p] # None /\ work'[p].target = work[p].target
  PROVE  LookupsOK'
<1> SUFFICES ASSUME NEW o \in Handlers, LookingUp(o)'
             PROVE  /\ work'[o].target \in Packages
                    /\ (LinksOf(work[o].target) = {})'
                    /\ ~At(o, "put")' => work'[o].target \in stored'
                    /\ \A p \in Handlers \ {o} : work'[p] # None => work'[p].target # work'[o].target
  BY DEF LookupsOK
<1>1. PICK t : t = work[o].target
  OBVIOUS
<1>2. work'[o] = work[o]
  OBVIOUS
<1>3. LookingUp(o) /\ (At(o, "put")' <=> At(o, "put"))
  BY <1>2 DEF LookingUp, At
<1>4. /\ t \in Packages /\ LinksOf(t) = {}
      /\ ~At(o, "put") => t \in stored
      /\ \A p \in Handlers \ {o} : work[p] # None => work[p].target # t
  BY <1>1, <1>3 DEF LinkInv, LookupsOK
<1>5. LinksOf(t)' = LinksOf(t)
  BY <1>1, <1>3, <1>4
<1>6. (LinksOf(work[o].target) = {})'
  BY <1>1, <1>2, <1>4, <1>5
<1>7. \A p \in Handlers \ {o} : work'[p] # None => work'[p].target # work'[o].target
  BY <1>1, <1>2, <1>4
<1> QED
  BY <1>1, <1>2, <1>3, <1>4, <1>6, <1>7

\* Only the rows beside the links change.
LEMMA RowsBesideLinks ==
  ASSUME LinkInv, UNCHANGED <<work, stored, result, link, ended, loose>>,
         renderJobs' \subseteq Links, pdf' \in [LinkTargets -> Links \cup {None}]
  PROVE  LinkInv'
<1>1. \A t : /\ Rotating(t)' = Rotating(t) /\ Replaced(t)' = Replaced(t)
             /\ LinksOf(t)' = LinksOf(t) /\ LiveLinks(t)' = LiveLinks(t)
  BY DEF Rotating, Replaced, At, LinksOf, LiveLinks, Unrevoked
<1>2. LinkTypes' /\ RotationsOK' /\ LinkedIsStored'
  BY <1>1 DEF LinkInv, LinkTypes, LinkTypeOK, WorkIn, RotationsOK, At, LinkedIsStored
<1>3. SoleRotation' /\ OneLeft'
  BY <1>1 DEF LinkInv, SoleRotation, OneLeft, LiveShape
<1>4. LookupsOK'
  BY DEF LinkInv, LookupsOK, LookingUp, LinksOf, At
<1> QED
  BY <1>2, <1>3, <1>4 DEF LinkInv

\* The cached PDF of a link is no part of what the invariant says.
LEMMA PdfStepsOK ==
  ASSUME LinkInv, NEW l \in Links, DownloadPdf(l) \/ RenderPdf(l) \/ RenderFails(l)
  PROVE  LinkInv'
<1>1. UNCHANGED <<work, stored, result, link, ended, loose>>
  BY DEF DownloadPdf, RenderPdf, RenderFails
<1>2. renderJobs' \subseteq Links /\ pdf' \in [LinkTargets -> Links \cup {None}]
  BY DEF DownloadPdf, RenderPdf, RenderFails, LinkInv, LinkTypes, LinkTypeOK
<1> QED
  BY <1>1, <1>2, RowsBesideLinks

\* A lookup begins; it holds no link yet.
LEMMA LookupOK ==
  ASSUME LinkInv, NEW h \in Handlers, NEW t \in Packages, Lookup(h, t)
  PROVE  LinkInv'
<1> DEFINE task == LookupTask("put", t, None)
<1>1. task \in LinkTask /\ task # None /\ task.step = "put" /\ task.target = t
  <2>1. task \in LinkTask
    BY DEF LookupTask, LinkTask, LinkTargets
  <2> QED
    BY <2>1, LinkAssumption DEF LookupTask
<1>2. work[h] = None /\ work' = [work EXCEPT ![h] = task] /\ UNCHANGED linkVars
  BY DEF Lookup, Begin
<1> HIDE DEF task
<1>3. /\ WorkIn(LinkTasks)' /\ work'[h] = task
      /\ \A o \in Handlers \ {h} : work'[o] = work[o]
  BY <1>1, <1>2, TaskSet DEF LinkInv, LinkTypes
<1>4. LinksOf(t) = {}
  BY DEF Lookup, LinkInv, LinkedIsStored, LinkTargets
<1>5. \A o \in Handlers : work[o] # None => work[o].target # t
  BY DEF Lookup
<1>6. LinkTypes'
  BY <1>2, <1>3 DEF LinkInv, LinkTypes, LinkTypeOK, linkVars
<1>7. ~At(h, "revoke") /\ ~At(h, "revoke")' /\ ~At(h, "rotate")' /\ At(h, "put")'
  BY <1>1, <1>2, <1>3 DEF At
<1>8. \A o \in Handlers \ {h} : LookingUp(o) => work[o].target # t
  BY <1>5 DEF LookingUp, At
<1> QED
  BY <1>1, <1>2, <1>3, <1>4, <1>5, <1>6, <1>7, <1>8, LinksRest DEF linkVars

\* A lookup goes on with its own package.
LEMMA LookupMoves ==
  ASSUME LinkInv, NEW h \in Handlers, At(h, "put") \/ At(h, "insert result"),
         NEW step \in {"insert result", "issue"},
         Continue(h, LookupTask(step, work[h].target, None)),
         UNCHANGED <<link, renderJobs, pdf, ended, loose>>,
         stored \subseteq stored', result \subseteq result',
         work[h].target \in stored',
         stored' \subseteq LinkTargets, result' \subseteq LinkTargets
  PROVE  LinkInv'
<1> DEFINE t == work[h].target
           task == LookupTask(step, t, None)
<1>1. /\ t \in Packages /\ LinksOf(t) = {}
      /\ \A o \in Handlers \ {h} : work[o] # None => work[o].target # t
  BY DEF LinkInv, LookupsOK, LookingUp
<1>2. task \in LinkTask /\ task # None /\ task.step = step /\ task.target = t
  <2>1. task \in LinkTask
    BY <1>1 DEF LookupTask, LinkTask, LinkTargets
  <2> QED
    BY <2>1, LinkAssumption DEF LookupTask
<1>3. /\ WorkIn(LinkTasks)' /\ work'[h] = task
      /\ \A o \in Handlers \ {h} : work'[o] = work[o]
  BY <1>2, TaskSet DEF Continue, LinkInv, LinkTypes
<1> HIDE DEF task
<1>4. LinkTypes'
  BY <1>3 DEF LinkInv, LinkTypes, LinkTypeOK
<1>5. ~At(h, "revoke") /\ ~At(h, "revoke")' /\ ~At(h, "rotate")' /\ ~At(h, "put")'
  BY <1>2, <1>3 DEF At
<1>6. \A o \in Handlers \ {h} : LookingUp(o) => work[o].target # t
  BY <1>1 DEF LookingUp, At
<1> QED
  BY <1>1, <1>2, <1>3, <1>4, <1>5, <1>6, LinksRest

\* A lookup that stores its package or its result row goes on without a link.
LEMMA PutPackageOK ==
  ASSUME LinkInv, NEW h \in Handlers, PutPackage(h) \/ InsertResult(h)
  PROVE  LinkInv'
<1>1. At(h, "put") \/ At(h, "insert result")
  BY DEF PutPackage, InsertResult
<1>2. work[h].target \in LinkTargets /\ (At(h, "insert result") => work[h].target \in stored)
  BY <1>1 DEF LinkInv, LookupsOK, LookingUp, LinkTargets, At
<1>3. stored \subseteq LinkTargets /\ result \subseteq LinkTargets
  BY DEF LinkInv, LinkTypes, LinkTypeOK
<1>4. CASE PutPackage(h)
  BY <1>1, <1>2, <1>3, <1>4, LookupMoves DEF PutPackage
<1>5. CASE InsertResult(h)
  BY <1>1, <1>2, <1>3, <1>5, LookupMoves DEF InsertResult
<1> QED
  BY <1>4, <1>5

\* A target gets its first link.
LEMMA FirstLink ==
  ASSUME LinkInv, LinkTypes', NEW t \in LinkTargets, FreeLinks # {}, Issue(NewLink, t),
         LinksOf(t) = {}, UNCHANGED <<ended, loose>>,
         stored \subseteq stored', result \subseteq result',
         (t \in Receipts => t \in result') /\ (t \in Packages => t \in stored'),
         \A s \in LinkTargets : Rotating(s)' = Rotating(s) /\ Replaced(s)' = Replaced(s),
         \A o \in Handlers : At(o, "rotate")' \/ At(o, "revoke")' =>
           work'[o] = work[o] /\ work[o] # None,
         \A o \in Handlers : LookingUp(o)' => work'[o] = work[o] /\ work[o].target # t,
         \A o, p \in Handlers : LookingUp(o)' /\ o # p /\ work'[p] # None =>
           work[p] # None /\ work'[p].target = work[p].target
  PROVE  LinkInv'
<1>1. /\ NewLink \in Links /\ link[NewLink] = None
      /\ \A s \in LinkTargets : NewLink \notin LinksOf(s)
      /\ \A l \in Links \ {NewLink} : link'[l] = link[l]
      /\ LinksOf(t)' = LinksOf(t) \cup {NewLink}
      /\ LiveLinks(t)' = LiveLinks(t) \cup {NewLink}
      /\ \A s \in LinkTargets \ {t} : LinksOf(s)' = LinksOf(s) /\ LiveLinks(s)' = LiveLinks(s)
  BY Issued
<1>2. LiveLinks(t) = {} /\ Rotating(t) = {} /\ Replaced(t) = {} /\ t \notin ended
  BY NothingOfUnlinked
<1>3. RotationsOK'
  BY <1>1 DEF LinkInv, RotationsOK, At
<1>4. SoleRotation'
  <2> SUFFICES ASSUME NEW s \in LinkTargets \ loose, NEW o \in Rotating(s), NEW p \in Rotating(s),
                      work'[o].link = work'[p].link
               PROVE  o = p
    BY DEF SoleRotation
  <2>1. At(o, "revoke")' /\ At(p, "revoke")' /\ o \in Handlers /\ p \in Handlers
    BY DEF Rotating
  <2>2. work'[o] = work[o] /\ work'[p] = work[p]
    BY <2>1
  <2> QED
    BY <2>2 DEF LinkInv, SoleRotation
<1>5. OneLeft'
  <2> SUFFICES ASSUME NEW s \in LinkTargets \ loose, LinksOf(s)' # {}
               PROVE  LiveShape(s)'
    BY DEF OneLeft
  <2>1. CASE s = t
    BY <1>1, <1>2, <2>1 DEF LiveShape
  <2>2. CASE s # t
    BY <1>1, <2>2 DEF LinkInv, OneLeft, LiveShape
  <2> QED
    BY <2>1, <2>2
<1>6. LookupsOK'
  <2>1. \A o \in Handlers : LookingUp(o)' => work'[o] = work[o]
    OBVIOUS
  <2>2. \A o \in Handlers, s \in Packages : s # t => LinksOf(s)' = LinksOf(s)
    BY <1>1 DEF LinkTargets
  <2> QED
    BY <2>1, <2>2, LookupsKept
<1>7. LinkedIsStored'
  BY <1>1, <1>2 DEF LinkInv, LinkedIsStored
<1> QED
  BY <1>3, <1>4, <1>5, <1>6, <1>7 DEF LinkInv

\* A receipt's first link is the only one of its target.
LEMMA IssueReceiptOK ==
  ASSUME LinkInv, NEW t \in Receipts, IssueReceipt(t)
  PROVE  LinkInv'
<1>1. /\ t \in LinkTargets /\ t \notin Packages /\ LinksOf(t) = {}
  BY LinkAssumption DEF IssueReceipt, LinkInv, LinkedIsStored, LinkTargets
<1>2. /\ FreeLinks # {} /\ Issue(NewLink, t)
      /\ stored' = stored \cup {t} /\ result' = result \cup {t}
      /\ UNCHANGED <<work, renderJobs, pdf, ended, loose>>
  BY DEF IssueReceipt
<1>3. LinkTypes'
  BY <1>1, <1>2, Issued DEF LinkInv, LinkTypes, LinkTypeOK, WorkIn
<1>4. \A s \in LinkTargets : Rotating(s)' = Rotating(s) /\ Replaced(s)' = Replaced(s)
  BY <1>2 DEF Rotating, Replaced, At
<1>5. \A o \in Handlers : LookingUp(o)' => work'[o] = work[o] /\ work[o].target # t
  BY <1>1, <1>2 DEF LookingUp, At, LinkInv, LookupsOK
<1>6. \A o \in Handlers : At(o, "rotate")' \/ At(o, "revoke")' => work'[o] = work[o] /\ work[o] # None
  BY <1>2 DEF At
<1> QED
  BY <1>1, <1>2, <1>3, <1>4, <1>5, <1>6, FirstLink

\* A lookup result gets its first link.
LEMMA IssueLinkOK ==
  ASSUME LinkInv, NEW h \in Handlers, IssueLink(h)
  PROVE  LinkInv'
<1> DEFINE t == work[h].target
           task == LookupTask("enqueue", t, NewLink)
<1>1. /\ t \in Packages /\ t \in LinkTargets /\ LinksOf(t) = {} /\ t \in stored
      /\ \A o \in Handlers \ {h} : work[o] # None => work[o].target # t
  BY DEF IssueLink, LinkInv, LookupsOK, LookingUp, At, LinkTargets
<1>2. /\ FreeLinks # {} /\ Issue(NewLink, t) /\ Continue(h, task) /\ work[h] # None
      /\ work[h].step = "issue"
      /\ UNCHANGED <<stored, result, renderJobs, pdf, ended, loose>>
  BY DEF IssueLink, At
<1>3. /\ NewLink \in Links /\ link' \in [Links -> Link \cup {None}]
  BY <1>1, <1>2, Issued
<1>4. /\ task \in LinkTask /\ task # None /\ task.step = "enqueue" /\ task.target = t
      /\ task.link # None
  <2>1. task \in LinkTask
    BY <1>1, <1>3 DEF LookupTask, LinkTask
  <2> QED
    BY <1>3, <2>1, LinkAssumption DEF LookupTask
<1>5. /\ WorkIn(LinkTasks)' /\ work'[h] = task
      /\ \A o \in Handlers \ {h} : work'[o] = work[o]
  BY <1>2, <1>4, TaskSet DEF Continue, LinkInv, LinkTypes
<1> HIDE DEF task
<1>6. LinkTypes'
  BY <1>2, <1>3, <1>5 DEF LinkInv, LinkTypes, LinkTypeOK
<1>7. ~At(h, "revoke") /\ ~At(h, "revoke")' /\ ~At(h, "rotate")' /\ ~LookingUp(h)'
  BY <1>2, <1>4, <1>5 DEF At, LookingUp
<1>8. \A s \in LinkTargets : Rotating(s)' = Rotating(s) /\ Replaced(s)' = Replaced(s)
  BY <1>5, <1>7, RotationsKept
<1>9. \A o \in Handlers : At(o, "rotate")' \/ At(o, "revoke")' => work'[o] = work[o] /\ work[o] # None
  BY <1>5, <1>7 DEF At
<1>10. \A o \in Handlers : LookingUp(o)' => work'[o] = work[o] /\ work[o].target # t
  BY <1>1, <1>5, <1>7 DEF At, LookingUp
<1>11. \A o, p \in Handlers : LookingUp(o)' /\ o # p /\ work'[p] # None =>
           work[p] # None /\ work'[p].target = work[p].target
  BY <1>2, <1>4, <1>5
<1> QED
  BY <1>1, <1>2, <1>6, <1>8, <1>9, <1>10, <1>11, FirstLink, LinkAssumption

\* A lookup or a rotation that ends before its second write.
LEMMA RequestEnds ==
  ASSUME LinkInv, NEW h \in Handlers, Finish(h), ~At(h, "revoke"),
         UNCHANGED <<stored, result, link, pdf, ended>>, loose' = loose, renderJobs' \subseteq Links
  PROVE  LinkInv'
<1>1. /\ WorkIn(LinkTasks)' /\ work'[h] = None
      /\ \A o \in Handlers \ {h} : work'[o] = work[o]
  BY TaskSet DEF Finish, Continue, LinkInv, LinkTypes
<1>2. LinkTypes'
  BY <1>1 DEF LinkInv, LinkTypes, LinkTypeOK
<1>3. ~At(h, "revoke")' /\ ~At(h, "rotate")' /\ ~LookingUp(h)'
  BY <1>1 DEF At, LookingUp
<1> QED
  BY <1>1, <1>2, <1>3, LinksRest

\* A lookup ends once its link is issued.
LEMMA EnqueuePdfOK ==
  ASSUME LinkInv, NEW h \in Handlers, EnqueuePdf(h)
  PROVE  LinkInv'
<1>1. work[h].link \in Links /\ ~At(h, "revoke")
  BY DEF EnqueuePdf, At, LinkInv, LinkTypes, WorkIn, LinkTasks, LinkTask
<1> QED
  BY <1>1, RequestEnds DEF EnqueuePdf, LinkInv, LinkTypes, LinkTypeOK

\* The task of a rotation knows its link and the target of the link.
LEMMA RotateTaskOK ==
  ASSUME LinkInv, NEW l \in Links, link[l] # None, NEW step \in {"rotate", "revoke"}
  PROVE  /\ RotateTask(step, l) \in LinkTask /\ RotateTask(step, l) # None
         /\ RotateTask(step, l).step = step /\ RotateTask(step, l).link = l
         /\ RotateTask(step, l).target = link[l].target /\ link[l].target \in LinkTargets
<1>1. link[l].target \in LinkTargets
  BY DEF LinkInv, LinkTypes, LinkTypeOK, Link
<1>2. RotateTask(step, l) \in LinkTask
  BY <1>1 DEF RotateTask, LinkTask
<1> QED
  BY <1>1, <1>2, LinkAssumption DEF RotateTask

\* A rotation begins with the link it will replace.
LEMMA RotateOK ==
  ASSUME LinkInv, NEW h \in Handlers, NEW l \in Links, Rotate(h, l)
  PROVE  LinkInv'
<1> DEFINE task == RotateTask("rotate", l)
<1>1. /\ task \in LinkTask /\ task # None /\ task.step = "rotate" /\ task.link = l
      /\ task.target = link[l].target /\ link[l] # None
  BY RotateTaskOK DEF Rotate, Unrevoked
<1>2. work[h] = None /\ work' = [work EXCEPT ![h] = task] /\ UNCHANGED linkVars
  BY DEF Rotate, Begin
<1> HIDE DEF task
<1>3. /\ WorkIn(LinkTasks)' /\ work'[h] = task
      /\ \A o \in Handlers \ {h} : work'[o] = work[o]
  BY <1>1, <1>2, TaskSet DEF LinkInv, LinkTypes
<1>4. LinkTypes'
  BY <1>2, <1>3 DEF LinkInv, LinkTypes, LinkTypeOK, linkVars
<1>5. ~At(h, "revoke") /\ ~At(h, "revoke")' /\ ~LookingUp(h)'
  BY <1>1, <1>2, <1>3 DEF At, LookingUp
<1>6. \A o \in Handlers \ {h} : LookingUp(o) => work[o].target # task.target
  BY <1>1 DEF LinkInv, LookupsOK, LinksOf
<1> QED
  BY <1>1, <1>2, <1>3, <1>4, <1>5, <1>6, LinksRest DEF linkVars

\* Deadlines change which links open, not which are live.
LEMMA ExpiryOK ==
  ASSUME LinkInv, NEW l \in Links, SetExpiry(l) \/ DeadlinePasses(l)
  PROVE  LinkInv'
<1>1. PICK e \in BOOLEAN : link' = [link EXCEPT ![l].expired = e]
  BY DEF SetExpiry, DeadlinePasses
<1>2. link[l] # None /\ UNCHANGED <<work, stored, result, renderJobs, pdf, ended, loose>>
  BY DEF SetExpiry, DeadlinePasses, Unrevoked
<1>3. /\ link' \in [Links -> Link \cup {None}]
      /\ \A k \in Links : link[k] # None => link'[k] # None /\ link'[k].target = link[k].target
      /\ \A s \in LinkTargets : LinksOf(s)' = LinksOf(s) /\ LiveLinks(s)' = LiveLinks(s)
  BY <1>1, <1>2, LinkExpires
<1>4. \A s : Rotating(s)' = Rotating(s) /\ Replaced(s)' = Replaced(s)
  BY <1>2 DEF Rotating, Replaced, At
<1>5. LinkTypes' /\ RotationsOK' /\ LinkedIsStored'
  BY <1>2, <1>3 DEF LinkInv, LinkTypes, LinkTypeOK, WorkIn, RotationsOK, At, LinkedIsStored
<1>6. SoleRotation' /\ OneLeft'
  BY <1>2, <1>3, <1>4 DEF LinkInv, SoleRotation, OneLeft, LiveShape
<1>7. LookupsOK'
  BY <1>2, <1>3, LookupsKept DEF LinkTargets
<1> QED
  BY <1>5, <1>6, <1>7 DEF LinkInv

\* Revoking a link that a rotation is replacing, whoever does it, leaves the target to
\* whatever the rotation does; any other live link of a target was its only one.
LEMMA RevokeLinkOK ==
  ASSUME LinkInv, NEW l \in Links, RevokeLink(l)
  PROVE  LinkInv'
<1> PICK t : t = link[l].target
  OBVIOUS
<1>1. link[l] # None /\ ~link[l].revoked /\ UNCHANGED <<work, stored, result, renderJobs, pdf>>
      /\ link' = [link EXCEPT ![l].revoked = TRUE] /\ ended' = ended \cup {t}
  BY DEF RevokeLink, Unrevoked
<1>2. /\ loose \subseteq loose' /\ loose' \subseteq loose \cup {t}
      /\ (\E h \in Handlers : At(h, "revoke") /\ work[h].link = l) => t \in loose'
  BY DEF RevokeLink
<1>3. /\ link' \in [Links -> Link \cup {None}]
      /\ link'[l] # None /\ link'[l].target = t
      /\ \A k \in Links \ {l} : link'[k] = link[k]
      /\ \A s \in LinkTargets : LinksOf(s)' = LinksOf(s) /\ LiveLinks(s)' = LiveLinks(s) \ {l}
  BY <1>1, LinkRevoked
<1>4. t \in LinkTargets /\ l \in LiveLinks(t) /\ \A s \in LinkTargets \ {t} : l \notin LiveLinks(s)
  BY <1>1 DEF LinkInv, LinkTypes, LinkTypeOK, Link, LiveLinks, LinksOf, Unrevoked
<1>5. \A s : Rotating(s)' = Rotating(s) /\ Replaced(s)' = Replaced(s)
  BY <1>1 DEF Rotating, Replaced, At
<1>6. LinkTypes'
  BY <1>1, <1>2, <1>3, <1>4 DEF LinkInv, LinkTypes, LinkTypeOK, WorkIn
<1>7. RotationsOK'
  BY <1>1, <1>3 DEF LinkInv, RotationsOK, At
<1>8. SoleRotation'
  BY <1>1, <1>2, <1>5 DEF LinkInv, SoleRotation
<1>9. OneLeft'
  <2> SUFFICES ASSUME NEW s \in LinkTargets \ loose', LinksOf(s)' # {}
               PROVE  LiveShape(s)'
    BY DEF OneLeft
  <2>1. LiveShape(s) /\ s \notin loose
    BY <1>2, <1>3 DEF LinkInv, OneLeft
  <2>2. CASE s = t
    <3>1. l \notin Replaced(t)
      BY <1>2, <2>2 DEF Replaced, Rotating
    <3>2. LiveLinks(t) \ {l} = Replaced(t)
      BY <1>4, <2>1, <2>2, <3>1 DEF LiveShape
    <3> QED
      BY <1>1, <1>3, <1>5, <2>2, <3>2 DEF LiveShape
  <2>3. CASE s # t
    BY <1>1, <1>3, <1>4, <1>5, <2>1, <2>3 DEF LiveShape
  <2> QED
    BY <2>2, <2>3
<1>10. LookupsOK'
  BY <1>1, <1>3, LookupsKept DEF LinkTargets
<1>11. LinkedIsStored'
  BY <1>1, <1>3, <1>4 DEF LinkInv, LinkedIsStored, LiveLinks
<1> QED
  BY <1>6, <1>7, <1>8, <1>9, <1>10, <1>11 DEF LinkInv

\* The first write of a rotation: the old link is to be replaced, the new one is left.
LEMMA IssueRotatedOK ==
  ASSUME LinkInv, NEW h \in Handlers, IssueRotated(h)
  PROVE  LinkInv'
<1> PICK t, l, n : t = work[h].target /\ l = work[h].link /\ n = NewLink
  OBVIOUS
<1> PICK task : task = RotateTask("revoke", l)
  OBVIOUS
<1>1. /\ work[h] # None /\ work[h].step = "rotate" /\ FreeLinks # {} /\ Issue(NewLink, t)
      /\ Continue(h, task) /\ UNCHANGED <<stored, result, renderJobs, pdf, ended>>
  BY DEF IssueRotated, At
<1>2. /\ loose \subseteq loose' /\ loose' \subseteq loose \cup {t}
      /\ t \notin loose' =>
           Unrevoked(l) /\ \A o \in Handlers \ {h} : At(o, "revoke") => work[o].link # l
  BY DEF IssueRotated, OthersAt
<1>3. l \in Links /\ link[l] # None /\ link[l].target = t
  BY <1>1 DEF LinkInv, RotationsOK, At
<1>4. /\ task \in LinkTask /\ task # None /\ task.step = "revoke" /\ task.link = l
      /\ task.target = t /\ t \in LinkTargets
  BY <1>3, RotateTaskOK
<1>5. /\ n \in Links /\ link[n] = None
      /\ \A s \in LinkTargets : n \notin LinksOf(s)
      /\ link' \in [Links -> Link \cup {None}]
      /\ link'[n] # None /\ link'[n].target = t
      /\ \A k \in Links \ {n} : link'[k] = link[k]
      /\ LinksOf(t)' = LinksOf(t) \cup {n}
      /\ LiveLinks(t)' = LiveLinks(t) \cup {n}
      /\ \A s \in LinkTargets \ {t} : LinksOf(s)' = LinksOf(s) /\ LiveLinks(s)' = LiveLinks(s)
  BY <1>1, <1>4, Issued
<1>6. /\ WorkIn(LinkTasks)' /\ work'[h] = task
      /\ \A o \in Handlers \ {h} : work'[o] = work[o]
  BY <1>1, <1>4, TaskSet DEF Continue, LinkInv, LinkTypes
<1>7. /\ Rotating(t)' = Rotating(t) \cup {h} /\ h \notin Rotating(t)
      /\ \A s \in LinkTargets \ {t} : Rotating(s)' = Rotating(s)
  BY <1>1, <1>4, <1>6 DEF Rotating, At
<1>8. \A s \in LinkTargets : \A o \in Rotating(s) : work'[o] = work[o] /\ o \in Handlers \ {h}
  BY <1>1, <1>6 DEF Rotating, At
<1>9. /\ Replaced(t)' = Replaced(t) \cup {l}
      /\ \A s \in LinkTargets \ {t} : Replaced(s)' = Replaced(s)
  BY <1>4, <1>6, <1>7, <1>8 DEF Replaced
<1>10. LinkTypes'
  BY <1>1, <1>2, <1>4, <1>5, <1>6 DEF LinkInv, LinkTypes, LinkTypeOK
<1>11. RotationsOK'
  <2> SUFFICES ASSUME NEW o \in Handlers, At(o, "rotate")' \/ At(o, "revoke")'
               PROVE  /\ work'[o].link \in Links
                      /\ link'[work'[o].link] # None
                      /\ link'[work'[o].link].target = work'[o].target
    BY DEF RotationsOK
  <2>1. CASE o = h
    BY <1>3, <1>4, <1>5, <1>6, <2>1
  <2>2. CASE o # h
    BY <1>5, <1>6, <2>2 DEF LinkInv, RotationsOK, At
  <2> QED
    BY <2>1, <2>2
<1>12. t \notin loose' => l \notin Replaced(t)
  BY <1>2, <1>4, <1>8 DEF Replaced, Rotating
<1>13. SoleRotation'
  <2> SUFFICES ASSUME NEW s \in LinkTargets \ loose', NEW o \in Rotating(s)', NEW p \in Rotating(s)',
                      work'[o].link = work'[p].link
               PROVE  o = p
    BY DEF SoleRotation
  <2>1. CASE o \in Rotating(s) /\ p \in Rotating(s)
    BY <1>2, <1>8, <2>1 DEF LinkInv, SoleRotation
  <2>2. CASE s = t /\ (o = h \/ p = h)
    BY <1>4, <1>6, <1>7, <1>8, <1>12, <2>2 DEF Replaced
  <2> QED
    BY <1>7, <2>1, <2>2
<1>14. OneLeft'
  <2> SUFFICES ASSUME NEW s \in LinkTargets \ loose', LinksOf(s)' # {}
               PROVE  LiveShape(s)'
    BY DEF OneLeft
  <2>1. CASE s = t
    <3>1. Unrevoked(l) /\ l \notin Replaced(t) /\ l \in LinksOf(t)
      BY <1>2, <1>3, <1>12, <2>1 DEF LinksOf
    <3>2. LiveShape(t) /\ l \in LiveLinks(t)
      BY <1>2, <2>1, <3>1 DEF LinkInv, OneLeft, LiveLinks
    <3>3. t \notin ended /\ LiveLinks(t) = Replaced(t) \cup {l}
      BY <3>1, <3>2 DEF LiveShape
    <3>4. n \notin Replaced(t) \cup {l}
      BY <1>3, <1>4, <1>5, ReplacedIsOfTarget
    <3>5. LiveLinks(t)' = Replaced(t)' \cup {n} /\ n \notin Replaced(t)' /\ n \in Links /\ t \notin ended'
      BY <1>1, <1>5, <1>9, <3>3, <3>4
    <3> QED
      BY <2>1, <3>5 DEF LiveShape
  <2>2. CASE s # t
    BY <1>1, <1>2, <1>5, <1>9, <2>2 DEF LinkInv, OneLeft, LiveShape
  <2> QED
    BY <2>1, <2>2
<1>15. LookupsOK'
  <2>1. \A o \in Handlers : LookingUp(o)' => work'[o] = work[o]
    BY <1>4, <1>6 DEF LookingUp, At
  <2>2. \A o \in Handlers : LookingUp(o) => work[o].target # t
    BY <1>1 DEF LinkInv, LookupsOK, LookingUp, At
  <2>3. \A o \in Handlers, s \in Packages :
          LookingUp(o)' /\ work[o].target = s => LinksOf(s)' = LinksOf(s)
    BY <1>5, <2>1, <2>2 DEF LinkTargets, LookingUp, At
  <2>4. \A o, p \in Handlers : LookingUp(o)' /\ o # p /\ work'[p] # None =>
           work[p] # None /\ work'[p].target = work[p].target
    BY <1>1, <1>4, <1>6
  <2> QED
    BY <1>1, <2>1, <2>3, <2>4, LookupsKept
<1>16. LinkedIsStored'
  <2>1. LinksOf(t) # {}
    BY <1>3 DEF LinksOf
  <2> QED
    BY <1>1, <1>5, <2>1 DEF LinkInv, LinkedIsStored
<1> QED
  BY <1>10, <1>11, <1>13, <1>14, <1>15, <1>16 DEF LinkInv

\* A request that leaves its rotation half-way or finishes it, with its link revoked or
\* its target given up.
LEMMA RotationEnds ==
  ASSUME LinkInv, NEW h \in Handlers, At(h, "revoke"), Finish(h),
         UNCHANGED <<stored, result, renderJobs, pdf, ended>>,
         loose \subseteq loose', loose' \subseteq loose \cup {work[h].target},
         \/ link' = link /\ work[h].target \in loose'
         \/ link' = [link EXCEPT ![work[h].link].revoked = TRUE]
  PROVE  LinkInv'
<1> PICK t, l : t = work[h].target /\ l = work[h].link
  OBVIOUS
<1>1. /\ l \in Links /\ link[l] # None /\ link[l].target = t /\ t \in LinkTargets
      /\ work[h] # None /\ work[h].step = "revoke"
  BY DEF LinkInv, RotationsOK, At, LinkTypes, LinkTypeOK, Link
<1>2. /\ WorkIn(LinkTasks)' /\ work'[h] = None
      /\ \A o \in Handlers \ {h} : work'[o] = work[o]
  BY TaskSet DEF Finish, Continue, LinkInv, LinkTypes
<1>3. /\ link' \in [Links -> Link \cup {None}]
      /\ \A k \in Links : link[k] # None => link'[k] # None /\ link'[k].target = link[k].target
      /\ \A s \in LinkTargets : LinksOf(s)' = LinksOf(s)
  <2>1. CASE link' = link
    BY <2>1 DEF LinkInv, LinkTypes, LinkTypeOK, LinksOf
  <2>2. CASE link' = [link EXCEPT ![l].revoked = TRUE]
    BY <1>1, <2>2, LinkRevoked
  <2> QED
    BY <2>1, <2>2
<1>4. /\ Rotating(t)' = Rotating(t) \ {h} /\ h \in Rotating(t)
      /\ \A s \in LinkTargets \ {t} : Rotating(s)' = Rotating(s) /\ h \notin Rotating(s)
  BY <1>1, <1>2 DEF Rotating, At
<1>5. \A s \in LinkTargets : \A o \in Rotating(s)' : work'[o] = work[o] /\ o \in Rotating(s)
  BY <1>2, <1>4 DEF Rotating
<1>6. LinkTypes'
  BY <1>1, <1>2, <1>3 DEF LinkInv, LinkTypes, LinkTypeOK
<1>7. RotationsOK'
  BY <1>2, <1>3 DEF LinkInv, RotationsOK, At
<1>8. SoleRotation'
  BY <1>5 DEF LinkInv, SoleRotation
<1>9. \A s \in LinkTargets \ {t} : Replaced(s)' = Replaced(s)
  <2>1. \A s \in LinkTargets \ {t} : \A o \in Rotating(s) : work'[o] = work[o]
    BY <1>4, <1>5
  <2> QED
    BY <1>4, <2>1 DEF Replaced
<1>10. OneLeft'
  <2> SUFFICES ASSUME NEW s \in LinkTargets \ loose', LinksOf(s)' # {}
               PROVE  LiveShape(s)'
    BY DEF OneLeft
  <2>1. LiveShape(s) /\ s \notin loose
    BY <1>3 DEF LinkInv, OneLeft
  <2>2. CASE s = t
    <3>1. \A r \in LinkTargets : LiveLinks(r)' = LiveLinks(r) \ {l}
      BY <1>1, <2>2, LinkRevoked
    <3>2. Replaced(t)' = Replaced(t) \ {l} /\ l \in Replaced(t)
      BY <1>4, <1>5, <2>1, <2>2 DEF Replaced, LinkInv, SoleRotation
    <3> QED
      BY <1>1, <2>1, <2>2, <3>1, <3>2 DEF LiveShape
  <2>3. CASE s # t
    <3>1. l \notin LiveLinks(s)
      BY <1>1, <2>3 DEF LiveLinks, LinksOf
    <3>2. LiveLinks(s)' = LiveLinks(s)
      BY <1>1, <3>1, LinkRevoked DEF LiveLinks, LinksOf, Unrevoked
    <3> QED
      BY <1>9, <2>1, <2>3, <3>2 DEF LiveShape
  <2> QED
    BY <2>2, <2>3
<1>11. LookupsOK'
  <2>1. \A o \in Handlers : LookingUp(o)' => work'[o] = work[o]
    BY <1>2 DEF LookingUp, At
  <2>2. \A o, p \in Handlers : LookingUp(o)' /\ o # p /\ work'[p] # None =>
           work[p] # None /\ work'[p].target = work[p].target
    BY <1>2
  <2> QED
    BY <1>3, <2>1, <2>2, LookupsKept DEF LinkTargets
<1>12. LinkedIsStored'
  BY <1>3 DEF LinkInv, LinkedIsStored
<1> QED
  BY <1>6, <1>7, <1>8, <1>10, <1>11, <1>12 DEF LinkInv

\* The rotation revokes the link it replaced and is counted no more.
LEMMA RevokeRotatedOK ==
  ASSUME LinkInv, NEW h \in Handlers, RevokeRotated(h)
  PROVE  LinkInv'
BY RotationEnds DEF RevokeRotated

\* A rotation that is cut leaves its target among those the property excepts.
LEMMA CutLinkRequestOK ==
  ASSUME LinkInv, NEW h \in Handlers, CutLinkRequest(h)
  PROVE  LinkInv'
<1>1. CASE At(h, "revoke")
  BY <1>1, RotationEnds DEF CutLinkRequest, Cut
<1>2. CASE ~At(h, "revoke")
  BY <1>2, RequestEnds DEF CutLinkRequest, Cut, LinkInv, LinkTypes, LinkTypeOK
<1> QED
  BY <1>1, <1>2

\* Every step of links and lookups keeps the invariant.
LEMMA LinkStepOK == LinkInv /\ [LinkNext]_<<work, linkVars>> => LinkInv'
<1> SUFFICES ASSUME LinkInv, [LinkNext]_<<work, linkVars>> PROVE LinkInv'
  OBVIOUS
<1>1. CASE UNCHANGED <<work, linkVars>>
  BY <1>1, RowsBesideLinks DEF linkVars, LinkInv, LinkTypes, LinkTypeOK
<1>2. ASSUME NEW h \in Handlers, LinkStep(h)
      PROVE  LinkInv'
  BY <1>2, LookupOK, PutPackageOK, IssueLinkOK, EnqueuePdfOK, RotateOK, IssueRotatedOK,
     RevokeRotatedOK, CutLinkRequestOK DEF LinkStep
<1>3. ASSUME NEW t \in Receipts, IssueReceipt(t)
      PROVE  LinkInv'
  BY <1>3, IssueReceiptOK
<1>4. ASSUME NEW l \in Links,
             \/ DownloadPdf(l) \/ RenderPdf(l) \/ RenderFails(l)
             \/ RevokeLink(l) \/ DeadlinePasses(l) \/ SetExpiry(l)
      PROVE  LinkInv'
  BY <1>4, PdfStepsOK, RevokeLinkOK, ExpiryOK
<1> QED
  BY <1>1, <1>2, <1>3, <1>4 DEF LinkNext

\* As many links are being replaced as rotations are replacing them.
LEMMA ReplacedAreCounted ==
  ASSUME LinkInv, NEW t \in LinkTargets \ loose
  PROVE  /\ IsFiniteSet(Rotating(t)) /\ IsFiniteSet(Replaced(t))
         /\ Cardinality(Replaced(t)) = Cardinality(Rotating(t))
         /\ Cardinality(Rotating(t)) \in Nat
<1> DEFINE f == [h \in Rotating(t) |-> work[h].link]
<1>1. IsFiniteSet(Rotating(t))
  BY LinkAssumption, FS_Subset DEF Rotating
<1>2. f \in Bijection(Rotating(t), Replaced(t))
  BY DEF LinkInv, SoleRotation, Replaced, Bijection, Injection, Surjection, IsInjective
<1>3. ExistsBijection(Rotating(t), Replaced(t))
  BY <1>2 DEF ExistsBijection
<1> QED
  BY <1>1, <1>3, FS_Bijection, FS_CardinalityType

\* The shape of a target's links gives their number.
LEMMA OneLeftIsCounted == LinkInv => RotationLeavesOne
<1> SUFFICES ASSUME LinkInv, NEW t \in LinkTargets \ loose, LinksOf(t) # {}
             PROVE  Cardinality(LiveLinks(t)) - Cardinality(Rotating(t)) = IF t \in ended THEN 0 ELSE 1
  BY DEF RotationLeavesOne
<1>1. LiveShape(t)
  BY DEF LinkInv, OneLeft
<1>2. /\ IsFiniteSet(Replaced(t)) /\ Cardinality(Replaced(t)) = Cardinality(Rotating(t))
      /\ Cardinality(Rotating(t)) \in Nat
  BY ReplacedAreCounted
<1>3. CASE t \in ended
  BY <1>1, <1>2, <1>3 DEF LiveShape
<1>4. CASE t \notin ended
  <2>1. PICK l \in Links \ Replaced(t) : LiveLinks(t) = Replaced(t) \cup {l}
    BY <1>1, <1>4 DEF LiveShape
  <2>2. Cardinality(LiveLinks(t)) = Cardinality(Rotating(t)) + 1
    BY <1>2, <2>1, FS_AddElement
  <2> QED
    BY <1>2, <1>4, <2>2
<1> QED
  BY <1>3, <1>4

\* The rows of links, their results and jobs, and what handlers hold of them have their types.
THEOREM LinksAreTyped == LinkSpec => [](LinkTypeOK /\ WorkIn(LinkTask))
<1>1. LinkInv => LinkTypeOK /\ WorkIn(LinkTask)
  BY DEF LinkInv, LinkTypes, LinkTasks, WorkIn
<1> QED
  BY <1>1, LinkInitOK, LinkStepOK, PTL DEF LinkSpec

\* A shared target has one live link beside those that rotations are replacing, until
\* an administrator revokes it.
THEOREM RotationsLeaveOne == LinkSpec => []RotationLeavesOne
BY LinkInitOK, LinkStepOK, OneLeftIsCounted, PTL DEF LinkSpec

-----------------------------------------------------------------------------
(* Grants and requests for access                                           *)

AccessSpec == NoWork /\ AccessInit /\ [][AccessNext]_<<work, accessVars>>

AccessTypes == AccessTypeOK /\ WorkIn(AccessTask)

\* handlers that have looked for a grant of the person and found none
GrantingTo(h, e) == Granting(h) /\ work[h].email = e

\* unless two of them met, there is none while one of them is at it, and there is one
\* at most
GrantsOK ==
  \A e \in People \ racedGrants :
    /\ \A g, k \in ActiveGrants(e) : g = k
    /\ \A h \in Handlers : GrantingTo(h, e) =>
         ActiveGrants(e) = {} /\ \A o \in Handlers : GrantingTo(o, e) => o = h

\* unless two of them met, the one that resolves a request finds it as it was read
RequestsPending ==
  \A i \in DOMAIN accessRequest \ contested :
    \A h \in Resolving(i) :
      accessRequest[i].status = "pending" /\ \A o \in Resolving(i) : o = h

RequestNumbers == 0..Len(accessRequest)

\* what a handler has read still exists
AccessTasksOK ==
  \A h \in Handlers : work[h] # None =>
    /\ work[h].request \in RequestNumbers
    /\ work[h].grant # None => grant[work[h].grant] # None

AccessInv == AccessTypes /\ GrantsOK /\ RequestsPending /\ AccessTasksOK

\* Initially there are no grants, requests or tasks.
LEMMA AccessInitOK == NoWork /\ AccessInit => AccessInv
BY AccessAssumption
   DEF NoWork, AccessInit, AccessInv, AccessTypes, AccessTypeOK, WorkIn, GrantsOK, GrantingTo,
       Granting, At, ActiveGrants, RequestsPending, AccessTasksOK, RequestNumbers

\* No request is a number of its own.
LEMMA NoRequest == 0 \in 0..MaxRequests
BY AccessAssumption

\* The requests are numbered from 1.
LEMMA RequestsNumbered ==
  ASSUME AccessInv
  PROVE  /\ Len(accessRequest) \in Nat /\ Len(accessRequest) <= MaxRequests
         /\ DOMAIN accessRequest = 1..Len(accessRequest) /\ 0 \notin DOMAIN accessRequest
         /\ 0 \in RequestNumbers /\ DOMAIN accessRequest \subseteq RequestNumbers
         /\ RequestNumbers \subseteq 0..MaxRequests
         /\ racedGrants \subseteq People /\ contested \subseteq 1..MaxRequests
BY AccessAssumption DEF AccessInv, AccessTypes, AccessTypeOK, RequestNumbers

\* One handler changes its task.
LEMMA AccessTaskSet ==
  ASSUME WorkIn(AccessTask), NEW h \in Handlers, NEW task \in AccessTask \cup {None},
         work' = [work EXCEPT ![h] = task]
  PROVE  /\ WorkIn(AccessTask)'
         /\ work'[h] = task
         /\ \A o \in Handlers \ {h} : work'[o] = work[o]
BY DEF WorkIn

\* A step of one handler that leaves the grants: it may begin to grant only where nobody
\* else does and there is no grant, or people are marked as raced.
LEMMA GrantsRest ==
  ASSUME AccessInv, NEW h \in Handlers, \A o \in Handlers \ {h} : work'[o] = work[o],
         \A e \in People : ActiveGrants(e)' = ActiveGrants(e),
         racedGrants \subseteq racedGrants',
         \/ \A e \in People \ racedGrants' :
              /\ ~GrantingTo(h, e)
              /\ GrantingTo(h, e)' =>
                   /\ ActiveGrants(e) = {}
                   /\ \A o \in Handlers \ {h} : ~GrantingTo(o, e)
         \/ \A e \in People : GrantingTo(h, e)' => GrantingTo(h, e)
  PROVE  GrantsOK'
<1>1. \A o \in Handlers \ {h}, e \in People : GrantingTo(o, e)' <=> GrantingTo(o, e)
  BY DEF GrantingTo, Granting, At
<1> SUFFICES ASSUME NEW e \in People \ racedGrants'
             PROVE  /\ \A g, k \in ActiveGrants(e)' : g = k
                    /\ \A p \in Handlers : GrantingTo(p, e)' =>
                         ActiveGrants(e)' = {} /\ \A o \in Handlers : GrantingTo(o, e)' => o = p
  BY DEF GrantsOK
<1>2. /\ \A g, k \in ActiveGrants(e) : g = k
      /\ \A p \in Handlers : GrantingTo(p, e) =>
           ActiveGrants(e) = {} /\ \A o \in Handlers : GrantingTo(o, e) => o = p
  BY DEF AccessInv, GrantsOK
<1> QED
  BY <1>1, <1>2

\* The tasks of the others are still sound when grants and requests stay.
LEMMA AccessTasksKept ==
  ASSUME AccessInv, NEW h \in Handlers, \A o \in Handlers \ {h} : work'[o] = work[o],
         RequestNumbers \subseteq RequestNumbers',
         \A g \in Grants : grant[g] # None => grant'[g] # None,
         work'[h] # None =>
           /\ work'[h].request \in RequestNumbers'
           /\ work'[h].grant # None => grant'[work'[h].grant] # None
  PROVE  AccessTasksOK'
<1> SUFFICES ASSUME NEW o \in Handlers, work'[o] # None
             PROVE  /\ work'[o].request \in RequestNumbers'
                    /\ work'[o].grant # None => grant'[work'[o].grant] # None
  BY DEF AccessTasksOK
<1>1. CASE o = h
  BY <1>1
<1>2. CASE o # h
  <2>1. work'[o] = work[o] /\ work[o] \in AccessTask
    BY <1>2 DEF AccessInv, AccessTypes, WorkIn
  <2>2. /\ work[o].request \in RequestNumbers
        /\ work[o].grant # None => grant[work[o].grant] # None /\ work[o].grant \in Grants
    BY <2>1 DEF AccessInv, AccessTasksOK, AccessTask
  <2> QED
    BY <2>1, <2>2
<1> QED
  BY <1>1, <1>2

\* A step of one handler that leaves the requests, and resolves no other than before.
LEMMA RequestsRest ==
  ASSUME AccessInv, NEW h \in Handlers, \A o \in Handlers \ {h} : work'[o] = work[o],
         UNCHANGED accessRequest, contested \subseteq contested',
         \A i \in DOMAIN accessRequest \ contested' :
           h \in Resolving(i)' =>
             \/ h \in Resolving(i)
             \/ Resolving(i) = {} /\ accessRequest[i].status = "pending"
  PROVE  RequestsPending'
<1>1. \A i \in DOMAIN accessRequest : \A o \in Handlers \ {h} :
        o \in Resolving(i)' <=> o \in Resolving(i)
  BY DEF Resolving
<1> SUFFICES ASSUME NEW i \in DOMAIN accessRequest \ contested', NEW p \in Resolving(i)'
             PROVE  accessRequest[i].status = "pending" /\ \A o \in Resolving(i)' : o = p
  BY DEF RequestsPending
<1>2. \A o \in Resolving(i) : accessRequest[i].status = "pending" /\ \A q \in Resolving(i) : q = o
  BY DEF AccessInv, RequestsPending
<1>3. p \in Handlers /\ \A o \in Resolving(i)' : o \in Handlers
  BY DEF Resolving
<1> QED
  BY <1>1, <1>2, <1>3

\* A handler that goes on, begins or ends, with nothing else changed.
LEMMA HandlerMoves ==
  ASSUME AccessInv, UNCHANGED <<users, grant, accessRequest>>,
         NEW h \in Handlers, NEW task \in AccessTask \cup {None},
         work' = [work EXCEPT ![h] = task],
         task # None =>
           /\ task.request \in RequestNumbers
           /\ task.grant # None => grant[task.grant] # None
           /\ \/ work[h] # None /\ task.request = work[h].request
              \/ task.request = 0
              \/ /\ accessRequest[task.request].status = "pending"
                 /\ Resolving(task.request) # {} => task.request \in contested'
           /\ task.step \in {"read grantee", "insert grant"} =>
                \/ GrantingTo(h, task.email)
                \/ /\ ActiveGrants(task.email) = {}
                   /\ ~Granting(h)
                   /\ (\E o \in Handlers \ {h} : GrantingTo(o, task.email)) =>
                        task.email \in racedGrants',
         racedGrants \subseteq racedGrants', racedGrants' \subseteq People,
         contested \subseteq contested', contested' \subseteq 1..MaxRequests
  PROVE  AccessInv'
<1>1. /\ WorkIn(AccessTask)' /\ work'[h] = task
      /\ \A o \in Handlers \ {h} : work'[o] = work[o]
  BY AccessTaskSet DEF AccessInv, AccessTypes
<1>2. AccessTypes'
  BY <1>1 DEF AccessInv, AccessTypes, AccessTypeOK
<1>3. \A e \in People : ActiveGrants(e)' = ActiveGrants(e)
  BY DEF ActiveGrants
<1>4. \A e : GrantingTo(h, e)' <=>
        task # None /\ task.step \in {"read grantee", "insert grant"} /\ task.email = e
  BY <1>1 DEF GrantingTo, Granting, At
<1>5. GrantsOK'
  <2>1. CASE task # None /\ task.step \in {"read grantee", "insert grant"} /\ ~GrantingTo(h, task.email)
    <3>1. \A e \in People \ racedGrants' :
           /\ ~GrantingTo(h, e)
           /\ GrantingTo(h, e)' =>
                /\ ActiveGrants(e) = {}
                /\ \A o \in Handlers \ {h} : ~GrantingTo(o, e)
      BY <1>4, <2>1 DEF GrantingTo
    <3> QED
      BY <1>1, <1>3, <3>1, GrantsRest
  <2>2. CASE ~(task # None /\ task.step \in {"read grantee", "insert grant"} /\ ~GrantingTo(h, task.email))
    <3>1. \A e \in People : GrantingTo(h, e)' => GrantingTo(h, e)
      BY <1>4, <2>2
    <3> QED
      BY <1>1, <1>3, <3>1, GrantsRest
  <2> QED
    BY <2>1, <2>2
<1>6. RequestsPending'
  <2>1. \A i \in DOMAIN accessRequest \ contested' :
           h \in Resolving(i)' =>
             \/ h \in Resolving(i)
             \/ Resolving(i) = {} /\ accessRequest[i].status = "pending"
    BY <1>1, RequestsNumbered DEF Resolving
  <2> QED
    BY <1>1, <2>1, RequestsRest
<1>7. AccessTasksOK'
  <2>1. RequestNumbers \subseteq RequestNumbers'
    BY DEF RequestNumbers
  <2>2. \A g \in Grants : grant[g] # None => grant'[g] # None
    OBVIOUS
  <2>3. work'[h] # None =>
          /\ work'[h].request \in RequestNumbers'
          /\ work'[h].grant # None => grant'[work'[h].grant] # None
    BY <1>1, <2>1
  <2> QED
    BY <1>1, <2>1, <2>2, <2>3, AccessTasksKept
<1> QED
  BY <1>2, <1>5, <1>6, <1>7 DEF AccessInv

\* What a handler at work is known to have.
LEMMA HandlerKnows ==
  ASSUME AccessInv, NEW h \in Handlers, work[h] # None
  PROVE  /\ work[h] \in AccessTask /\ work[h].email \in People
         /\ work[h].request \in RequestNumbers
         /\ work[h].grant # None => grant[work[h].grant] # None /\ work[h].grant \in Grants
         /\ racedGrants \subseteq People /\ contested \subseteq 1..MaxRequests
BY DEF AccessInv, AccessTypes, AccessTypeOK, AccessTasksOK, WorkIn, AccessTask

\* A handler that only reads changes no grant and no request.
LEMMA HandlerGoesOn ==
  ASSUME AccessInv, UNCHANGED accessVars, NEW h \in Handlers, work[h] # None,
         NEW step \in {"resolve", "insert request"},
         Finish(h) \/ Continue(h, [work[h] EXCEPT !.step = step])
  PROVE  AccessInv'
<1>1. PICK task : /\ work' = [work EXCEPT ![h] = task]
                  /\ task = None \/ task = [work[h] EXCEPT !.step = step]
  BY DEF Finish, Continue
<1>2. task # None => /\ task \in AccessTask /\ task.step = step
                     /\ task.request = work[h].request /\ task.grant = work[h].grant
  BY <1>1, HandlerKnows DEF AccessTask
<1> QED
  BY <1>1, <1>2, HandlerKnows, HandlerMoves DEF accessVars

\* A request that begins without loading anything of another.
LEMMA HandlerBegins ==
  ASSUME AccessInv, UNCHANGED accessVars, NEW h \in Handlers, NEW task \in AccessTask,
         Begin(h, task), task.request = 0, task.grant # None => grant[task.grant] # None,
         task.step \notin {"read grantee", "insert grant"}
  PROVE  AccessInv'
<1>1. work' = [work EXCEPT ![h] = task]
  BY DEF Begin
<1> QED
  BY <1>1, RequestsNumbered, HandlerMoves DEF accessVars

\* A grant is asked for; nothing is written.
LEMMA BeginGrantOK ==
  ASSUME AccessInv, NEW h \in Handlers, NEW e \in People,
         GrantFromDashboard(h, e) \/ GrantFromPublicApi(h, e)
  PROVE  AccessInv'
<1>1. UserOf(e) \in People \cup {None}
  BY DEF UserOf, AccessInv, AccessTypes, AccessTypeOK
<1>2. PICK task : /\ Begin(h, task)
                  /\ \/ task = [Task("dashboard grant", "find grant", e) EXCEPT !.user = UserOf(e)]
                     \/ task = Task("public grant", "find grant", e)
  BY DEF GrantFromDashboard, GrantFromPublicApi
<1>3. task \in AccessTask /\ task.step = "find grant" /\ task.request = 0 /\ task.grant = None
  <2>1. CASE task = [Task("dashboard grant", "find grant", e) EXCEPT !.user = UserOf(e)]
    <3>1. task = [op |-> "dashboard grant", step |-> "find grant", email |-> e, user |-> UserOf(e),
                  request |-> 0, grant |-> None]
      BY <2>1 DEF Task
    <3> QED
      BY <1>1, <3>1, NoRequest DEF AccessTask
  <2>2. CASE task = Task("public grant", "find grant", e)
    BY <2>2, NoRequest DEF Task, AccessTask
  <2> QED
    BY <1>2, <2>1, <2>2
<1> QED
  BY <1>2, <1>3, HandlerBegins DEF GrantFromDashboard, GrantFromPublicApi

\* A handler that found no grant goes on to insert one, and marks who else does.
LEMMA FindNoGrantOK ==
  ASSUME AccessInv, NEW h \in Handlers, FindNoGrant(h)
  PROVE  AccessInv'
<1>1. PICK e, step : /\ e = work[h].email
                     /\ step = IF work[h].op = "public grant" THEN "read grantee" ELSE "insert grant"
  OBVIOUS
<1>2. PICK task : task = [work[h] EXCEPT !.step = step]
  OBVIOUS
<1>3. /\ work[h] # None /\ work[h].step = "find grant" /\ ActiveGrants(e) = {}
      /\ work' = [work EXCEPT ![h] = task]
      /\ UNCHANGED <<users, grant, accessRequest, contested>>
  BY <1>1, <1>2 DEF FindNoGrant, At, Continue
<1>4. /\ task \in AccessTask /\ task.email = e
      /\ task.request = work[h].request /\ task.grant = work[h].grant
  BY <1>1, <1>2, <1>3, HandlerKnows DEF AccessTask
<1>5. /\ racedGrants \subseteq racedGrants' /\ racedGrants' \subseteq People
      /\ (\E o \in Handlers \ {h} : GrantingTo(o, e)) => e \in racedGrants'
  BY <1>1, <1>3, HandlerKnows DEF FindNoGrant, GrantingTo
<1>6. ~Granting(h)
  BY <1>3 DEF Granting, At
<1> QED
  BY <1>3, <1>4, <1>5, <1>6, HandlerKnows, HandlerMoves

\* The grantee is looked up by email, registered or not.
LEMMA ReadGranteeOK ==
  ASSUME AccessInv, NEW h \in Handlers, ReadGrantee(h)
  PROVE  AccessInv'
<1>1. PICK e, u : e = work[h].email /\ u = UserOf(e)
  OBVIOUS
<1>2. PICK task, t : /\ t = [work[h] EXCEPT !.step = "insert grant"]
                     /\ task = [t EXCEPT !.user = u]
  OBVIOUS
<1>3. /\ work[h] # None /\ work[h].step = "read grantee" /\ work' = [work EXCEPT ![h] = task]
      /\ UNCHANGED accessVars
  BY <1>1, <1>2 DEF ReadGrantee, At, Continue
<1>4. u \in People \cup {None}
  BY <1>1 DEF UserOf, AccessInv, AccessTypes, AccessTypeOK
<1>5. /\ t \in AccessTask /\ t.email = e
      /\ t.request = work[h].request /\ t.grant = work[h].grant
  BY <1>1, <1>2, <1>3, HandlerKnows DEF AccessTask
<1>6. /\ task \in AccessTask /\ task.email = e
      /\ task.request = work[h].request /\ task.grant = work[h].grant
  BY <1>2, <1>4, <1>5 DEF AccessTask
<1>7. GrantingTo(h, e)
  BY <1>1, <1>3 DEF GrantingTo, Granting, At
<1> QED
  BY <1>3, <1>6, <1>7, HandlerKnows, HandlerMoves DEF accessVars

\* The grant that is inserted is the only one, unless another was being inserted.
LEMMA InsertGrantOK ==
  ASSUME AccessInv, NEW h \in Handlers, InsertGrant(h)
  PROVE  AccessInv'
<1>1. PICK e, n, new : /\ e = work[h].email
                       /\ n = CHOOSE g \in FreeGrants : TRUE
                       /\ new = [email |-> e, user |-> work[h].user, revoked |-> FALSE]
  OBVIOUS
<1>2. /\ work[h] # None /\ work[h].step = "insert grant" /\ FreeGrants # {}
      /\ grant' = [grant EXCEPT ![n] = new]
      /\ UNCHANGED <<users, accessRequest, racedGrants, contested>>
  BY <1>1 DEF InsertGrant, At
<1>3. n \in Grants /\ grant[n] = None
  BY <1>1, <1>2 DEF FreeGrants
<1>4. e \in People /\ work[h].user \in People \cup {None}
  BY <1>1, <1>2, HandlerKnows DEF AccessTask
<1>5. new \in Grant /\ new # None /\ new.email = e
  <2>1. new \in Grant /\ new.email = e
    BY <1>1, <1>4 DEF Grant
  <2> QED
    BY <2>1, AccessAssumption
<1>6. /\ grant' \in [Grants -> Grant \cup {None}] /\ grant'[n] = new
      /\ \A g \in Grants \ {n} : grant'[g] = grant[g]
  BY <1>2, <1>3, <1>5 DEF AccessInv, AccessTypes, AccessTypeOK
<1>7. PICK task : /\ work' = [work EXCEPT ![h] = task]
                  /\ task = None \/ task = [work[h] EXCEPT !.step = "resolve"]
  BY DEF InsertGrant, Finish, Continue
<1>8. task # None => /\ task \in AccessTask /\ task.step = "resolve"
                     /\ task.request = work[h].request /\ task.grant = work[h].grant
  BY <1>2, <1>7, HandlerKnows DEF AccessTask
<1>9. /\ WorkIn(AccessTask)' /\ work'[h] = task
      /\ \A o \in Handlers \ {h} : work'[o] = work[o]
  BY <1>7, <1>8, AccessTaskSet DEF AccessInv, AccessTypes
<1>10. AccessTypes'
  BY <1>2, <1>6, <1>9 DEF AccessInv, AccessTypes, AccessTypeOK
<1>11. /\ ActiveGrants(e)' \subseteq ActiveGrants(e) \cup {n}
       /\ \A f \in People \ {e} : ActiveGrants(f)' = ActiveGrants(f)
  BY <1>3, <1>5, <1>6 DEF ActiveGrants
<1>12. /\ \A f \in People : ~GrantingTo(h, f)'
       /\ \A o \in Handlers \ {h}, f \in People : GrantingTo(o, f)' <=> GrantingTo(o, f)
  BY <1>8, <1>9 DEF GrantingTo, Granting, At
<1>13. GrantsOK'
  <2> SUFFICES ASSUME NEW f \in People \ racedGrants
               PROVE  /\ \A g, k \in ActiveGrants(f)' : g = k
                      /\ \A p \in Handlers : GrantingTo(p, f)' =>
                           ActiveGrants(f)' = {} /\ \A o \in Handlers : GrantingTo(o, f)' => o = p
    BY <1>2 DEF GrantsOK
  <2>1. /\ \A g, k \in ActiveGrants(f) : g = k
        /\ \A p \in Handlers : GrantingTo(p, f) =>
             ActiveGrants(f) = {} /\ \A o \in Handlers : GrantingTo(o, f) => o = p
    BY DEF AccessInv, GrantsOK
  <2>2. CASE f = e
    <3>1. GrantingTo(h, e)
      BY <1>1, <1>2 DEF GrantingTo, Granting, At
    <3> QED
      BY <1>11, <1>12, <2>1, <2>2, <3>1
  <2>3. CASE f # e
    BY <1>11, <1>12, <2>1, <2>3
  <2> QED
    BY <2>2, <2>3
<1>14. RequestsPending'
  <2>1. \A i \in DOMAIN accessRequest : h \in Resolving(i)' => h \in Resolving(i)
    BY <1>2, <1>8, <1>9 DEF Resolving
  <2> QED
    BY <1>2, <1>9, <2>1, RequestsRest
<1>15. AccessTasksOK'
  <2>1. \A g \in Grants : grant[g] # None => grant'[g] # None
    BY <1>3, <1>5, <1>6
  <2>2. RequestNumbers \subseteq RequestNumbers'
    BY <1>2 DEF RequestNumbers
  <2>3. work'[h] # None =>
          /\ work'[h].request \in RequestNumbers'
          /\ work'[h].grant # None => grant'[work'[h].grant] # None
    BY <1>2, <1>8, <1>9, <2>1, <2>2, HandlerKnows
  <2> QED
    BY <1>9, <2>1, <2>2, <2>3, AccessTasksKept
<1> QED
  BY <1>10, <1>13, <1>14, <1>15 DEF AccessInv

\* Somebody asks for access or registers, perhaps with the token of a grant.
LEMMA BeginAskingOK ==
  ASSUME AccessInv, NEW h \in Handlers, NEW u \in People, RequestAccess(h, u) \/ Register(h, u)
  PROVE  AccessInv'
<1>1. UNCHANGED accessVars
  BY DEF RequestAccess, Register
<1>2. CASE RequestAccess(h, u)
  <2>1. PICK task : Begin(h, task) /\ task = Task("request", "find request", u)
    BY <1>2 DEF RequestAccess
  <2>2. task \in AccessTask /\ task.step = "find request" /\ task.request = 0 /\ task.grant = None
    BY <2>1, NoRequest DEF Task, AccessTask
  <2> QED
    BY <1>1, <2>1, <2>2, HandlerBegins
<1>3. CASE Register(h, u)
  <2>1. PICK g \in Claimable(u) \cup {None} :
          Begin(h, [Task("register", "insert user", u) EXCEPT !.grant = g])
    BY <1>3 DEF Register
  <2>2. g \in Grants \cup {None} /\ (g # None => grant[g] # None)
    BY <2>1 DEF Claimable, ActiveGrants
  <2>3. PICK task : Begin(h, task) /\ task = [Task("register", "insert user", u) EXCEPT !.grant = g]
    BY <2>1
  <2>4. task \in AccessTask /\ task.step = "insert user" /\ task.request = 0 /\ task.grant = g
    <3>1. task = [op |-> "register", step |-> "insert user", email |-> u, user |-> None,
                  request |-> 0, grant |-> g]
      BY <2>3 DEF Task
    <3> QED
      BY <2>2, <3>1, NoRequest DEF AccessTask
  <2> QED
    BY <1>1, <2>2, <2>3, <2>4, HandlerBegins
<1> QED
  BY <1>2, <1>3

\* A request is loaded to be approved or denied: alone, or it is contested from then on.
LEMMA BeginResolvingOK ==
  ASSUME AccessInv, NEW h \in Handlers, NEW i \in DOMAIN accessRequest, Approve(h, i) \/ Deny(h, i)
  PROVE  AccessInv'
<1>1. PICK u : u = accessRequest[i].user
  OBVIOUS
<1>2. u \in People /\ i \in 0..MaxRequests /\ i \in 1..MaxRequests /\ i \in RequestNumbers
  <2>1. i \in 1..Len(accessRequest) /\ i \in RequestNumbers
    BY RequestsNumbered
  <2>2. u \in People
    <3>1. accessRequest[i] \in AccessRequest
      BY <2>1 DEF AccessInv, AccessTypes, AccessTypeOK
    <3> QED
      BY <1>1, <3>1 DEF AccessRequest
  <2>3. i \in 1..MaxRequests /\ i \in 0..MaxRequests
    BY <2>1, RequestsNumbered, AccessAssumption
  <2> QED
    BY <2>1, <2>2, <2>3
<1>3. PICK task : /\ Begin(h, task)
                  /\ \/ task = [Task("approve", "find grant", u) EXCEPT !.user = u, !.request = i]
                     \/ task = [Task("deny", "resolve", u) EXCEPT !.request = i]
  BY <1>1 DEF Approve, Deny
<1>4. /\ task \in AccessTask /\ task.step \in {"find grant", "resolve"}
      /\ task.request = i /\ task.grant = None
  <2>1. \/ task = [op |-> "approve", step |-> "find grant", email |-> u, user |-> u,
                   request |-> i, grant |-> None]
        \/ task = [op |-> "deny", step |-> "resolve", email |-> u, user |-> None,
                   request |-> i, grant |-> None]
    BY <1>3 DEF Task
  <2>2. CASE task = [op |-> "approve", step |-> "find grant", email |-> u, user |-> u,
                   request |-> i, grant |-> None]
    BY <1>2, <2>2 DEF AccessTask
  <2>3. CASE task = [op |-> "deny", step |-> "resolve", email |-> u, user |-> None,
                   request |-> i, grant |-> None]
    BY <1>2, <2>3 DEF AccessTask
  <2> QED
    BY <2>1, <2>2, <2>3
<1>5. /\ accessRequest[i].status = "pending"
      /\ UNCHANGED <<users, grant, accessRequest, racedGrants>>
      /\ contested \subseteq contested' /\ contested' \subseteq 1..MaxRequests
      /\ Resolving(i) # {} => i \in contested'
  BY <1>2, RequestsNumbered DEF Approve, Deny, LoadRequest
<1>6. work' = [work EXCEPT ![h] = task]
  BY <1>3 DEF Begin
<1> QED
  BY <1>2, <1>4, <1>5, <1>6, RequestsNumbered, HandlerMoves

\* A handler that found what it looked for reuses it, or ends.
LEMMA FoundOK ==
  ASSUME AccessInv, NEW h \in Handlers,
         ReuseGrant(h) \/ FindRequest(h) \/ (Cut(h) /\ UNCHANGED accessVars)
  PROVE  AccessInv'
BY HandlerGoesOn DEF ReuseGrant, FindRequest, Cut, At

\* A new request is nobody's to resolve yet.
LEMMA InsertRequestOK ==
  ASSUME AccessInv, NEW h \in Handlers, InsertRequest(h)
  PROVE  AccessInv'
<1>1. PICK new : new = [user |-> work[h].email, status |-> "pending"]
  OBVIOUS
<1>2. /\ work[h] # None /\ work' = [work EXCEPT ![h] = None] /\ Len(accessRequest) < MaxRequests
      /\ accessRequest' = Append(accessRequest, new)
      /\ UNCHANGED <<users, grant, racedGrants, contested>>
  BY <1>1 DEF InsertRequest, At, Finish, Continue
<1>3. new \in AccessRequest
  BY <1>1, <1>2, HandlerKnows DEF AccessRequest
<1>4. /\ WorkIn(AccessTask)' /\ work'[h] = None
      /\ \A o \in Handlers \ {h} : work'[o] = work[o]
  BY <1>2, AccessTaskSet DEF AccessInv, AccessTypes
<1>5. /\ accessRequest' \in Seq(AccessRequest) /\ Len(accessRequest') = Len(accessRequest) + 1
      /\ \A i \in DOMAIN accessRequest : accessRequest'[i] = accessRequest[i]
      /\ DOMAIN accessRequest' = 1..(Len(accessRequest) + 1)
  BY <1>2, <1>3 DEF AccessInv, AccessTypes, AccessTypeOK
<1>6. AccessTypes'
  <2>1. Len(accessRequest') <= MaxRequests
    BY <1>2, <1>5, RequestsNumbered, AccessAssumption
  <2> QED
    BY <1>2, <1>4, <1>5, <2>1 DEF AccessInv, AccessTypes, AccessTypeOK
<1>7. GrantsOK'
  <2>1. \A e \in People : ActiveGrants(e)' = ActiveGrants(e)
    BY <1>2 DEF ActiveGrants
  <2>2. \A e \in People : ~GrantingTo(h, e)'
    BY <1>4 DEF GrantingTo, Granting, At
  <2> QED
    BY <1>2, <1>4, <2>1, <2>2, GrantsRest
<1>8. RequestsPending'
  <2>1. \A i \in DOMAIN accessRequest' : \A o \in Resolving(i)' : o \in Resolving(i) /\ i \in RequestNumbers
    BY <1>4 DEF Resolving, AccessInv, AccessTasksOK
  <2>2. \A i \in DOMAIN accessRequest' : i \in RequestNumbers => i \in DOMAIN accessRequest
    BY <1>5, RequestsNumbered DEF RequestNumbers
  <2> QED
    BY <1>2, <1>5, <2>1, <2>2 DEF AccessInv, RequestsPending
<1>9. AccessTasksOK'
  <2>1. RequestNumbers \subseteq RequestNumbers'
    BY <1>5, RequestsNumbered DEF RequestNumbers
  <2>2. \A g \in Grants : grant[g] # None => grant'[g] # None
    BY <1>2
  <2> QED
    BY <1>4, <2>1, <2>2, AccessTasksKept
<1> QED
  BY <1>6, <1>7, <1>8, <1>9 DEF AccessInv

\* What resolving changes: the request it names, and no other.
LEMMA Resolved ==
  ASSUME AccessInv, NEW h \in Handlers, ResolveRequest(h)
  PROVE  /\ accessRequest' \in Seq(AccessRequest) /\ Len(accessRequest') = Len(accessRequest)
         /\ DOMAIN accessRequest' = DOMAIN accessRequest
         /\ \A i \in DOMAIN accessRequest : i # work[h].request => accessRequest'[i] = accessRequest[i]
         /\ work[h] # None /\ work' = [work EXCEPT ![h] = None]
         /\ UNCHANGED <<users, grant, racedGrants, contested>>
<1>1. PICK i, status : i = work[h].request /\ status = IF work[h].op = "approve" THEN "approved" ELSE "denied"
  OBVIOUS
<1>2. accessRequest' = [accessRequest EXCEPT ![i].status = status] /\ status \in {"approved", "denied"}
  BY <1>1 DEF ResolveRequest
<1>3. /\ accessRequest \in [1..Len(accessRequest) -> AccessRequest] /\ Len(accessRequest) \in Nat
      /\ accessRequest \in Seq(AccessRequest)
  BY DEF AccessInv, AccessTypes, AccessTypeOK
<1>4. accessRequest' \in [1..Len(accessRequest) -> AccessRequest]
  BY <1>2, <1>3 DEF AccessRequest
<1>5. accessRequest' \in Seq(AccessRequest) /\ Len(accessRequest') = Len(accessRequest)
  BY <1>3, <1>4
<1> QED
  BY <1>1, <1>2, <1>3, <1>4, <1>5 DEF ResolveRequest, At, Finish, Continue

\* A pending request is answered once.
LEMMA ResolveRequestOK ==
  ASSUME AccessInv, NEW h \in Handlers, ResolveRequest(h)
  PROVE  AccessInv'
<1>1. /\ WorkIn(AccessTask)' /\ work'[h] = None
      /\ \A o \in Handlers \ {h} : work'[o] = work[o]
  BY Resolved, AccessTaskSet DEF AccessInv, AccessTypes
<1>2. AccessTypes'
  BY <1>1, Resolved DEF AccessInv, AccessTypes, AccessTypeOK
<1>3. GrantsOK'
  <2>1. \A e \in People : ActiveGrants(e)' = ActiveGrants(e)
    BY Resolved DEF ActiveGrants
  <2>2. \A e \in People : ~GrantingTo(h, e)'
    BY <1>1 DEF GrantingTo, Granting, At
  <2> QED
    BY <1>1, <2>1, <2>2, Resolved, GrantsRest
<1>4. RequestsPending'
  <2> SUFFICES ASSUME NEW i \in DOMAIN accessRequest \ contested, NEW p \in Resolving(i)'
               PROVE  accessRequest'[i].status = "pending" /\ \A o \in Resolving(i)' : o = p
    BY Resolved DEF RequestsPending
  <2>1. \A o \in Resolving(i)' : o \in Resolving(i) /\ o # h
    BY <1>1 DEF Resolving
  <2>2. accessRequest[i].status = "pending" /\ \A o, q \in Resolving(i) : o = q
    BY <2>1 DEF AccessInv, RequestsPending
  <2>3. i # work[h].request
    BY <2>1, <2>2, Resolved DEF Resolving
  <2> QED
    BY <2>1, <2>2, <2>3, Resolved
<1>5. AccessTasksOK'
  <2>1. RequestNumbers \subseteq RequestNumbers'
    BY Resolved DEF RequestNumbers
  <2>2. \A g \in Grants : grant[g] # None => grant'[g] # None
    BY Resolved
  <2> QED
    BY <1>1, <2>1, <2>2, AccessTasksKept
<1> QED
  BY <1>2, <1>3, <1>4, <1>5 DEF AccessInv

\* A grant is revoked.
LEMMA RevokeGrantOK ==
  ASSUME AccessInv, NEW g \in Grants, RevokeGrant(g)
  PROVE  AccessInv'
<1>1. PICK new : new = [grant[g] EXCEPT !.revoked = TRUE]
  OBVIOUS
<1>2. /\ grant[g] # None /\ grant' = [grant EXCEPT ![g] = new]
      /\ UNCHANGED <<work, users, accessRequest, racedGrants, contested>>
  BY <1>1 DEF RevokeGrant
<1>3. new \in Grant /\ new.email = grant[g].email /\ new.revoked
  BY <1>1, <1>2 DEF AccessInv, AccessTypes, AccessTypeOK, Grant
<1>4. /\ grant' \in [Grants -> Grant \cup {None}] /\ grant'[g] = new /\ new # None
      /\ \A k \in Grants \ {g} : grant'[k] = grant[k]
  BY <1>2, <1>3, AccessAssumption DEF AccessInv, AccessTypes, AccessTypeOK
<1>5. AccessTypes'
  BY <1>2, <1>4 DEF AccessInv, AccessTypes, AccessTypeOK, WorkIn
<1>6. \A e \in People : ActiveGrants(e)' \subseteq ActiveGrants(e)
  BY <1>3, <1>4 DEF ActiveGrants
<1>7. GrantsOK'
  <2>1. \A e \in People, h \in Handlers : GrantingTo(h, e)' <=> GrantingTo(h, e)
    BY <1>2 DEF GrantingTo, Granting, At
  <2> SUFFICES ASSUME NEW e \in People \ racedGrants
               PROVE  /\ \A k, l \in ActiveGrants(e)' : k = l
                      /\ \A p \in Handlers : GrantingTo(p, e)' =>
                           ActiveGrants(e)' = {} /\ \A o \in Handlers : GrantingTo(o, e)' => o = p
    BY <1>2 DEF GrantsOK
  <2> QED
    BY <1>6, <2>1 DEF AccessInv, GrantsOK
<1>8. RequestsPending'
  BY <1>2 DEF AccessInv, RequestsPending, Resolving
<1>9. AccessTasksOK'
  <2> SUFFICES ASSUME NEW o \in Handlers, work[o] # None
               PROVE  /\ work[o].request \in RequestNumbers
                      /\ work[o].grant # None => grant'[work[o].grant] # None
    BY <1>2 DEF AccessTasksOK, RequestNumbers
  <2> QED
    BY <1>4, HandlerKnows
<1> QED
  BY <1>5, <1>7, <1>8, <1>9 DEF AccessInv

\* A registration gives the grant it claims its user.
LEMMA InsertUserOK ==
  ASSUME AccessInv, NEW h \in Handlers, InsertUser(h)
  PROVE  AccessInv'
<1>1. PICK u, g : u = work[h].email /\ g = work[h].grant
  OBVIOUS
<1>2. work[h] # None /\ work' = [work EXCEPT ![h] = None] /\ Finish(h)
  BY DEF InsertUser, At, Finish, Continue
<1>3. CASE u \in users
  BY <1>1, <1>2, <1>3, HandlerGoesOn DEF InsertUser
<1>4. CASE u \notin users
  <2>1. /\ users' = users \cup {u} /\ u \in People
        /\ grant' = IF g = None THEN grant ELSE [grant EXCEPT ![g].user = u]
        /\ UNCHANGED <<accessRequest, racedGrants, contested>>
    BY <1>1, <1>2, <1>4, HandlerKnows DEF InsertUser
  <2>2. /\ grant' \in [Grants -> Grant \cup {None}]
        /\ \A k \in Grants : grant[k] = None => grant'[k] = None
        /\ \A k \in Grants : grant[k] # None =>
             /\ grant'[k] # None /\ grant'[k].email = grant[k].email
             /\ grant'[k].revoked = grant[k].revoked
    <3>1. CASE g = None
      BY <2>1, <3>1 DEF AccessInv, AccessTypes, AccessTypeOK
    <3>2. CASE g # None
      <4>1. g \in Grants /\ grant[g] # None
        BY <1>1, <1>2, <3>2, HandlerKnows
      <4>2. PICK new : new = [grant[g] EXCEPT !.user = u]
        OBVIOUS
      <4>3. new \in Grant /\ new.email = grant[g].email /\ new.revoked = grant[g].revoked
        BY <2>1, <4>1, <4>2 DEF AccessInv, AccessTypes, AccessTypeOK, Grant
      <4>4. new # None
        BY <4>3, AccessAssumption
      <4>5. grant' = [grant EXCEPT ![g] = new]
        BY <2>1, <3>2, <4>2
      <4> QED
        BY <4>1, <4>3, <4>4, <4>5 DEF AccessInv, AccessTypes, AccessTypeOK
    <3> QED
      BY <3>1, <3>2
  <2>3. /\ WorkIn(AccessTask)' /\ work'[h] = None
        /\ \A o \in Handlers \ {h} : work'[o] = work[o]
    BY <1>2, AccessTaskSet DEF AccessInv, AccessTypes
  <2>4. AccessTypes'
    BY <2>1, <2>2, <2>3 DEF AccessInv, AccessTypes, AccessTypeOK
  <2>5. GrantsOK'
    <3>1. \A e \in People : ActiveGrants(e)' = ActiveGrants(e)
      BY <2>2 DEF ActiveGrants
    <3>2. \A e \in People : ~GrantingTo(h, e)'
      BY <2>3 DEF GrantingTo, Granting, At
    <3> QED
      BY <2>1, <2>3, <3>1, <3>2, GrantsRest
  <2>6. RequestsPending'
    <3>1. \A i \in DOMAIN accessRequest : h \notin Resolving(i)'
      BY <2>3 DEF Resolving
    <3> QED
      BY <2>1, <2>3, <3>1, RequestsRest
  <2>7. AccessTasksOK'
    <3>1. RequestNumbers \subseteq RequestNumbers'
      BY <2>1 DEF RequestNumbers
    <3> QED
      BY <2>2, <2>3, <3>1, AccessTasksKept
  <2> QED
    BY <2>4, <2>5, <2>6, <2>7 DEF AccessInv
<1> QED
  BY <1>3, <1>4

\* Every step of grants and requests keeps the invariant.
LEMMA AccessStepOK == AccessInv /\ [AccessNext]_<<work, accessVars>> => AccessInv'
<1> SUFFICES ASSUME AccessInv, [AccessNext]_<<work, accessVars>> PROVE AccessInv'
  OBVIOUS
<1>1. CASE UNCHANGED <<work, accessVars>>
  <2>1. AccessTypes'
    BY <1>1 DEF accessVars, AccessInv, AccessTypes, AccessTypeOK, WorkIn
  <2>2. /\ \A e \in People : ActiveGrants(e)' = ActiveGrants(e)
        /\ \A h \in Handlers, e \in People : GrantingTo(h, e)' <=> GrantingTo(h, e)
    BY <1>1 DEF accessVars, GrantingTo, Granting, At, ActiveGrants
  <2>3. GrantsOK'
    <3> SUFFICES ASSUME NEW e \in People \ racedGrants
                 PROVE  /\ \A g, k \in ActiveGrants(e)' : g = k
                        /\ \A h \in Handlers : GrantingTo(h, e)' =>
                             ActiveGrants(e)' = {} /\ \A o \in Handlers : GrantingTo(o, e)' => o = h
      BY <1>1 DEF accessVars, GrantsOK
    <3>1. /\ \A g, k \in ActiveGrants(e) : g = k
          /\ \A h \in Handlers : GrantingTo(h, e) =>
               ActiveGrants(e) = {} /\ \A o \in Handlers : GrantingTo(o, e) => o = h
      BY <1>1 DEF AccessInv, GrantsOK, accessVars
    <3>2. ActiveGrants(e)' = ActiveGrants(e) /\ \A h \in Handlers : GrantingTo(h, e)' <=> GrantingTo(h, e)
      BY <2>2
    <3> QED
      BY <3>1, <3>2
  <2>4. RequestsPending' /\ AccessTasksOK'
    BY <1>1 DEF accessVars, AccessInv, RequestsPending, Resolving, AccessTasksOK, RequestNumbers
  <2> QED
    BY <2>1, <2>3, <2>4 DEF AccessInv
<1>2. ASSUME NEW h \in Handlers, AccessStep(h)
      PROVE  AccessInv'
  BY <1>2, BeginGrantOK, FoundOK, FindNoGrantOK, ReadGranteeOK, InsertGrantOK, BeginAskingOK,
     InsertRequestOK, InsertUserOK, BeginResolvingOK, ResolveRequestOK DEF AccessStep
<1>3. ASSUME NEW g \in Grants, DeleteAccessGrant(g) \/ DeleteVerifierAccess(g)
      PROVE  AccessInv'
  BY <1>3, RevokeGrantOK DEF DeleteAccessGrant, DeleteVerifierAccess
<1> QED
  BY <1>1, <1>2, <1>3 DEF AccessNext

\* No two active grants are as many as one.
LEMMA OneGrantIsCounted == AccessInv => OneActiveGrant
<1> SUFFICES ASSUME AccessInv, NEW e \in People \ racedGrants
             PROVE  Cardinality(ActiveGrants(e)) <= 1
  BY DEF OneActiveGrant
<1>1. CASE ActiveGrants(e) = {}
  BY <1>1, FS_EmptySet
<1>2. CASE ActiveGrants(e) # {}
  <2>1. PICK g : ActiveGrants(e) = {g}
    BY <1>2 DEF AccessInv, GrantsOK
  <2> QED
    BY <2>1, FS_Singleton
<1> QED
  BY <1>1, <1>2

\* The only step that changes a request resolves it, and finds it pending or contested.
LEMMA OnlyPendingIsAnswered == AccessInv /\ [AccessNext]_<<work, accessVars>> => AnswersStay
<1> SUFFICES ASSUME AccessInv, [AccessNext]_<<work, accessVars>>,
                    NEW i \in DOMAIN accessRequest \ contested, accessRequest[i].status # "pending"
             PROVE  accessRequest'[i] = accessRequest[i]
  BY DEF AnswersStay
<1>1. ASSUME NEW h \in Handlers, ResolveRequest(h)
      PROVE  accessRequest'[i] = accessRequest[i]
  <2>1. h \notin Resolving(i)
    BY DEF AccessInv, RequestsPending
  <2> QED
    BY <1>1, <2>1, Resolved DEF Resolving
<1>2. ASSUME NEW h \in Handlers, InsertRequest(h)
      PROVE  accessRequest'[i] = accessRequest[i]
  <2>1. PICK new : accessRequest' = Append(accessRequest, new)
    BY <1>2 DEF InsertRequest
  <2>2. accessRequest \in Seq(AccessRequest) /\ i \in 1..Len(accessRequest)
    BY RequestsNumbered DEF AccessInv, AccessTypes, AccessTypeOK
  <2> QED
    BY <2>1, <2>2
<1>3. CASE UNCHANGED accessRequest
  BY <1>3
<1> QED
  BY <1>1, <1>2, <1>3
     DEF AccessNext, AccessStep, accessVars, GrantFromDashboard, GrantFromPublicApi, ReuseGrant,
         FindNoGrant, ReadGrantee, InsertGrant, RequestAccess, Register, FindRequest, InsertUser,
         Approve, Deny, LoadRequest, DeleteAccessGrant, DeleteVerifierAccess, RevokeGrant

\* The rows of grants and requests, and what handlers hold of them have their types.
THEOREM GrantsAreTyped == AccessSpec => [](AccessTypeOK /\ WorkIn(AccessTask))
<1>1. AccessInv => AccessTypeOK /\ WorkIn(AccessTask)
  BY DEF AccessInv, AccessTypes
<1> QED
  BY <1>1, AccessInitOK, AccessStepOK, PTL DEF AccessSpec

\* Granting, revoking, asking, answering and registering in any order leave a person one
\* grant at most and an answer as it was given, except where two handlers met.
THEOREM GrantsAndAnswersHold == AccessSpec => OneGrantOneAnswer
<1>1. AccessInv /\ [AccessNext]_<<work, accessVars>> => AccessInv' /\ OneActiveGrant' /\ AnswersStay
  <2> SUFFICES ASSUME AccessInv, [AccessNext]_<<work, accessVars>>
               PROVE  AccessInv' /\ OneActiveGrant' /\ AnswersStay
    OBVIOUS
  <2>1. AccessInv' /\ AnswersStay
    BY AccessStepOK, OnlyPendingIsAnswered
  <2>2. AccessInv' => OneActiveGrant'
    BY OneGrantIsCounted, PTL
  <2> QED
    BY <2>1, <2>2
<1> QED
  BY <1>1, AccessInitOK, PTL DEF AccessSpec, OneGrantOneAnswer

-----------------------------------------------------------------------------
(* Pairing codes and devices                                               *)

PairingSpec ==
  NoWork /\ PairingInit /\ [][PairingNext]_<<work, pairingVars>>

\* the unique index on devices.public_key
KeysUnique ==
  \A d, e \in Devices :
    device[d] # None /\ device[e] # None /\ device[d].key = device[e].key => d = e

\* an approved code names a device with the key the desktop showed
ApprovedOwnsDevice ==
  \A c \in Codes :
    attempt[c] # None /\ attempt[c].device # None =>
      /\ device[attempt[c].device] # None
      /\ device[attempt[c].device].key = attempt[c].key

\* what a handler has read still holds: codes keep their keys, devices stay
TasksOK ==
  \A h \in Handlers :
    /\ At(h, "pair") =>
         /\ work[h].code \in Codes
         /\ attempt[work[h].code] # None
         /\ attempt[work[h].code].key = work[h].key
    /\ At(h, "revoke device") =>
         /\ work[h].device \in Devices
         /\ device[work[h].device] # None

PairingTypes == PairingTypeOK /\ WorkIn(PairingTask)

PairingInv == PairingTypes /\ KeysUnique /\ ApprovedOwnsDevice /\ TasksOK

-----------------------------------------------------------------------------
\* A code is approved exactly when it names a device.
LEMMA ApprovedMeansDevice ==
  ASSUME NEW a \in Attempt
  PROVE  (PairingState(a) = "approved") <=> (a.device # None)
<1>1. CASE a.device # None
  BY <1>1 DEF PairingState
<1>2. CASE a.device = None /\ a.expired
  BY <1>2 DEF PairingState
<1>3. CASE a.device = None /\ ~a.expired
  BY <1>3 DEF PairingState
<1> QED
  BY <1>1, <1>2, <1>3 DEF Attempt

\* The id of a new device is free.
LEMMA NewDeviceFree ==
  ASSUME FreeDevices # {}
  PROVE  NewDevice \in Devices /\ device[NewDevice] = None
BY DEF NewDevice, FreeDevices

\* Initially there are no codes, devices or tasks.
LEMMA PairingInitOK == NoWork /\ PairingInit => PairingInv
BY DEF NoWork, PairingInit, PairingInv, PairingTypes, PairingTypeOK, WorkIn, KeysUnique,
       ApprovedOwnsDevice, TasksOK, At

\* A request that begins with a sound task, with nothing else changed.
LEMMA BeginOK ==
  ASSUME PairingInv, UNCHANGED pairingVars,
         NEW h \in Handlers, NEW t \in PairingTask, Begin(h, t),
         t.step = "pair" => /\ t.code \in Codes
                            /\ attempt[t.code] # None
                            /\ attempt[t.code].key = t.key,
         t.step = "revoke device" => t.device \in Devices /\ device[t.device] # None
  PROVE  PairingInv'
<1>1. work' \in [Handlers -> PairingTask \cup {None}]
  BY DEF Begin, PairingInv, PairingTypes, WorkIn
<1>2. /\ work'[h] = t
      /\ \A o \in Handlers \ {h} : work'[o] = work[o]
  BY DEF Begin, PairingInv, PairingTypes, WorkIn
<1>3. TasksOK'
  BY <1>2 DEF PairingInv, TasksOK, At, pairingVars
<1> QED
  BY <1>1, <1>3 DEF PairingInv, PairingTypes, PairingTypeOK, WorkIn, KeysUnique,
                    ApprovedOwnsDevice, pairingVars

\* A request that ends leaves the tasks of the others.
LEMMA FinishOK ==
  ASSUME PairingTypes, NEW h \in Handlers, Finish(h)
  PROVE  /\ WorkIn(PairingTask)'
         /\ work'[h] = None
         /\ \A o \in Handlers \ {h} : work'[o] = work[o]
BY DEF PairingTypes, WorkIn, Finish, Continue

\* Other requests keep sound tasks when codes keep their keys and devices stay.
LEMMA OtherTasksOK ==
  ASSUME PairingInv, NEW h \in Handlers,
         work'[h] = None,
         \A o \in Handlers \ {h} : work'[o] = work[o],
         \A c \in Codes : attempt[c] # None =>
           attempt'[c] # None /\ attempt'[c].key = attempt[c].key,
         \A d \in Devices : device[d] # None => device'[d] # None
  PROVE  TasksOK'
<1> SUFFICES ASSUME NEW o \in Handlers
             PROVE  /\ At(o, "pair")' => /\ work'[o].code \in Codes
                                         /\ attempt'[work'[o].code] # None
                                         /\ attempt'[work'[o].code].key = work'[o].key
                    /\ At(o, "revoke device")' => /\ work'[o].device \in Devices
                                                  /\ device'[work'[o].device] # None
  BY DEF TasksOK
<1>1. CASE o = h
  BY <1>1 DEF At
<1>2. CASE o # h
  <2>1. work'[o] = work[o]
    BY <1>2
  <2>2. /\ At(o, "pair")' <=> At(o, "pair")
        /\ At(o, "revoke device")' <=> At(o, "revoke device")
    BY <2>1 DEF At
  <2>3. ASSUME At(o, "pair")
        PROVE  /\ work'[o].code \in Codes
               /\ attempt'[work'[o].code] # None
               /\ attempt'[work'[o].code].key = work'[o].key
    <3>1. /\ work[o].code \in Codes
          /\ attempt[work[o].code] # None
          /\ attempt[work[o].code].key = work[o].key
      BY <2>3 DEF PairingInv, TasksOK
    <3> QED
      BY <2>1, <3>1
  <2>4. ASSUME At(o, "revoke device")
        PROVE  work'[o].device \in Devices /\ device'[work'[o].device] # None
    BY <2>1, <2>4 DEF PairingInv, TasksOK
  <2> QED
    BY <2>2, <2>3, <2>4
<1> QED
  BY <1>1, <1>2

\* A row inserted under a key that no device has.
LEMMA InsertOK ==
  ASSUME PairingInv, NEW h \in Handlers, work[h] # None,
         work[h].key \notin KeysInUse, InsertDevice(h)
  PROVE  /\ device' \in [Devices -> DeviceRow \cup {None}]
         /\ KeysUnique'
         /\ NewDevice \in Devices
         /\ device[NewDevice] = None
         /\ device'[NewDevice] # None
         /\ device'[NewDevice].key = work[h].key
         /\ \A d \in Devices \ {NewDevice} : device'[d] = device[d]
<1>1. NewDevice \in Devices /\ device[NewDevice] = None
  BY NewDeviceFree DEF InsertDevice
<1> DEFINE row == [key |-> work[h].key, user |-> work[h].user, revoked |-> FALSE]
<1>2. row \in DeviceRow /\ row # None
  <2>1. work[h].key \in DeviceKeys /\ work[h].user \in Members
    BY DEF PairingInv, PairingTypes, WorkIn, PairingTask
  <2>2. row \in DeviceRow
    BY <2>1 DEF DeviceRow
  <2> HIDE DEF row
  <2> QED
    BY <2>2, PairingAssumption
<1>3. /\ device' \in [Devices -> DeviceRow \cup {None}]
      /\ device'[NewDevice] = row
      /\ \A d \in Devices \ {NewDevice} : device'[d] = device[d]
  BY <1>1, <1>2 DEF InsertDevice, PairingInv, PairingTypes, PairingTypeOK
<1>4. \A d \in Devices : device[d] # None => device[d].key # work[h].key
  BY DEF KeysInUse, FreeDevices
<1>5. KeysUnique'
  <2> SUFFICES ASSUME NEW d \in Devices, NEW e \in Devices,
                      device'[d] # None, device'[e] # None, device'[d].key = device'[e].key
               PROVE  d = e
    BY DEF KeysUnique
  <2>1. CASE d = NewDevice /\ e # NewDevice
    BY <2>1, <1>3, <1>4
  <2>2. CASE d # NewDevice /\ e = NewDevice
    BY <2>2, <1>3, <1>4
  <2>3. CASE d # NewDevice /\ e # NewDevice
    BY <2>3, <1>3 DEF PairingInv, KeysUnique
  <2> QED
    BY <2>1, <2>2, <2>3
<1> QED
  BY <1>1, <1>2, <1>3, <1>5

-----------------------------------------------------------------------------
\* What every step leaves true of the rows: codes that were shown keep their
\* keys, approved ones their device; devices keep everything but "revoked",
\* which is never taken back.
RowsKept ==
  /\ \A c \in Codes : attempt[c] # None =>
       /\ attempt'[c] # None
       /\ attempt'[c].key = attempt[c].key
       /\ attempt[c].device # None => attempt'[c].device = attempt[c].device
  /\ \A d \in Devices : device[d] # None =>
       /\ device'[d] # None
       /\ device'[d] = [device[d] EXCEPT !.revoked = device'[d].revoked]
       /\ device[d].revoked => device'[d].revoked

\* Requests that only read keep codes and devices.
LEMMA RowsUntouched ==
  ASSUME PairingInv, UNCHANGED pairingVars
  PROVE  RowsKept
BY DEF RowsKept, pairingVars, PairingInv, PairingTypes, PairingTypeOK, DeviceRow

\* Inserting one device touches no other row.
LEMMA InsertKeepsDevices ==
  ASSUME PairingInv, NEW n \in Devices, device[n] = None,
         \A d \in Devices \ {n} : device'[d] = device[d]
  PROVE  \A d \in Devices : device[d] # None =>
           /\ device'[d] # None
           /\ device'[d] = [device[d] EXCEPT !.revoked = device'[d].revoked]
           /\ device[d].revoked => device'[d].revoked
BY DEF PairingInv, PairingTypes, PairingTypeOK, DeviceRow

\* A new code is pending, and names no device.
LEMMA InitiateOK ==
  ASSUME PairingInv, NEW c \in Codes, NEW k \in DeviceKeys, Initiate(c, k)
  PROVE  PairingInv' /\ RowsKept
<1> DEFINE a == [key |-> k, device |-> None, expired |-> FALSE]
<1>1. a \in Attempt /\ a # None
  <2>1. a \in Attempt
    BY DEF Attempt
  <2> HIDE DEF a
  <2> QED
    BY <2>1, PairingAssumption
<1>2. /\ attempt' \in [Codes -> Attempt \cup {None}]
      /\ attempt'[c] = a
      /\ \A o \in Codes \ {c} : attempt'[o] = attempt[o]
  BY <1>1 DEF Initiate, PairingInv, PairingTypes, PairingTypeOK
<1>3. PairingTypes' /\ KeysUnique'
  BY <1>2 DEF Initiate, PairingInv, PairingTypes, PairingTypeOK, WorkIn, KeysUnique
<1>4. ApprovedOwnsDevice'
  BY <1>2 DEF Initiate, PairingInv, ApprovedOwnsDevice
<1>5. TasksOK'
  BY <1>2 DEF Initiate, PairingInv, TasksOK, At
<1>6. RowsKept
  BY <1>2 DEF Initiate, RowsKept, PairingInv, PairingTypes, PairingTypeOK, DeviceRow
<1> QED
  BY <1>3, <1>4, <1>5, <1>6 DEF PairingInv

\* A code that expires keeps its key and its device.
LEMMA CodeExpiresOK ==
  ASSUME PairingInv, NEW c \in Codes, CodeExpires(c)
  PROVE  PairingInv' /\ RowsKept
<1> DEFINE a == [attempt[c] EXCEPT !.expired = TRUE]
<1>1. /\ a \in Attempt /\ a # None
      /\ a.key = attempt[c].key /\ a.device = attempt[c].device
  BY PairingAssumption DEF CodeExpires, PairingInv, PairingTypes, PairingTypeOK, Attempt
<1>2. /\ attempt' \in [Codes -> Attempt \cup {None}]
      /\ attempt'[c] = a
      /\ \A o \in Codes \ {c} : attempt'[o] = attempt[o]
  BY <1>1 DEF CodeExpires, PairingInv, PairingTypes, PairingTypeOK
<1>3. PairingTypes' /\ KeysUnique'
  BY <1>2 DEF CodeExpires, PairingInv, PairingTypes, PairingTypeOK, WorkIn, KeysUnique
<1>4. ApprovedOwnsDevice'
  BY <1>1, <1>2 DEF CodeExpires, PairingInv, ApprovedOwnsDevice
<1>5. TasksOK'
  <2>1. \A o \in Codes : attempt[o] # None =>
           attempt'[o] # None /\ attempt'[o].key = attempt[o].key
    BY <1>1, <1>2
  <2>2. work' = work /\ device' = device
    BY DEF CodeExpires
  <2> QED
    BY <2>1, <2>2 DEF PairingInv, TasksOK, At
<1>6. RowsKept
  BY <1>1, <1>2 DEF CodeExpires, RowsKept, PairingInv, PairingTypes, PairingTypeOK, DeviceRow
<1> QED
  BY <1>3, <1>4, <1>5, <1>6 DEF PairingInv

\* The approval creates the device and names it in the code at once, or finds the key in use.
LEMMA PairDeviceOK ==
  ASSUME PairingInv, NEW h \in Handlers, PairDevice(h)
  PROVE  PairingInv' /\ RowsKept
<1>1. /\ WorkIn(PairingTask)'
      /\ work'[h] = None
      /\ \A o \in Handlers \ {h} : work'[o] = work[o]
  BY FinishOK DEF PairDevice, PairingInv
<1>2. CASE UNCHANGED pairingVars
  <2>1. TasksOK'
    BY <1>1, <1>2 DEF PairingInv, TasksOK, At, pairingVars
  <2>2. PairingInv'
    BY <1>1, <1>2, <2>1 DEF PairingInv, PairingTypes, PairingTypeOK, KeysUnique,
                            ApprovedOwnsDevice, pairingVars
  <2> QED
    BY <1>2, <2>2, RowsUntouched
<1>3. CASE /\ work[h].key \notin KeysInUse
           /\ InsertDevice(h)
           /\ attempt' = [attempt EXCEPT ![work[h].code].device = NewDevice]
  <2> DEFINE c == work[h].code
             n == NewDevice
  <2>1. /\ work[h] # None /\ c \in Codes
        /\ attempt[c] # None /\ attempt[c].key = work[h].key
    BY DEF PairDevice, At, PairingInv, TasksOK
  <2>2. /\ device' \in [Devices -> DeviceRow \cup {None}]
        /\ KeysUnique'
        /\ n \in Devices /\ device[n] = None
        /\ device'[n] # None /\ device'[n].key = work[h].key
        /\ \A d \in Devices \ {n} : device'[d] = device[d]
    BY <1>3, <2>1, InsertOK
  \* had the code been approved, its device would have the key
  <2>3. attempt[c].device = None
    <3> SUFFICES ASSUME attempt[c].device # None PROVE FALSE
      OBVIOUS
    <3>1. /\ attempt[c].device \in Devices
          /\ device[attempt[c].device] # None
          /\ device[attempt[c].device].key = work[h].key
      BY <2>1 DEF PairingInv, PairingTypes, PairingTypeOK, Attempt, ApprovedOwnsDevice
    <3> QED
      BY <1>3, <3>1 DEF KeysInUse, FreeDevices
  <2> DEFINE a == [attempt[c] EXCEPT !.device = n]
  <2>4. a \in Attempt /\ a # None /\ a.key = attempt[c].key /\ a.device = n
    BY <2>1, <2>2, PairingAssumption DEF PairingInv, PairingTypes, PairingTypeOK, Attempt
  <2>5. /\ attempt' \in [Codes -> Attempt \cup {None}]
        /\ attempt'[c] = a
        /\ \A o \in Codes \ {c} : attempt'[o] = attempt[o]
    BY <1>3, <2>1, <2>4 DEF PairingInv, PairingTypes, PairingTypeOK
  <2>6. ApprovedOwnsDevice'
    <3> SUFFICES ASSUME NEW o \in Codes, attempt'[o] # None, attempt'[o].device # None
                 PROVE  /\ device'[attempt'[o].device] # None
                        /\ device'[attempt'[o].device].key = attempt'[o].key
      BY DEF ApprovedOwnsDevice
    <3>1. CASE o = c
      BY <3>1, <2>1, <2>2, <2>4, <2>5
    <3>2. CASE o # c
      <4>1. /\ attempt'[o] = attempt[o]
            /\ attempt[o].device \in Devices
            /\ device[attempt[o].device] # None
            /\ device[attempt[o].device].key = attempt[o].key
        BY <3>2, <2>5 DEF PairingInv, PairingTypes, PairingTypeOK, Attempt, ApprovedOwnsDevice
      <4> QED
        BY <4>1, <2>2
    <3> QED
      BY <3>1, <3>2
  <2>7. TasksOK'
    <3>1. /\ \A o \in Codes : attempt[o] # None =>
                attempt'[o] # None /\ attempt'[o].key = attempt[o].key
          /\ \A d \in Devices : device[d] # None => device'[d] # None
      BY <2>2, <2>4, <2>5
    <3> QED
      BY <1>1, <3>1, OtherTasksOK
  <2>8. RowsKept
    <3>1. \A o \in Codes : attempt[o] # None =>
             /\ attempt'[o] # None
             /\ attempt'[o].key = attempt[o].key
             /\ attempt[o].device # None => attempt'[o].device = attempt[o].device
      BY <2>3, <2>4, <2>5
    <3> QED
      BY <2>2, <3>1, InsertKeepsDevices DEF RowsKept
  <2> QED
    BY <1>1, <2>2, <2>5, <2>6, <2>7, <2>8 DEF PairingInv, PairingTypes, PairingTypeOK
<1> QED
  BY <1>2, <1>3 DEF PairDevice

\* A sign-in creates a device if no device has its key.
LEMMA MintDeviceOK ==
  ASSUME PairingInv, NEW h \in Handlers, MintDevice(h)
  PROVE  PairingInv' /\ RowsKept
<1>1. /\ WorkIn(PairingTask)'
      /\ work'[h] = None
      /\ \A o \in Handlers \ {h} : work'[o] = work[o]
  BY FinishOK DEF MintDevice, PairingInv
<1>2. CASE work[h].key \in KeysInUse
  <2>1. UNCHANGED pairingVars
    BY <1>2 DEF MintDevice, pairingVars
  <2>2. TasksOK'
    BY <1>1, <2>1 DEF PairingInv, TasksOK, At, pairingVars
  <2>3. PairingInv'
    BY <1>1, <2>1, <2>2 DEF PairingInv, PairingTypes, PairingTypeOK, KeysUnique,
                            ApprovedOwnsDevice, pairingVars
  <2> QED
    BY <2>1, <2>3, RowsUntouched
<1>3. CASE work[h].key \notin KeysInUse
  <2> DEFINE n == NewDevice
  <2>1. /\ device' \in [Devices -> DeviceRow \cup {None}]
        /\ KeysUnique'
        /\ n \in Devices /\ device[n] = None
        /\ device'[n] # None
        /\ \A d \in Devices \ {n} : device'[d] = device[d]
    BY <1>3, InsertOK DEF MintDevice, At
  <2>2. attempt' = attempt
    BY DEF MintDevice
  <2>3. ApprovedOwnsDevice'
    BY <2>1, <2>2 DEF PairingInv, PairingTypes, PairingTypeOK, Attempt, ApprovedOwnsDevice
  <2>4. TasksOK'
    <3>1. \A d \in Devices : device[d] # None => device'[d] # None
      BY <2>1
    <3> QED
      BY <1>1, <2>2, <3>1, OtherTasksOK
  <2>5. RowsKept
    BY <2>1, <2>2, InsertKeepsDevices DEF RowsKept
  <2> QED
    BY <1>1, <2>1, <2>2, <2>3, <2>4, <2>5 DEF PairingInv, PairingTypes, PairingTypeOK
<1> QED
  BY <1>2, <1>3

\* A revoked device stays the device of its code.
LEMMA RevokeDeviceOK ==
  ASSUME PairingInv, NEW h \in Handlers, RevokeDevice(h)
  PROVE  PairingInv' /\ RowsKept
<1> DEFINE n == work[h].device
           row == [device[n] EXCEPT !.revoked = TRUE]
<1>1. /\ WorkIn(PairingTask)'
      /\ work'[h] = None
      /\ \A o \in Handlers \ {h} : work'[o] = work[o]
  BY FinishOK DEF RevokeDevice, PairingInv
<1>2. n \in Devices /\ device[n] # None /\ device[n] \in DeviceRow
  BY DEF RevokeDevice, PairingInv, TasksOK, PairingTypes, PairingTypeOK
<1>3. /\ row \in DeviceRow /\ row # None
      /\ row.key = device[n].key /\ row.revoked
  BY <1>2, PairingAssumption DEF DeviceRow
<1>4. /\ device' \in [Devices -> DeviceRow \cup {None}]
      /\ device'[n] = row
      /\ \A d \in Devices \ {n} : device'[d] = device[d]
  BY <1>2, <1>3 DEF RevokeDevice, PairingInv, PairingTypes, PairingTypeOK
<1>5. \A d \in Devices : /\ device'[d] # None <=> device[d] # None
                         /\ device[d] # None => device'[d].key = device[d].key
  BY <1>2, <1>3, <1>4
<1>6. attempt' = attempt
  BY DEF RevokeDevice
<1>7. KeysUnique'
  BY <1>5 DEF PairingInv, KeysUnique
<1>8. ApprovedOwnsDevice'
  BY <1>5, <1>6 DEF PairingInv, PairingTypes, PairingTypeOK, Attempt, ApprovedOwnsDevice
<1>9. TasksOK'
  BY <1>1, <1>5, <1>6 DEF PairingInv, TasksOK, At
<1>10. RowsKept
  <2>1. ASSUME NEW d \in Devices, device[d] # None
        PROVE  /\ device'[d] # None
               /\ device'[d] = [device[d] EXCEPT !.revoked = device'[d].revoked]
               /\ device[d].revoked => device'[d].revoked
    <3>1. CASE d = n
      BY <3>1, <1>2, <1>3, <1>4 DEF DeviceRow
    <3>2. CASE d # n
      BY <3>2, <2>1, <1>4 DEF PairingInv, PairingTypes, PairingTypeOK, DeviceRow
    <3> QED
      BY <3>1, <3>2
  <2> QED
    BY <1>6, <2>1 DEF RowsKept
<1> QED
  BY <1>1, <1>4, <1>6, <1>7, <1>8, <1>9, <1>10 DEF PairingInv, PairingTypes, PairingTypeOK

\* One step per action.
LEMMA PairingStepOK ==
  ASSUME PairingInv, [PairingNext]_<<work, pairingVars>>
  PROVE  PairingInv' /\ RowsKept
<1>1. ASSUME NEW h \in Handlers, NEW u \in Members, NEW c \in Codes, ApprovePairing(h, u, c)
      PROVE  PairingInv' /\ RowsKept
  <2> DEFINE t == PairingStep("pair", u, attempt[c].key, c, None)
  <2>1. t \in PairingTask
    BY <1>1 DEF ApprovePairing, PairingStep, PairingTask, PairingInv, PairingTypes,
                PairingTypeOK, Attempt
  <2>2. PairingInv'
    BY <1>1, <2>1, BeginOK DEF ApprovePairing, PairingStep
  <2> QED
    BY <1>1, <2>2, RowsUntouched DEF ApprovePairing
<1>2. ASSUME NEW h \in Handlers, NEW u \in Members, NEW k \in DeviceKeys, RequestMint(h, u, k)
      PROVE  PairingInv' /\ RowsKept
  <2> DEFINE t == PairingStep("mint", u, k, None, None)
  <2>1. t \in PairingTask
    BY DEF PairingStep, PairingTask
  <2>2. PairingInv'
    BY <1>2, <2>1, BeginOK DEF RequestMint, PairingStep
  <2> QED
    BY <1>2, <2>2, RowsUntouched DEF RequestMint
<1>3. ASSUME NEW h \in Handlers, NEW d \in Devices, RequestRevocation(h, d)
      PROVE  PairingInv' /\ RowsKept
  <2> DEFINE t == PairingStep("revoke device", device[d].user, device[d].key, None, d)
  <2>1. t \in PairingTask
    BY <1>3 DEF RequestRevocation, PairingStep, PairingTask, PairingInv, PairingTypes,
                PairingTypeOK, DeviceRow
  <2>2. PairingInv'
    BY <1>3, <2>1, BeginOK DEF RequestRevocation, PairingStep
  <2> QED
    BY <1>3, <2>2, RowsUntouched DEF RequestRevocation
<1>4. ASSUME NEW h \in Handlers, Cut(h), UNCHANGED pairingVars
      PROVE  PairingInv' /\ RowsKept
  <2>1. /\ WorkIn(PairingTask)'
        /\ work'[h] = None
        /\ \A o \in Handlers \ {h} : work'[o] = work[o]
    BY <1>4, FinishOK DEF Cut, PairingInv
  <2>2. TasksOK'
    BY <1>4, <2>1 DEF PairingInv, TasksOK, At, pairingVars
  <2>3. PairingInv'
    BY <1>4, <2>1, <2>2 DEF PairingInv, PairingTypes, PairingTypeOK, KeysUnique,
                            ApprovedOwnsDevice, pairingVars
  <2> QED
    BY <1>4, <2>3, RowsUntouched
<1>5. ASSUME UNCHANGED <<work, pairingVars>>
      PROVE  PairingInv' /\ RowsKept
  <2>1. PairingInv'
    BY <1>5 DEF PairingInv, PairingTypes, PairingTypeOK, WorkIn, KeysUnique,
                ApprovedOwnsDevice, TasksOK, At, pairingVars
  <2> QED
    BY <1>5, <2>1, RowsUntouched
<1> QED
  BY <1>1, <1>2, <1>3, <1>4, <1>5, InitiateOK, CodeExpiresOK, PairDeviceOK, MintDeviceOK,
     RevokeDeviceOK DEF PairingNext, PairingHandler

-----------------------------------------------------------------------------
\* Rows and tasks keep their types, and no two devices have one key, whichever
\* of approval and direct minting creates them.
THEOREM PairingAlwaysSound == PairingSpec => [](PairingTypeOK /\ KeysUnique)
<1>1. PairingInv /\ [PairingNext]_<<work, pairingVars>> => PairingInv'
  BY PairingStepOK
<1>2. PairingInv => PairingTypeOK /\ KeysUnique
  BY DEF PairingInv, PairingTypes
<1> QED
  BY <1>1, <1>2, PairingInitOK, PTL DEF PairingSpec

\* An approved code stays approved with the same device, and a revoked device
\* leaves no other with its key: whatever is in flight.
THEOREM ApprovalIsFinal == PairingSpec => PairingFinal
<1> DEFINE Kept ==
      \A c \in Codes :
        attempt[c] # None /\ PairingState(attempt[c]) = "approved" =>
          LET d == attempt[c].device
          IN  /\ PairingState(attempt'[c]) = "approved"
              /\ attempt'[c].device = d
              /\ device'[d] = [device[d] EXCEPT !.revoked = device'[d].revoked]
              /\ device'[d].key = attempt[c].key
              /\ device[d].revoked =>
                   \A o \in Devices : device'[o] # None /\ device'[o].key = attempt[c].key
                                        => device'[o].revoked
<1>1. ASSUME PairingInv, [PairingNext]_<<work, pairingVars>>
      PROVE  PairingInv' /\ Kept
  <2>1. PairingInv' /\ RowsKept
    BY <1>1, PairingStepOK
  <2>2. ASSUME NEW c \in Codes, attempt[c] # None, PairingState(attempt[c]) = "approved"
        PROVE  LET d == attempt[c].device
               IN  /\ PairingState(attempt'[c]) = "approved"
                   /\ attempt'[c].device = d
                   /\ device'[d] = [device[d] EXCEPT !.revoked = device'[d].revoked]
                   /\ device'[d].key = attempt[c].key
                   /\ device[d].revoked =>
                        \A o \in Devices : device'[o] # None /\ device'[o].key = attempt[c].key
                                             => device'[o].revoked
    <3> DEFINE d == attempt[c].device
    <3>1. attempt[c] \in Attempt
      BY <1>1, <2>2 DEF PairingInv, PairingTypes, PairingTypeOK
    <3>2. d # None /\ d \in Devices
      BY <2>2, <3>1, ApprovedMeansDevice DEF Attempt
    <3>3. device[d] # None /\ device[d].key = attempt[c].key
      BY <1>1, <2>2, <3>2 DEF PairingInv, ApprovedOwnsDevice
    <3>4. /\ attempt'[c] # None /\ attempt'[c].device = d
          /\ attempt'[c].key = attempt[c].key
      BY <2>1, <2>2, <3>2 DEF RowsKept
    <3>5. /\ device'[d] # None
          /\ device'[d] = [device[d] EXCEPT !.revoked = device'[d].revoked]
          /\ device[d].revoked => device'[d].revoked
      BY <2>1, <3>2, <3>3 DEF RowsKept
    <3>6. PairingState(attempt'[c]) = "approved"
      <4>1. attempt'[c] \in Attempt
        BY <2>1, <3>4 DEF PairingInv, PairingTypes, PairingTypeOK
      <4> QED
        BY <4>1, <3>2, <3>4, ApprovedMeansDevice
    <3>7. device'[d].key = attempt[c].key
      BY <2>1, <3>2, <3>4 DEF PairingInv, ApprovedOwnsDevice
    <3>8. ASSUME device[d].revoked, NEW o \in Devices,
                 device'[o] # None, device'[o].key = attempt[c].key
          PROVE  device'[o].revoked
      <4>1. o = d
        BY <2>1, <3>2, <3>5, <3>7, <3>8 DEF PairingInv, KeysUnique
      <4> QED
        BY <4>1, <3>5, <3>8
    <3> QED
      BY <3>4, <3>5, <3>6, <3>7, <3>8
  <2> QED
    BY <2>1, <2>2
<1>2. PairingInv /\ [PairingNext]_<<work, pairingVars>> => PairingInv' /\ [Kept]_pairingVars
  BY <1>1
<1> QED
  BY <1>2, PairingInitOK, PTL DEF PairingSpec, PairingFinal

-----------------------------------------------------------------------------
(* Lookups                                                                 *)

LookupSpec == NoWork /\ LookupInit /\ [][LookupNext]_<<work, lookupVars>>

\* lookups that were counted in minute m and are not answered yet
Pending(m) == {h \in Handlers : work[h] # None /\ work[h].counted = m}

UncountedFirst ==
  \A h \in Handlers, t \in LookupStep : work[h] = t /\ t.step = "count" => t.counted = None
AnswerIsOfQuestion ==
  answer # None => answer.question \in Question /\ answer = PackageFor(answer.question)
MinuteKept(m) ==
  /\ IsFiniteSet(Pending(m))
  /\ answered[m] + Cardinality(Pending(m)) <= counted[m]
  /\ answered[m] + Cardinality(Pending(m)) <= PerMinute

LookupInv ==
  /\ LookupTypeOK /\ WorkIn(LookupStep) /\ UncountedFirst
  /\ AnswerIsOfQuestion
  /\ linkPage = "result" => answer # None
  /\ \A m \in 0..LastMinute : MinuteKept(m)

\* A set of numbers has a least one.
LEMMA LeastOf == ASSUME NEW S \in SUBSET Nat, S # {} PROVE \E i \in S : \A j \in S : i <= j
<1> DEFINE R == {ss \in Nat \X Nat : ss[1] < ss[2]}
<1>1. IsWellFoundedOn(R, Nat)
  BY NatLessThanWellFounded DEF OpToRel
<1>2. PICK i \in S : \A j \in S : <<j, i>> \notin R
  BY <1>1, WFMin
<1>3. \A j \in S : ~(j < i)
  BY <1>2
<1> QED
  BY <1>3

\* The leaf that matches is one of the manifest, of those that fit.
LEMMA MatchedIs ==
  ASSUME leaves \in LeafLists, NEW q
  PROVE  \/ Matching(q) = {} /\ MatchedLeaf(q) = None
         \/ \E i \in Matching(q) : MatchedLeaf(q) = leaves[i] /\ leaves[i] \in Leaf
<1>1. PICK n \in 0..MaxLeaves : leaves \in [1..n -> Leaf]
  BY DEF LeafLists
<1>2. Matching(q) \in SUBSET Nat /\ \A i \in Matching(q) : leaves[i] \in Leaf
  BY <1>1, LookupAssumption DEF Matching
<1>3. CASE Matching(q) = {}
  BY <1>3 DEF MatchedLeaf
<1>4. CASE Matching(q) # {}
  <2>1. \E i \in Matching(q) : \A j \in Matching(q) : i <= j
    BY <1>2, <1>4, LeastOf
  <2>2. PICK i : i = CHOOSE k \in Matching(q) : \A j \in Matching(q) : k <= j
    OBVIOUS
  <2>3. i \in Matching(q)
    BY <2>1, <2>2
  <2> QED
    BY <1>2, <1>4, <2>2, <2>3 DEF MatchedLeaf
<1> QED
  BY <1>3, <1>4

\* What is named in a question, and the hash that is taken as submitted.
LEMMA NamedIs ==
  ASSUME NEW q \in Question
  PROVE  /\ q.submitted \in Payloads \cup {None}
         /\ \A i \in DOMAIN q.candidates : q.candidates[i] \in Payloads
         /\ Submitted(q) \in Payloads /\ Submitted(q) \in Named(q)
         /\ SubmittedSet(q) \subseteq Named(q) /\ SubmittedSet(q) \subseteq Payloads
         /\ IsFiniteSet(Named(q))
<1>1. PICK n \in 0..MaxCandidates : q.candidates \in [1..n -> Payloads]
  BY DEF Question, Candidates
<1>2. q.submitted \in Payloads \cup {None} /\ (q.submitted # None \/ q.candidates # <<>>)
  BY DEF Question
<1>3. n \in Nat
  BY LookupAssumption
<1>4. n = 0 => q.candidates = <<>>
  BY <1>1
<1>5. q.submitted = None => 1 \in DOMAIN q.candidates
  BY <1>1, <1>2, <1>3, <1>4
<1>6. Submitted(q) \in Payloads /\ Submitted(q) \in Named(q)
  BY <1>1, <1>2, <1>5 DEF Submitted, Named
<1>7. SubmittedSet(q) \subseteq Named(q) /\ SubmittedSet(q) \subseteq Payloads
  BY <1>1, <1>6 DEF SubmittedSet, Named
<1>8. IsFiniteSet(Named(q))
  <2>1. IsFiniteSet(1..n)
    BY <1>3, FS_Interval
  <2>2. PICK f : f = q.candidates
    OBVIOUS
  <2>3. f \in Surjection(1..n, Range(f))
    BY <1>1, <2>2, Fun_RangeProperties
  <2>4. IsFiniteSet(Range(f))
    BY <2>1, <2>3, FS_Surjection
  <2>5. {q.candidates[i] : i \in DOMAIN q.candidates} = Range(f)
    BY <2>2 DEF Range
  <2>6. IsFiniteSet({q.submitted} \ {None})
    BY FS_Singleton, FS_EmptySet, FS_Difference
  <2> QED
    BY <2>4, <2>5, <2>6, FS_Union DEF Named
<1> QED
  BY <1>1, <1>2, <1>6, <1>7, <1>8

\* The package of an answer: typed, and true of the manifest.
LEMMA PackageIs ==
  ASSUME leaves \in LeafLists, NEW q \in Question, NEW p, p = PackageFor(q)
  PROVE  /\ p \in Package /\ p.question = q
         /\ p.match # None => Provable(p)
         /\ p.match = None /\ LooksForAll(q) => NotThere(p)
<1>1. p.question = q /\ p.submitted = ResultSubmitted(q) /\ p.match = MatchedLeaf(q)
  BY DEF PackageFor
<1>2. CASE Matching(q) = {} /\ MatchedLeaf(q) = None
  <2>1. p \in Package
    BY <1>2, NamedIs DEF PackageFor, Package, ResultSubmitted
  <2>2. ASSUME LooksForAll(q) PROVE Named(q) \subseteq SubmittedSet(q)
    <3>1. CASE KindAsked(q) = "content"
      BY <2>2, <3>1 DEF LooksForAll, SubmittedSet, Named
    <3>2. CASE KindAsked(q) # "content"
      <4>1. Cardinality(Named(q)) = 1 /\ SubmittedSet(q) = {Submitted(q)}
        BY <2>2, <3>2 DEF LooksForAll, SubmittedSet
      <4>2. PICK x : Named(q) = {x}
        BY <4>1, NamedIs, FS_Singleton
      <4> QED
        BY <4>1, <4>2, NamedIs
    <3> QED
      BY <3>1, <3>2
  <2>3. LooksForAll(q) => NotThere(p)
    BY <1>1, <1>2, <2>2 DEF NotThere, Matching
  <2> QED
    BY <1>1, <1>2, <2>1, <2>3
<1>3. ASSUME NEW i \in Matching(q), MatchedLeaf(q) = leaves[i], leaves[i] \in Leaf
      PROVE  p \in Package /\ p.match # None /\ Provable(p)
  <2>1. leaves[i] # None /\ leaves[i].hash \in SubmittedSet(q) /\ i \in DOMAIN leaves
        /\ LeafFits(KindAsked(q), leaves[i])
    BY <1>3, LookupConstantsOK DEF Matching
  <2>2. ResultSubmitted(q) = leaves[i].hash /\ leaves[i].hash \in Payloads
    BY <1>3, <2>1, NamedIs DEF ResultSubmitted
  <2>3. p \in Package
    BY <1>3, <2>2 DEF PackageFor, Package
  <2>4. Provable(p)
    BY <1>1, <1>3, <2>1, <2>2, NamedIs DEF Provable
  <2> QED
    BY <1>1, <1>3, <2>1, <2>3, <2>4
<1> QED
  BY <1>1, <1>2, <1>3, MatchedIs

\* What the page says of a package is of the kind asked for.
LEMMA PageIs ==
  ASSUME leaves \in LeafLists, NEW p \in Package, p.match # None => Provable(p)
  PROVE  PageSays(p) \in
           CASE KindAsked(p.question) = "whole_file"  -> {"No match", "Whole-file match"}
             [] KindAsked(p.question) = "content"     ->
                  {"No match", "Content match", "OCR content match"}
             [] KindAsked(p.question) = "exact_image" -> {"No match", "Exact image match"}
             [] OTHER -> {"No match", "Whole-file match", "Content match", "OCR content match",
                          "Exact image match"}
<1>1. CASE p.match = None
  <2>1. PageSays(p) = "No match"
    BY <1>1 DEF PageSays
  <2> QED
    BY <2>1
<1>2. CASE p.match # None
  <2>1. PICK l \in Leaf : l = p.match
    BY <1>2 DEF Package
  <2>2. l.kind \in {"file", "text", "ocr text", "image"}
    BY DEF Leaf
  <2>3. LeafFits(KindAsked(p.question), l)
    BY <1>2, <2>1 DEF Provable
  <2>4. PageSays(p) = CASE l.kind = "ocr text" -> "OCR content match"
                        [] l.kind = "image"    -> "Exact image match"
                        [] l.kind = "text"     -> "Content match"
                        [] OTHER               -> "Whole-file match"
    BY <1>2, <2>1 DEF PageSays
  <2>5. CASE l.kind = "file"
    BY <2>3, <2>4, <2>5 DEF LeafFits
  <2>6. CASE l.kind = "text"
    BY <2>3, <2>4, <2>6 DEF LeafFits
  <2>7. CASE l.kind = "ocr text"
    BY <2>3, <2>4, <2>7 DEF LeafFits
  <2>8. CASE l.kind = "image"
    BY <2>3, <2>4, <2>8 DEF LeafFits
  <2> QED
    BY <2>2, <2>5, <2>6, <2>7, <2>8
<1> QED
  BY <1>1, <1>2

\* What the answers say depends on the manifest only, which never changes.
LEMMA SameAnswers ==
  ASSUME UNCHANGED leaves, NEW q PROVE PackageFor(q)' = PackageFor(q)
BY DEF PackageFor, ResultSubmitted, MatchedLeaf, Matching

\* The clock, the link, the page and its PDF: neither counters nor answers change.
LEMMA LookupQuiet ==
  ASSUME LookupInv, UNCHANGED <<work, leaves, counted, answered, answer>>, LookupTypeOK',
         linkPage' = "result" => answer # None
  PROVE  LookupInv'
<1>1. WorkIn(LookupStep)' /\ UncountedFirst'
  BY DEF LookupInv, WorkIn, UncountedFirst
<1>2. AnswerIsOfQuestion'
  BY SameAnswers DEF LookupInv, AnswerIsOfQuestion
<1>3. ASSUME NEW m \in 0..LastMinute PROVE MinuteKept(m)'
  <2>1. Pending(m)' = Pending(m)
    BY DEF Pending
  <2> QED
    BY <2>1 DEF LookupInv, MinuteKept
<1> QED
  BY <1>1, <1>2, <1>3 DEF LookupInv

\* The task of h becomes u.
LEMMA OnlyLookup ==
  ASSUME LookupInv, NEW h \in Handlers, NEW u \in LookupStep \cup {None},
         work' = [work EXCEPT ![h] = u], u # None /\ u.step = "count" => u.counted = None
  PROVE  /\ work'[h] = u /\ (\A o \in Handlers \ {h} : work'[o] = work[o])
         /\ WorkIn(LookupStep)' /\ UncountedFirst'
<1>1. work'[h] = u /\ (\A o \in Handlers \ {h} : work'[o] = work[o]) /\ WorkIn(LookupStep)'
  BY DEF LookupInv, WorkIn
<1>2. ASSUME NEW o \in Handlers, NEW t \in LookupStep, work'[o] = t, t.step = "count"
      PROVE  t.counted = None
  BY <1>1, <1>2, LookupConstantsOK DEF LookupInv, UncountedFirst
<1>3. UncountedFirst'
  BY <1>2 DEF UncountedFirst
<1> QED
  BY <1>1, <1>3

\* What waits for its answer, when the task of h changes from t to u.
LEMMA PendingIs ==
  ASSUME LookupInv, NEW h \in Handlers, NEW t, t = work[h], NEW u,
         work'[h] = u, \A o \in Handlers \ {h} : work'[o] = work[o],
         NEW m \in 0..LastMinute
  PROVE  Pending(m)' = IF u # None /\ u.counted = m THEN Pending(m) \cup {h}
                       ELSE Pending(m) \ {h}
BY DEF Pending

\* A lookup begins; none is counted.
LEMMA AskOK ==
  ASSUME LookupInv, NEW h \in Handlers, NEW q \in Question, NEW s \in {"count", "answer"},
         Begin(h, [step |-> s, question |-> q, counted |-> None]), UNCHANGED lookupVars
  PROVE  LookupInv'
<1>1. PICK u : u = [step |-> s, question |-> q, counted |-> None]
  OBVIOUS
<1>2. u \in LookupStep /\ u.counted = None
  BY <1>1 DEF LookupStep
<1>3. work[h] = None /\ work' = [work EXCEPT ![h] = u]
  BY <1>1 DEF Begin
<1>4. /\ work'[h] = u /\ (\A o \in Handlers \ {h} : work'[o] = work[o])
      /\ WorkIn(LookupStep)' /\ UncountedFirst'
  BY <1>2, <1>3, OnlyLookup
<1>5. ASSUME NEW m \in 0..LastMinute PROVE MinuteKept(m)'
  <2>1. h \notin Pending(m)
    BY <1>3 DEF Pending
  <2>2. u.counted # m
    BY <1>2, LookupAssumption, LookupConstantsOK
  <2>3. Pending(m)' = Pending(m)
    BY <1>3, <1>4, <2>1, <2>2, PendingIs
  <2> QED
    BY <2>3 DEF LookupInv, MinuteKept, lookupVars
<1>6. LookupTypeOK'
  BY DEF LookupInv, LookupTypeOK, lookupVars
<1>7. AnswerIsOfQuestion'
  BY SameAnswers DEF LookupInv, AnswerIsOfQuestion, lookupVars
<1> QED
  BY <1>4, <1>5, <1>6, <1>7 DEF LookupInv, lookupVars

\* Count: one that is let through is within the limit.
LEMMA CountOK == ASSUME LookupInv, NEW h \in Handlers, Count(h) PROVE LookupInv'
<1>1. PICK t \in LookupStep : t = work[h] /\ t # None /\ t.step = "count" /\ t.counted = None
  BY DEF Count, At, LookupInv, WorkIn, UncountedFirst
<1>2. /\ minute \in 0..LastMinute /\ counted \in [0..LastMinute -> Nat]
      /\ answered \in [0..LastMinute -> Nat] /\ PerMinute \in Nat /\ LastMinute \in Nat
  BY LookupAssumption DEF LookupInv, LookupTypeOK
<1>3. PICK c : c = [counted EXCEPT ![minute] = @ + 1]
  OBVIOUS
<1>4. /\ counted' = c /\ c \in [0..LastMinute -> Nat] /\ c[minute] = counted[minute] + 1
      /\ \A m \in 0..LastMinute \ {minute} : c[m] = counted[m]
  BY <1>2, <1>3 DEF Count
<1>5. LookupTypeOK'
  BY <1>4 DEF Count, LookupInv, LookupTypeOK
<1>6. AnswerIsOfQuestion' /\ (linkPage' = "result" => answer' # None)
  BY SameAnswers DEF LookupInv, AnswerIsOfQuestion, Count
<1>7. ASSUME NEW m \in 0..LastMinute
      PROVE  /\ h \notin Pending(m) /\ MinuteKept(m) /\ Cardinality(Pending(m)) \in Nat
             /\ answered[m] \in Nat /\ counted[m] \in Nat /\ answered' = answered
  <2>1. t.counted # m
    BY <1>1, <1>2, LookupConstantsOK
  <2>2. MinuteKept(m)
    BY DEF LookupInv
  <2> QED
    BY <1>1, <1>2, <2>1, <2>2, FS_CardinalityType DEF Pending, MinuteKept, Count
<1>8. CASE c[minute] > PerMinute
  <2>1. work' = [work EXCEPT ![h] = None]
    BY <1>4, <1>8 DEF Count, Finish, Continue
  <2>2. /\ work'[h] = None /\ (\A o \in Handlers \ {h} : work'[o] = work[o])
        /\ WorkIn(LookupStep)' /\ UncountedFirst'
    BY <2>1, OnlyLookup
  <2>3. ASSUME NEW m \in 0..LastMinute PROVE MinuteKept(m)'
    <3>1. Pending(m)' = Pending(m)
      BY <1>7, <2>2, PendingIs
    <3>2. counted[m] <= c[m]
      <4>1. CASE m = minute
        BY <1>4, <1>7, <4>1
      <4>2. CASE m # minute
        BY <1>4, <1>7, <4>2
      <4> QED
        BY <4>1, <4>2
    <3>3. /\ IsFiniteSet(Pending(m)) /\ answered[m] + Cardinality(Pending(m)) <= counted[m]
          /\ answered[m] + Cardinality(Pending(m)) <= PerMinute
      BY <1>7 DEF MinuteKept
    <3>4. c[m] \in Nat
      BY <1>4
    <3>5. answered[m] + Cardinality(Pending(m)) <= c[m]
      BY <1>7, <3>2, <3>3, <3>4
    <3> QED
      BY <1>4, <1>7, <3>1, <3>3, <3>5 DEF MinuteKept
  <2> QED
    BY <1>5, <1>6, <2>2, <2>3 DEF LookupInv
<1>9. CASE ~(c[minute] > PerMinute)
  <2>1. PICK u : u = [t EXCEPT !.step = "answer", !.counted = minute]
    OBVIOUS
  <2>2. u \in LookupStep /\ u.step = "answer" /\ u.counted = minute /\ u # None
    BY <1>2, <2>1, LookupConstantsOK DEF LookupStep
  <2>3. work' = [work EXCEPT ![h] = u]
    BY <1>1, <1>4, <1>9, <2>1 DEF Count, Continue
  <2>4. /\ work'[h] = u /\ (\A o \in Handlers \ {h} : work'[o] = work[o])
        /\ WorkIn(LookupStep)' /\ UncountedFirst'
    BY <2>2, <2>3, OnlyLookup
  <2>5. ASSUME NEW m \in 0..LastMinute, m # minute PROVE MinuteKept(m)'
    <3>1. c[m] = counted[m]
      BY <1>4, <2>5
    <3>2. Pending(m)' = Pending(m) \ {h}
      BY <2>2, <2>4, <2>5 DEF Pending
    <3>3. Pending(m)' = Pending(m)
      BY <1>7, <3>2
    <3> QED
      BY <1>4, <1>7, <3>1, <3>3 DEF MinuteKept
  <2>6. ASSUME NEW m \in 0..LastMinute, m = minute PROVE MinuteKept(m)'
    <3>1. Pending(m)' = Pending(m) \cup {h}
      BY <2>2, <2>4, <2>6 DEF Pending
    <3>2. IsFiniteSet(Pending(m)) /\ answered[m] + Cardinality(Pending(m)) <= counted[m]
      BY <1>7 DEF MinuteKept
    <3>3. /\ IsFiniteSet(Pending(m) \cup {h})
          /\ Cardinality(Pending(m) \cup {h}) = Cardinality(Pending(m)) + 1
      BY <1>7, <3>2, FS_AddElement
    <3>4. c[m] = counted[m] + 1 /\ c[m] <= PerMinute
      BY <1>2, <1>4, <1>9, <2>6
    <3>5. /\ answered[m] + Cardinality(Pending(m) \cup {h}) <= c[m]
          /\ answered[m] + Cardinality(Pending(m) \cup {h}) <= PerMinute
      BY <1>2, <1>7, <3>2, <3>3, <3>4
    <3> QED
      BY <1>4, <1>7, <3>1, <3>3, <3>5 DEF MinuteKept
  <2> QED
    BY <1>5, <1>6, <2>4, <2>5, <2>6 DEF LookupInv, Count
<1> QED
  BY <1>8, <1>9

\* Answer: what was counted is no longer pending.
LEMMA AnswerOK == ASSUME LookupInv, NEW h \in Handlers, Answer(h) PROVE LookupInv'
<1>1. PICK t \in LookupStep : t = work[h] /\ t # None
  BY DEF Answer, At, LookupInv, WorkIn
<1>2. /\ t.question \in Question /\ t.counted \in 0..LastMinute \cup {None}
      /\ answered \in [0..LastMinute -> Nat] /\ LastMinute \in Nat /\ leaves \in LeafLists
  BY LookupAssumption DEF LookupInv, LookupTypeOK, LookupStep
<1>3. /\ work'[h] = None /\ (\A o \in Handlers \ {h} : work'[o] = work[o])
      /\ WorkIn(LookupStep)' /\ UncountedFirst'
  BY OnlyLookup DEF Answer, Finish, Continue
<1>4. PICK p : p = PackageFor(t.question)
  OBVIOUS
<1>5. p \in Package /\ p.question = t.question /\ p # None /\ answer' = p
  BY <1>1, <1>2, <1>4, PackageIs, LookupConstantsOK DEF Answer
<1>6. AnswerIsOfQuestion'
  BY <1>2, <1>4, <1>5, SameAnswers DEF AnswerIsOfQuestion, Answer
<1>7. PICK a : a = IF t.counted = None THEN answered
                   ELSE [answered EXCEPT ![t.counted] = @ + 1]
  OBVIOUS
<1>8. answered' = a /\ a \in [0..LastMinute -> Nat]
  BY <1>1, <1>2, <1>7 DEF Answer
<1>9. LookupTypeOK'
  <2>1. pdfTry' \in 0..PdfTries
    BY LookupAssumption DEF Answer
  <2>2. leaves' = leaves /\ minute' = minute /\ counted' = counted
    BY DEF Answer
  <2>3. /\ shared' \in {"live", "expired", "revoked"} /\ rendered' \in BOOLEAN
        /\ linkPage' \in {"none", "Link expired", "Link unavailable", "result"}
        /\ pdfSays' \in {None, "saved", "expired", "unavailable", "still rendering"}
    BY DEF Answer
  <2> QED
    BY <1>5, <1>8, <2>1, <2>2, <2>3 DEF LookupInv, LookupTypeOK
<1>10. ASSUME NEW m \in 0..LastMinute PROVE MinuteKept(m)'
  <2>1. Pending(m)' = Pending(m) \ {h}
    BY <1>3, PendingIs
  <2>2. /\ IsFiniteSet(Pending(m)) /\ answered[m] + Cardinality(Pending(m)) <= counted[m]
        /\ answered[m] + Cardinality(Pending(m)) <= PerMinute
    BY DEF LookupInv, MinuteKept
  <2>3. Cardinality(Pending(m)) \in Nat /\ answered[m] \in Nat
    BY <1>2, <2>2, FS_CardinalityType
  <2>4. m # None
    BY <1>2, LookupConstantsOK
  <2>5. CASE t.counted = m
    <3>1. h \in Pending(m)
      BY <1>1, <2>5 DEF Pending
    <3>2. IsFiniteSet(Pending(m) \ {h}) /\ Cardinality(Pending(m) \ {h}) = Cardinality(Pending(m)) - 1
      BY <2>2, <3>1, FS_RemoveElement
    <3>3. a[m] = answered[m] + 1
      BY <1>2, <1>7, <2>4, <2>5
    <3>4. a[m] + Cardinality(Pending(m) \ {h}) = answered[m] + Cardinality(Pending(m))
      BY <2>3, <3>2, <3>3
    <3> QED
      BY <1>8, <2>1, <2>2, <3>2, <3>4 DEF MinuteKept, Answer
  <2>6. CASE t.counted # m
    <3>1. h \notin Pending(m)
      BY <1>1, <2>6 DEF Pending
    <3>2. a[m] = answered[m]
      BY <1>2, <1>7, <2>6
    <3>3. Pending(m)' = Pending(m)
      BY <2>1, <3>1
    <3> QED
      BY <1>8, <2>2, <3>2, <3>3 DEF MinuteKept, Answer
  <2> QED
    BY <2>5, <2>6
<1>11. linkPage' # "result"
  BY DEF Answer
<1> QED
  BY <1>3, <1>6, <1>9, <1>10, <1>11 DEF LookupInv

\* The clock, and the link of the answer.
LEMMA ReadersOK ==
  ASSUME LookupInv, UNCHANGED work,
         \/ NextMinute \/ RenderResult \/ OpenPage \/ DownloadResultPdf \/ AskForPdf
         \/ \E how \in {"expired", "revoked"} : EndLink(how)
  PROVE  LookupInv'
<1>1. LastMinute \in Nat /\ PdfTries \in Nat
  BY LookupAssumption
<1>2. CASE NextMinute
  <2>1. minute \in 0..LastMinute /\ minute < LastMinute /\ minute' = minute + 1
    BY <1>2 DEF NextMinute, LookupInv, LookupTypeOK
  <2>2. minute' \in 0..LastMinute
    BY <1>1, <2>1
  <2> QED
    BY <1>2, <2>2, LookupQuiet DEF NextMinute, LookupInv, LookupTypeOK
<1>3. CASE RenderResult
  BY <1>3, LookupQuiet DEF RenderResult, LookupInv, LookupTypeOK
<1>4. CASE OpenPage
  <2>1. linkPage' \in {"none", "Link expired", "Link unavailable", "result"} /\ answer # None
    BY <1>4 DEF OpenPage, LookupInv, LookupTypeOK
  <2> QED
    BY <1>4, <2>1, LookupQuiet DEF OpenPage, LookupInv, LookupTypeOK
<1>5. CASE DownloadResultPdf
  <2>1. pdfTry' \in 0..PdfTries
    BY <1>1, <1>5 DEF DownloadResultPdf
  <2> QED
    BY <1>5, <2>1, LookupQuiet DEF DownloadResultPdf, LookupInv, LookupTypeOK
<1>6. CASE AskForPdf
  <2>1. PdfAnswer \in {"saved", "expired", "unavailable", "pending"}
    BY DEF PdfAnswer, LookupInv, LookupTypeOK
  <2>2. pdfTry' \in 0..PdfTries
    <3>1. pdfTry \in 0..PdfTries /\ pdfTry > 0
      BY <1>6 DEF AskForPdf, LookupInv, LookupTypeOK
    <3>2. pdfTry' = IF PdfAnswer = "pending" THEN pdfTry - 1 ELSE 0
      BY <1>6 DEF AskForPdf
    <3> QED
      BY <1>1, <3>1, <3>2
  <2>3. pdfSays' \in {None, "saved", "expired", "unavailable", "still rendering"}
    BY <1>6, <2>1 DEF AskForPdf
  <2> QED
    BY <1>6, <2>2, <2>3, LookupQuiet DEF AskForPdf, LookupInv, LookupTypeOK
<1>7. CASE \E how \in {"expired", "revoked"} : EndLink(how)
  BY <1>7, LookupQuiet DEF EndLink, LookupInv, LookupTypeOK
<1> QED
  BY <1>2, <1>3, <1>4, <1>5, <1>6, <1>7

\* Every step keeps the invariant.
LEMMA LookupStepOK == ASSUME LookupInv, [LookupNext]_<<work, lookupVars>> PROVE LookupInv'
<1>1. ASSUME NEW h \in Handlers, NEW q \in Question, AskWithSession(h, q) \/ AskWithKey(h, q)
      PROVE  LookupInv'
  BY <1>1, AskOK DEF AskWithSession, AskWithKey
<1>2. CASE UNCHANGED <<work, lookupVars>>
  BY <1>2, LookupQuiet DEF lookupVars, LookupInv, LookupTypeOK
<1> QED
  BY <1>1, <1>2, CountOK, AnswerOK, ReadersOK DEF LookupNext

\* At first nothing was asked.
LEMMA LookupInitOK == ASSUME NoWork, LookupInit PROVE LookupInv
<1>1. LookupTypeOK
  <2>1. LastMinute \in Nat /\ PdfTries \in Nat
    BY LookupAssumption
  <2>2. minute \in 0..LastMinute /\ pdfTry \in 0..PdfTries
    BY <2>1 DEF LookupInit
  <2>3. counted \in [0..LastMinute -> Nat] /\ answered \in [0..LastMinute -> Nat]
    BY DEF LookupInit
  <2> QED
    BY <2>2, <2>3 DEF LookupInit, LookupTypeOK
<1>2. WorkIn(LookupStep) /\ UncountedFirst
  BY LookupConstantsOK DEF NoWork, WorkIn, UncountedFirst
<1>3. ASSUME NEW m \in 0..LastMinute PROVE MinuteKept(m)
  <2>1. Pending(m) = {}
    BY DEF NoWork, Pending
  <2>2. answered[m] = 0 /\ counted[m] = 0 /\ PerMinute \in Nat
    BY LookupAssumption DEF LookupInit
  <2> QED
    BY <2>1, <2>2, FS_EmptySet DEF MinuteKept
<1> QED
  BY <1>1, <1>2, <1>3 DEF LookupInv, LookupInit, AnswerIsOfQuestion

\* The manifest, the counters, the answer and its page keep their types, and so do the
\* lookups under way.
THEOREM LookupIsTyped == LookupSpec => [](LookupTypeOK /\ WorkIn(LookupStep))
<1>1. LookupInv => LookupTypeOK /\ WorkIn(LookupStep)
  BY DEF LookupInv
<1> QED
  BY <1>1, LookupInitOK, LookupStepOK, PTL DEF LookupSpec

\* A lookup answers what was asked, its page says so, and not oftener than the plan has:
\* for any manifest, any questions and any number of lookups at once.
THEOREM LookupsAlwaysTrue == LookupSpec => []LookupsTrue
<1>1. ASSUME LookupInv PROVE LookupsTrue
  <2>1. leaves \in LeafLists
    BY <1>1 DEF LookupInv, LookupTypeOK
  <2>2. ASSUME answer # None
        PROVE  /\ answer \in Package
               /\ answer.match # None => Provable(answer)
               /\ answer.match = None /\ LooksForAll(answer.question) => NotThere(answer)
    BY <1>1, <2>1, <2>2, PackageIs DEF LookupInv, AnswerIsOfQuestion
  <2>3. AnswerIsTrue
    BY <2>2 DEF AnswerIsTrue
  <2>4. PageIsTrue
    <3> SUFFICES ASSUME linkPage = "result"
                 PROVE  PageSays(answer) \in
                   CASE KindAsked(answer.question) = "whole_file"  -> {"No match", "Whole-file match"}
                     [] KindAsked(answer.question) = "content"     ->
                          {"No match", "Content match", "OCR content match"}
                     [] KindAsked(answer.question) = "exact_image" -> {"No match", "Exact image match"}
                     [] OTHER -> {"No match", "Whole-file match", "Content match",
                                  "OCR content match", "Exact image match"}
      BY DEF PageIsTrue
    <3>1. answer # None
      BY <1>1 DEF LookupInv
    <3> QED
      BY <2>1, <2>2, <3>1, PageIs
  <2>5. ASSUME NEW m \in 0..LastMinute PROVE answered[m] <= PerMinute
    <3>1. MinuteKept(m) /\ answered[m] \in Nat
      BY <1>1 DEF LookupInv, LookupTypeOK
    <3>2. Cardinality(Pending(m)) \in Nat
      BY <3>1, FS_CardinalityType DEF MinuteKept
    <3> QED
      BY <3>1, <3>2, LookupAssumption DEF MinuteKept
  <2> QED
    BY <2>3, <2>4, <2>5 DEF LookupsTrue, WithinMinute
<1> QED
  BY <1>1, LookupInitOK, LookupStepOK, PTL DEF LookupSpec

-----------------------------------------------------------------------------
(* Walks over a list                                                       *)

PagingSpec == PagingInit /\ [][PagingNext]_pagingVars

\* the rows before e in the list
Newer(e) == {f \in inList : createdAt[f] > createdAt[e]}

\* What the walk w has yet to return lies behind its offset.
Behind(w) ==
  /\ ~Tied /\ w.stayed \subseteq inList
  /\ \A e \in w.stayed \ w.got : Cardinality(Newer(e)) >= w.offset

WalkKept ==
  walk # None /\ ~walk.loose =>
    IF walk.hasMore THEN Behind(walk) ELSE walk.stayed \subseteq walk.got

PagingInv == PagingTypeOK /\ IsFiniteSet(inList) /\ WalkKept

\* A row of the list has a time.
LEMMA RowHasTime ==
  ASSUME PagingTypeOK, NEW e \in inList
  PROVE  e \in Entries /\ createdAt[e] \in Nat /\ createdAt[e] # None
BY PagingAssumption DEF PagingTypeOK

\* If no two rows share an instant, the page's order is that of the times: as many rows
\* are newer than a row as stand before it.
LEMMA PositionOf ==
  ASSUME PagingTypeOK, IsFiniteSet(inList), ~Tied, NEW rows \in NewestFirst, NEW e \in inList
  PROVE  \E p \in 1..Cardinality(inList) : rows[p] = e /\ Cardinality(Newer(e)) = p - 1
<1> DEFINE N == Cardinality(inList)
<1>1. N \in Nat
  BY FS_CardinalityType
<1>2. /\ rows \in [1..N -> inList] /\ DOMAIN rows = 1..N
      /\ \A i, j \in 1..N : i < j => rows[i] # rows[j] /\ createdAt[rows[i]] >= createdAt[rows[j]]
  BY DEF NewestFirst
<1> HIDE DEF N
<1>3. \A i, j \in 1..N : rows[i] = rows[j] => i = j
  BY <1>1, <1>2
<1>4. rows \in Injection(1..N, inList)
  BY <1>2, <1>3, Fun_IsInj
<1>5. IsFiniteSet(1..N) /\ Cardinality(1..N) = N
  BY <1>1, FS_Interval
<1>6. rows \in Surjection(1..N, inList)
  BY <1>4, <1>5, FS_Injection DEF N
<1>7. PICK p \in 1..N : rows[p] = e
  BY <1>6 DEF Surjection
<1>8. ASSUME NEW i \in 1..N, i < p PROVE rows[i] \in Newer(e)
  <2>1. rows[i] \in inList /\ rows[i] # e /\ createdAt[rows[i]] >= createdAt[e]
    BY <1>2, <1>7, <1>8
  <2>2. createdAt[rows[i]] # createdAt[e]
    BY <2>1 DEF Tied
  <2>3. createdAt[rows[i]] \in Nat /\ createdAt[e] \in Nat
    BY <2>1, RowHasTime
  <2> QED
    BY <2>1, <2>2, <2>3 DEF Newer
<1>9. ASSUME NEW f \in Newer(e) PROVE \E i \in 1..(p - 1) : rows[i] = f
  <2>1. f \in inList /\ createdAt[f] > createdAt[e]
    BY <1>9 DEF Newer
  <2>2. PICK i \in 1..N : rows[i] = f
    BY <1>6, <2>1 DEF Surjection
  <2>3. createdAt[f] \in Nat /\ createdAt[e] \in Nat
    BY <2>1, RowHasTime
  <2>4. ~(i = p)
    BY <1>7, <2>1, <2>2, <2>3
  <2>5. ~(p < i)
    BY <1>2, <1>7, <2>1, <2>2, <2>3
  <2>6. i \in 1..(p - 1)
    BY <1>1, <2>4, <2>5
  <2> QED
    BY <2>2, <2>6
<1>10. PICK g : g = [i \in 1..(p - 1) |-> rows[i]]
  OBVIOUS
<1>11. p - 1 \in Nat /\ \A i \in 1..(p - 1) : i \in 1..N /\ i < p
  BY <1>1
<1>12. g \in [1..(p - 1) -> Newer(e)]
  BY <1>8, <1>10, <1>11
<1>13. g \in Injection(1..(p - 1), Newer(e))
  <2>1. \A i, j \in 1..(p - 1) : g[i] = g[j] => i = j
    BY <1>3, <1>10, <1>11
  <2> QED
    BY <1>12, <2>1, Fun_IsInj
<1>14. g \in Surjection(1..(p - 1), Newer(e))
  BY <1>9, <1>10, <1>12 DEF Surjection
<1>15. ExistsBijection(1..(p - 1), Newer(e))
  BY <1>13, <1>14 DEF ExistsBijection, Bijection
<1>16. Cardinality(Newer(e)) = p - 1
  BY <1>11, <1>15, FS_CountingElements
<1> QED
  BY <1>7, <1>16 DEF N

\* the k rows after the first at of them
After(rows, at, k) == {rows[at + i] : i \in 1..k}

\* the page shows the k rows of S after the first at of N, and knows whether that is all
PageShows(page, rows, at, limit, N, S, k) ==
  /\ page.returned = k /\ page.rows = After(rows, at, k) /\ page.rows \subseteq S
  /\ page.hasMore \in BOOLEAN
  /\ page.hasMore => k = limit
  /\ ~page.hasMore => N <= at + k

\* A page from offset at on: its rows, how many, and whether there are more.
LEMMA PageHolds ==
  ASSUME NEW S, NEW N \in Nat, NEW rows \in [1..N -> S], NEW at \in Nat, NEW limit \in Nat \ {0},
         NEW page, page = PageRows(Fetched(rows, at, limit), limit)
  PROVE  \E k \in Nat : PageShows(page, rows, at, limit, N, S, k)
<1>1. rows \in Seq(S) /\ Len(rows) = N
  OBVIOUS
<1>2. PICK m \in Nat : m = Least(at + limit + 1, N) /\ m <= N /\ m <= at + limit + 1
                       /\ (m = N \/ m = at + limit + 1)
  BY DEF Least
<1>3. PICK f : f = SubSeq(rows, at + 1, m)
  OBVIOUS
<1>4. \E c \in Nat : c = IF at + 1 <= m THEN m - at ELSE 0
  <2>1. CASE at + 1 <= m
    <3>1. m - at \in Nat
      BY <2>1
    <3> QED
      BY <2>1, <3>1
  <2>2. CASE ~(at + 1 <= m)
    BY <2>2
  <2> QED
    BY <2>1, <2>2
<1>4a. PICK c \in Nat : c = IF at + 1 <= m THEN m - at ELSE 0
  BY <1>4
<1>5. \A i \in (at + 1)..m : rows[i] \in S
  BY <1>2
<1>6. /\ f \in Seq(S) /\ Len(f) = c /\ \A i \in 1..c : f[i] = rows[at + i]
  <2>1. /\ f \in Seq(S) /\ Len(f) = IF at + 1 <= m THEN m - (at + 1) + 1 ELSE 0
        /\ \A i \in 1..(m - (at + 1) + 1) : f[i] = rows[at + 1 + i - 1]
    BY <1>3, <1>5, SubSeqProperties
  <2>2. Len(f) = c
    BY <1>4a, <2>1
  <2>3. \A i \in 1..c : i \in 1..(m - (at + 1) + 1) /\ at + 1 + i - 1 = at + i
    BY <1>4a
  <2> QED
    BY <2>1, <2>2, <2>3
<1>7. PICK k \in Nat : k = Least(limit, c) /\ k <= limit /\ k <= c /\ (k = limit \/ k = c)
  BY DEF Least
<1>8. PICK s : s = SubSeq(f, 1, k)
  OBVIOUS
<1>9. s \in Seq(S) /\ Len(s) = k /\ \A i \in 1..k : s[i] = rows[at + i]
  <2>1. \A i \in 1..k : f[i] \in S
    BY <1>6, <1>7, ElementOfSeq
  <2>2. /\ s \in Seq(S) /\ Len(s) = IF 1 <= k THEN k - 1 + 1 ELSE 0
        /\ \A i \in 1..(k - 1 + 1) : s[i] = f[1 + i - 1]
    BY <1>8, <2>1, SubSeqProperties
  <2>3. ASSUME NEW i \in 1..k PROVE s[i] = rows[at + i]
    <3>1. i \in 1..(k - 1 + 1) /\ i \in 1..c /\ 1 + i - 1 = i
      BY <1>7
    <3>2. s[i] = f[1 + i - 1]
      BY <2>2, <3>1
    <3>3. s[i] = f[i]
      BY <3>1, <3>2
    <3> QED
      BY <1>6, <3>1, <3>3
  <2>4. Len(s) = k
    BY <2>2
  <2> QED
    BY <2>2, <2>3, <2>4
<1>10. DOMAIN s = 1..k
  BY <1>9, LenProperties
<1>11. page = [rows |-> {s[i] : i \in DOMAIN s}, returned |-> Len(s), hasMore |-> Len(f) > limit]
  BY <1>1, <1>2, <1>3, <1>6, <1>7, <1>8 DEF PageRows, Fetched
<1>12. page.rows = {rows[at + i] : i \in 1..k}
  <2>1. page.rows = {s[i] : i \in 1..k}
    BY <1>10, <1>11
  <2>2. {s[i] : i \in 1..k} = {rows[at + i] : i \in 1..k}
    BY <1>9
  <2> QED
    BY <2>1, <2>2
<1>13. page.returned = k /\ page.hasMore = (c > limit)
  BY <1>6, <1>9, <1>11
<1>14. c > limit => k = limit
  BY <1>7
<1>15. ~(c > limit) => N <= at + k
  BY <1>2, <1>4a, <1>7
<1>16. page.rows \subseteq S
  <2>1. \A i \in 1..k : s[i] \in S
    BY <1>9, ElementOfSeq
  <2> QED
    BY <1>9, <1>12, <2>1
<1>17. page.hasMore \in BOOLEAN
  BY <1>13
<1>18. (page.hasMore => k = limit) /\ (~page.hasMore => N <= at + k)
  BY <1>13, <1>14, <1>15
<1>19. page.returned = k
  BY <1>13
<1>20. page.rows = After(rows, at, k)
  BY <1>12 DEF After
<1> WITNESS k \in Nat
<1> QED
  BY <1>20, <1>16, <1>17, <1>18, <1>19 DEF PageShows

\* A page that is asked for at the offset of a walk: what it does not return lies
\* behind the new offset, and nothing does when there is no more.
LEMMA GetPageOK ==
  ASSUME PagingInv, NEW w \in Walk, GetPage(w), ~w.loose => Behind(w)
  PROVE  PagingInv'
<1>1. PICK rows \in NewestFirst :
        LET at    == ParseOffset(w.offset)
            limit == ParseLimit(w.limit)
            page  == PageRows(Fetched(rows, at, limit), limit)
        IN  walk' = [w EXCEPT !.offset = at + page.returned, !.hasMore = page.hasMore,
                              !.got = @ \cup page.rows]
  BY DEF GetPage
<1>2. PICK at \in Nat : at = ParseOffset(w.offset) /\ at <= w.offset
  BY PagingAssumption DEF ParseOffset, Least, Walk
<1>3. PICK limit \in Nat \ {0} : limit = ParseLimit(w.limit)
  BY PagingAssumption DEF ParseLimit, Least, Walk
<1>4. PICK page : page = PageRows(Fetched(rows, at, limit), limit)
  OBVIOUS
<1>5. PICK N \in Nat : N = Cardinality(inList)
  BY FS_CardinalityType DEF PagingInv
<1>6. rows \in [1..N -> inList]
  BY <1>5 DEF NewestFirst
<1>7a. PICK k \in Nat : PageShows(page, rows, at, limit, N, inList, k)
  BY <1>4, <1>6, PageHolds
<1>7. /\ page.returned = k /\ page.rows = After(rows, at, k) /\ page.rows \subseteq inList
      /\ page.hasMore \in BOOLEAN
      /\ page.hasMore => k = limit
      /\ ~page.hasMore => N <= at + k
  BY <1>7a DEF PageShows
<1>8. UNCHANGED <<route, createdAt, inList>>
  BY DEF GetPage
<1>9. PICK v : v = [w EXCEPT !.offset = at + k, !.hasMore = page.hasMore,
                             !.got = @ \cup page.rows]
  OBVIOUS
<1>10. walk' = v
  BY <1>1, <1>2, <1>3, <1>4, <1>7, <1>9
<1>11. /\ v.offset = at + k /\ v.hasMore = page.hasMore /\ v.got = w.got \cup page.rows
       /\ v.stayed = w.stayed /\ v.loose = w.loose
  BY <1>9 DEF Walk
<1>12. PagingTypeOK'
  <2>1. page.rows \in SUBSET Entries /\ at + k \in Nat
    BY <1>7 DEF PagingInv, PagingTypeOK
  <2>2. v \in Walk
    BY <1>7, <1>9, <2>1 DEF Walk
  <2> QED
    BY <1>8, <1>10, <2>2 DEF PagingInv, PagingTypeOK
<1>13. ASSUME ~v.loose, NEW e \in v.stayed, e \notin v.got
       PROVE  /\ v.hasMore /\ Cardinality(Newer(e)) >= at + k
              /\ Cardinality(Newer(e)) \in Nat
  <2>1. e \in inList /\ Cardinality(Newer(e)) >= w.offset /\ ~Tied
    BY <1>11, <1>13 DEF Behind
  <2>2. PICK p \in 1..N : rows[p] = e /\ Cardinality(Newer(e)) = p - 1
    BY <1>5, <2>1, PositionOf DEF PagingInv
  <2>3. p > at
    BY <1>2, <2>1, <2>2 DEF Walk
  <2>4. p > at + k
    <3>1. CASE p <= at + k
      <4>1. PICK i \in 1..k : p = at + i
        BY <2>3, <3>1
      <4>2. e \in page.rows
        BY <1>7, <2>2, <4>1 DEF After
      <4> QED
        BY <1>11, <1>13, <4>2
    <3> QED
      BY <3>1
  <2> QED
    BY <1>7, <1>11, <2>2, <2>4
<1>14. WalkKept'
  <2> SUFFICES ASSUME ~v.loose
               PROVE  IF v.hasMore THEN Behind(v)' ELSE v.stayed \subseteq v.got
    BY <1>10 DEF WalkKept, Behind, Tied, Newer
  <2>1. ~Tied /\ v.stayed \subseteq inList
    BY <1>11 DEF Behind
  <2>2. UNCHANGED Tied /\ \A e : Newer(e)' = Newer(e)
    BY <1>8 DEF Tied, Newer
  <2>3. CASE v.hasMore
    BY <1>8, <1>11, <1>13, <2>1, <2>2, <2>3 DEF Behind
  <2>4. CASE ~v.hasMore
    BY <1>13, <2>4
  <2> QED
    BY <2>3, <2>4
<1> QED
  BY <1>8, <1>12, <1>14 DEF PagingInv

\* The first page of a walk, which has returned nothing yet.
LEMMA BeginWalkOK ==
  ASSUME PagingInv, NEW limit \in PageSizes, BeginWalk(limit) PROVE PagingInv'
<1>1. PICK w : w = [offset |-> 0, limit |-> limit, hasMore |-> FALSE, got |-> {},
                    stayed |-> inList, loose |-> Tied]
  OBVIOUS
<1>2. inList \in SUBSET Entries /\ Tied \in BOOLEAN
  BY DEF PagingInv, PagingTypeOK, Tied
<1>3. w \in Walk
  BY <1>1, <1>2 DEF Walk
<1>4. GetPage(w)
  BY <1>1 DEF BeginWalk, Get, GetProjects, GetAttestations, GetEvents, GetWebhookEndpoints,
              GetWebhookDeliveries, GetExportJobs
<1>5. /\ w.loose = Tied /\ w.stayed = inList /\ w.offset = 0
      /\ w.got = {}
  BY <1>1
<1>6. ASSUME NEW e \in inList PROVE Cardinality(Newer(e)) \in Nat
  <2>1. Newer(e) \in SUBSET inList
    BY DEF Newer
  <2>2. IsFiniteSet(Newer(e))
    BY <2>1, FS_Subset DEF PagingInv
  <2> QED
    BY <2>2, FS_CardinalityType
<1>7. ~w.loose => Behind(w)
  BY <1>5, <1>6 DEF Behind
<1> QED
  BY <1>3, <1>4, <1>7, GetPageOK

\* The next page of a walk.
LEMMA NextPageOK == ASSUME PagingInv, NextPage PROVE PagingInv'
<1>1. PICK w \in Walk : w = walk /\ w # None /\ w.hasMore
  BY DEF NextPage, PagingInv, PagingTypeOK
<1>2. GetPage(w)
  BY <1>1 DEF NextPage, Get, GetProjects, GetAttestations, GetEvents, GetWebhookEndpoints,
              GetWebhookDeliveries, GetExportJobs
<1>3. ~w.loose => Behind(w)
  BY <1>1 DEF PagingInv, WalkKept
<1> QED
  BY <1>1, <1>2, <1>3, GetPageOK

\* A row enters the list: the others keep their times and those before them.
LEMMA EnterOK ==
  ASSUME PagingInv, NEW e \in Entries, NEW t \in Instants, Enter(e, t) PROVE PagingInv'
<1>1. /\ e \notin inList /\ createdAt' = [createdAt EXCEPT ![e] = t] /\ inList' = inList \cup {e}
      /\ walk' = Loosened(walk, Tied') /\ route' = route
      /\ createdAt \in [Entries -> Instants \cup {None}] /\ t # None
      /\ \A f \in inList : createdAt'[f] = createdAt[f]
  BY WalkAssumption DEF Enter, PagingInv, PagingTypeOK
<1>2. IsFiniteSet(inList')
  BY <1>1, FS_AddElement DEF PagingInv
<1>3. createdAt' \in [Entries -> Instants \cup {None}]
      /\ inList' \subseteq {f \in Entries : createdAt'[f] # None}
  BY <1>1 DEF PagingInv, PagingTypeOK
<1>4. CASE walk = None
  BY <1>1, <1>2, <1>3, <1>4 DEF PagingInv, PagingTypeOK, Loosened, WalkKept
<1>5. CASE walk # None
  <2>1. PICK w \in Walk : w = walk
    BY <1>5 DEF PagingInv, PagingTypeOK
  <2>2. PICK b \in BOOLEAN : b = Tied'
    BY DEF Tied
  <2>3. PICK v : v = [w EXCEPT !.loose = @ \/ b]
    OBVIOUS
  <2>4. walk' = v
    BY <1>1, <1>5, <2>1, <2>2, <2>3 DEF Loosened
  <2>5. /\ v \in Walk /\ v.offset = w.offset /\ v.hasMore = w.hasMore /\ v.got = w.got
        /\ v.stayed = w.stayed
    BY <2>3 DEF Walk
  <2>6. v.loose = (w.loose \/ b)
    BY <2>3 DEF Walk
  <2>7. ASSUME ~v.loose, v.hasMore PROVE Behind(v)'
    <3>1. ~w.loose /\ ~Tied'
      BY <2>2, <2>6, <2>7
    <3>2. Behind(w)
      BY <1>5, <2>1, <2>5, <2>7, <3>1 DEF PagingInv, WalkKept
    <3>3. v.stayed \subseteq inList'
      BY <1>1, <2>5, <3>2 DEF Behind
    <3>4. ASSUME NEW f \in v.stayed \ v.got PROVE Cardinality(Newer(f)') >= v.offset
      <4>1. f \in inList /\ Cardinality(Newer(f)) >= w.offset
        BY <2>5, <3>2, <3>4 DEF Behind
      <4>2. Newer(f) \in SUBSET Newer(f)' /\ Newer(f)' \in SUBSET inList' /\ Newer(f) \in SUBSET inList
        BY <1>1, <4>1 DEF Newer
      <4>3. IsFiniteSet(Newer(f)') /\ IsFiniteSet(Newer(f))
        BY <1>2, <4>2, FS_Subset DEF PagingInv
      <4>4. /\ Cardinality(Newer(f)) <= Cardinality(Newer(f)')
            /\ Cardinality(Newer(f)) \in Nat /\ Cardinality(Newer(f)') \in Nat
        BY <4>2, <4>3, FS_Subset, FS_CardinalityType
      <4>5. w.offset \in Nat
        BY DEF Walk
      <4> QED
        BY <2>5, <4>1, <4>4, <4>5
    <3> QED
      BY <3>1, <3>3, <3>4 DEF Behind
  <2>8. ASSUME ~v.loose, ~v.hasMore PROVE v.stayed \subseteq v.got
    BY <1>5, <2>1, <2>5, <2>6, <2>8 DEF PagingInv, WalkKept
  <2>9. WalkKept'
    BY <2>4, <2>7, <2>8 DEF WalkKept, Behind, Tied, Newer
  <2>10. PagingTypeOK'
    BY <1>1, <1>3, <2>4, <2>5 DEF PagingInv, PagingTypeOK
  <2> QED
    BY <1>2, <2>9, <2>10 DEF PagingInv
<1> QED
  BY <1>4, <1>5

\* A row leaves the list, and the walk is loose.
LEMMA LeaveOK == ASSUME PagingInv, NEW e \in Entries, Leave(e) PROVE PagingInv'
<1>1. IsFiniteSet(inList') /\ inList' \subseteq inList
  BY FS_RemoveElement DEF Leave, PagingInv
<1>2. CASE walk = None
  BY <1>1, <1>2 DEF Leave, PagingInv, PagingTypeOK, WalkKept
<1>3. CASE walk # None
  <2>1. PICK w \in Walk : w = walk
    BY <1>3 DEF PagingInv, PagingTypeOK
  <2>2. PICK v : v = [w EXCEPT !.loose = TRUE, !.stayed = @ \ {e}]
    OBVIOUS
  <2>3. v \in Walk /\ v.loose = TRUE
    BY <2>2 DEF Walk
  <2>4. PICK l : l = Loosened(walk, TRUE)
    OBVIOUS
  <2>5. l = [w EXCEPT !.loose = TRUE]
    BY <1>3, <2>1, <2>4 DEF Loosened, Walk
  <2>6. walk' = [l EXCEPT !.stayed = @ \ {e}]
    BY <1>3, <2>4 DEF Leave
  <2>7. walk' = v
    BY <2>2, <2>5, <2>6 DEF Walk
  <2> QED
    BY <1>1, <2>3, <2>7 DEF Leave, PagingInv, PagingTypeOK, WalkKept
<1> QED
  BY <1>2, <1>3

\* Every step keeps the invariant.
LEMMA PagingStep == ASSUME PagingInv, [PagingNext]_pagingVars PROVE PagingInv'
<1>1. CASE UNCHANGED pagingVars
  <2>1. PagingTypeOK' /\ IsFiniteSet(inList)'
    BY <1>1 DEF PagingInv, PagingTypeOK, pagingVars
  <2>2. UNCHANGED <<createdAt, inList, walk>>
    BY <1>1 DEF pagingVars
  <2>3. UNCHANGED Tied /\ \A f : Newer(f)' = Newer(f)
    BY <2>2 DEF Tied, Newer
  <2>4. WalkKept'
    BY <2>2, <2>3 DEF PagingInv, WalkKept, Behind
  <2> QED
    BY <2>1, <2>4 DEF PagingInv
<1> QED
  BY <1>1, EnterOK, LeaveOK, BeginWalkOK, NextPageOK DEF PagingNext, ArchiveProject, ChangeState

\* The list and the walk keep their types.
THEOREM PagingIsTyped == PagingSpec => []PagingTypeOK
<1>1. PagingInit => PagingInv
  BY FS_EmptySet DEF PagingInit, PagingInv, PagingTypeOK, WalkKept
<1>2. PagingInv => PagingTypeOK
  BY DEF PagingInv
<1> QED
  BY <1>1, <1>2, PagingStep, PTL DEF PagingSpec

\* A walk that ends has returned every row that was in the list from its first page to
\* its last, whatever was inserted meanwhile, for lists and pages of any size; unless a
\* row left or two shared an instant.
THEOREM WalkAlwaysReturnsAll == PagingSpec => []WalkReturnsAll
<1>1. PagingInit => PagingInv
  BY FS_EmptySet DEF PagingInit, PagingInv, PagingTypeOK, WalkKept
<1>2. PagingInv => WalkReturnsAll
  BY DEF PagingInv, WalkKept, WalkReturnsAll
<1> QED
  BY <1>1, <1>2, PagingStep, PTL DEF PagingSpec
=============================================================================
