--------------------------- MODULE DesktopWindow ---------------------------
(***************************************************************************)
(* The window of a desktop and the workspace it acts in.  The window shows *)
(* what its query cache holds: the session and lists of the workspace.     *)
(* The main process puts into the path of a call the workspace it finds in *)
(* session.json when it gets to it.  Switching, creating, archiving a      *)
(* workspace and saving settings write that file and the cache.            *)
(***************************************************************************)
EXTENDS ApiRequests

CONSTANTS
  Spaces,  \* workspaces
  Lists    \* queries for rows of the active workspace: "projects", "tenant-members", ...

VARIABLES
  active,    \* the workspace in session.json
  existing,  \* workspaces of the user
  shown,     \* the workspace of the cached session
  cached,    \* the workspace the cached rows of a list are of
  asked,     \* queries the window is fetching and main has not begun
  stale,     \* queries invalidated, and not fetched again since
  undone     \* a save that meant to keep the workspace has changed it

windowVars == <<active, existing, shown, cached, asked, stale, undone>>

Queries == Lists \cup {"session"}
WindowTask ==
  [call   : {"fetch", "switch", "create", "settings", "archive", "act"},
   step   : {"path", "send", "save", "load", "merge", "reply"},
   query  : Queries \cup {None},  \* fetched, or the list whose item was pressed
   place  : Spaces \cup {None},   \* in the path, or to be saved
   target : Spaces \cup {None},   \* the workspace in the answer
   seen   : Spaces \cup {None},   \* shown when the call was pressed
   from   : Spaces \cup {None},   \* the workspace of the item
   calm   : BOOLEAN,              \* nothing about the workspace was under way
   heard  : BOOLEAN,              \* the window has not cancelled the fetch
   old    : BOOLEAN]              \* the fetch is from before the invalidation

ASSUME WindowAssumption ==
  None \notin Spaces \cup Queries \cup WindowTask /\ "session" \notin Lists

WindowTypeOK ==
  /\ active \in Spaces /\ existing \subseteq Spaces
  /\ shown \in Spaces \cup {None} /\ cached \in [Lists -> Spaces \cup {None}]
  /\ asked \subseteq Queries /\ stale \subseteq Queries /\ undone \in BOOLEAN

\* a signed-in user opens the window
WindowInit ==
  /\ existing \in SUBSET Spaces /\ active \in existing
  /\ shown = None /\ cached = [q \in Lists |-> None]
  /\ asked = {"session"} /\ stale = {} /\ undone = FALSE

NewCall(call, step) ==
  [call |-> call, step |-> step, query |-> None, place |-> None, target |-> None,
   seen |-> shown, from |-> None, calm |-> FALSE, heard |-> TRUE, old |-> FALSE]
Goes(h, step) == Continue(h, [work[h] EXCEPT !.step = step])
UnderWay(calls) == {h \in Handlers : work[h] # None /\ work[h].call \in calls}

-----------------------------------------------------------------------------
\* The query cache
Fetching(q) == {h \in UnderWay({"fetch"}) : work[h].query = q /\ work[h].heard}
Loaded(q) == IF q = "session" THEN shown # None ELSE cached[q] # None

\* refetch: a fetch under way is dropped, in main it goes on; not so the first of
\* a query, whose answer is awaited although it may have been asked elsewhere
AskAgain(qs) ==
  asked' = asked \cup {q \in qs : Loaded(q) \/ Fetching(q) = {}}
Cancelled(t, qs) ==
  IF t.call # "fetch" \/ t.query \notin qs THEN t
  ELSE IF ~Loaded(t.query) THEN [t EXCEPT !.old = (t.step = "reply")]
  ELSE IF t.query = "session" THEN [t EXCEPT !.heard = FALSE]
  ELSE None
Refetch(h, qs) ==
  /\ AskAgain(qs)
  /\ work' = [o \in Handlers |->
       IF o = h \/ work[o] = None THEN None ELSE Cancelled(work[o], qs)]

\* a query is fetched at intervals, when its view opens, by a button
Poll(q) ==
  /\ Loaded("session") \/ q = "session"
  /\ q \notin asked /\ Fetching(q) = {}
  /\ asked' = asked \cup {q}
  /\ UNCHANGED <<work, active, existing, shown, cached, stale, undone>>

BeginFetch(h, q) ==
  /\ q \in asked
  /\ Begin(h, [NewCall("fetch", "path") EXCEPT !.query = q])
  /\ asked' = asked \ {q}
  /\ UNCHANGED <<active, existing, shown, cached, stale, undone>>

-----------------------------------------------------------------------------
\* What the user presses: one call of a kind at a time
May(h, call) == shown # None /\ work[h] = None /\ UnderWay({call}) = {}
\* the calls for items that are under way see the workspace change
BeginChange(h, t) ==
  work' = [o \in Handlers |-> IF o = h THEN t
             ELSE IF work[o] = None THEN None ELSE [work[o] EXCEPT !.calm = FALSE]]

PressSwitch(h, w) ==
  /\ May(h, "switch")
  /\ w \in existing \ {shown}
  /\ BeginChange(h, [NewCall("switch", "save") EXCEPT !.place = w])
  /\ UNCHANGED windowVars
PressCreate(h) ==
  /\ May(h, "create")
  /\ BeginChange(h, NewCall("create", "send"))
  /\ UNCHANGED windowVars
PressSettings(h) ==
  /\ May(h, "settings")
  /\ Begin(h, NewCall("settings", "path"))
  /\ UNCHANGED windowVars
PressArchive(h) ==
  /\ May(h, "archive")
  /\ Begin(h, NewCall("archive", "load"))
  /\ UNCHANGED windowVars
\* a project is archived, a member removed, an invitation or a device revoked, ...
PressItem(h, q) ==
  /\ May(h, "act")
  /\ q \in Lists /\ cached[q] # None
  /\ Begin(h, [NewCall("act", "path") EXCEPT !.query = q, !.from = cached[q],
       !.calm = (stale = {} /\ ~undone /\ UnderWay({"switch", "create"}) = {})])
  /\ UNCHANGED windowVars

-----------------------------------------------------------------------------
\* The main process
\* the server makes the workspace
Create(h) ==
  /\ At(h, "send")
  /\ \E w \in Spaces \ existing :
       /\ existing' = existing \cup {w}
       /\ Continue(h, [work[h] EXCEPT !.step = "save", !.place = w])
  /\ UNCHANGED <<active, shown, cached, asked, stale, undone>>

\* loadSession, for the path or to be saved again
ReadPath(h) ==
  /\ At(h, "path")
  /\ LET saves == work[h].call = "settings" \/ work[h].query = "session"
     IN  Continue(h, [work[h] EXCEPT !.step = IF saves THEN "save" ELSE "reply",
                                     !.place = active, !.target = active])
  /\ UNCHANGED windowVars
LoadToMerge(h) ==
  /\ At(h, "load")
  /\ Continue(h, [work[h] EXCEPT !.step = "merge", !.place = active])
  /\ UNCHANGED windowVars

\* saveSession
Save(h) ==
  LET t == work[h]
  IN /\ At(h, "save") \/ At(h, "merge")
     /\ active' = t.place
     /\ undone' = (t.call \notin {"switch", "create"} /\ (undone \/ t.place # active))
     /\ Goes(h, IF t.call = "settings" /\ t.step = "save" THEN "load" ELSE "reply")
     /\ UNCHANGED <<existing, shown, cached, asked, stale>>

-----------------------------------------------------------------------------
\* The answers, in the window
SessionArrives(h) ==
  /\ At(h, "reply") /\ work[h].query = "session"
  /\ IF work[h].heard
     THEN /\ shown' = work[h].place /\ stale' = stale \ {"session"}
          /\ asked' = IF shown = None THEN asked \cup Lists ELSE asked
     ELSE UNCHANGED <<shown, stale, asked>>
  /\ Finish(h)
  /\ UNCHANGED <<active, existing, cached, undone>>
ListArrives(h) ==
  LET t == work[h]
  IN /\ At(h, "reply") /\ t.call = "fetch" /\ t.query \in Lists
     /\ cached' = [cached EXCEPT ![t.query] = t.place]
     /\ stale' = IF t.old THEN stale ELSE stale \ {t.query}
     /\ Finish(h)
     /\ UNCHANGED <<active, existing, shown, asked, undone>>

\* mutant: a change invalidates the session alone
InvalidatedSession == {"session"}
Invalidated == Queries

\* the workspace of the answer, or the session of the render that pressed
Presented(t) ==
  CASE t.call \in {"switch", "create"} -> t.place
    [] t.call = "settings"             -> t.target
    [] t.call = "archive"              -> t.seen
ChangeDone(h) ==
  /\ At(h, "reply") /\ work[h].call \in {"switch", "create", "settings", "archive"}
  /\ shown' = Presented(work[h])
  /\ stale' = stale \cup Invalidated
  /\ Refetch(h, Invalidated)
  /\ UNCHANGED <<active, existing, cached, undone>>
Acted(h) ==
  /\ At(h, "reply") /\ work[h].call = "act"
  /\ Refetch(h, {work[h].query})
  /\ UNCHANGED <<active, existing, shown, cached, stale, undone>>
\* the files of a submission are sent one after the other, each where main finds itself
NextOfBatch(h) ==
  /\ At(h, "reply") /\ work[h].call = "act"
  /\ Continue(h, [work[h] EXCEPT !.step = "path", !.place = None, !.target = None])
  /\ UNCHANGED windowVars

\* a call fails; a fetch may be tried once more
WindowCallFails(h) ==
  /\ work[h] # None /\ work[h].step # "reply"
  /\ Finish(h)
  /\ \/ UNCHANGED asked
     \/ h \in Fetching(work[h].query) /\ asked' = asked \cup {work[h].query}
  /\ UNCHANGED <<active, existing, shown, cached, stale, undone>>

WindowNext ==
  \/ \E q \in Queries : Poll(q) \/ \E h \in Handlers : BeginFetch(h, q) \/ PressItem(h, q)
  \/ \E h \in Handlers :
       \/ \E w \in Spaces : PressSwitch(h, w)
       \/ PressCreate(h) \/ PressSettings(h) \/ PressArchive(h)
       \/ Create(h) \/ ReadPath(h) \/ LoadToMerge(h) \/ Save(h)
       \/ SessionArrives(h) \/ ListArrives(h) \/ ChangeDone(h) \/ Acted(h)
       \/ NextOfBatch(h)
       \/ WindowCallFails(h)

-----------------------------------------------------------------------------
\* A call for an item of a list is made in the workspace the item is of, and the
\* one the window showed when it was pressed; if no change of the workspace was
\* under way, and each query had been fetched since the last one.  Excepted is
\* what follows a save that undid a change, until the user switches again.
ActsWhereShown ==
  \A h \in Handlers :
    At(h, "reply") /\ work[h].call = "act" /\ work[h].calm /\ ~undone =>
      work[h].place = work[h].from /\ work[h].place = work[h].seen
=============================================================================
