---------------------------- MODULE DesktopProofs ---------------------------
(***************************************************************************)
(* What holds of a desktop, whatever is pressed while calls and writes are *)
(* under way: of its window, of the files and the session that its main    *)
(* process keeps, and of what it and the clients of the public API submit, *)
(* for any contents, labels, plans and repairs.                            *)
(***************************************************************************)
EXTENDS DesktopWindow, DesktopSession, Submissions, SequenceTheorems,
        FiniteSetTheorems, FunctionTheorems, TLAPS

-----------------------------------------------------------------------------
(* The window of a desktop                                                  *)

WindowSpec == NoWork /\ WindowInit /\ [][WindowNext]_<<work, windowVars>>

\* the steps each call takes, and what it knows at each
Shape(t) ==
  /\ t.call = "fetch" =>
       /\ t.query \in Queries /\ t.step \in {"path", "save", "reply"}
       /\ t.query \in Lists => t.step # "save" /\ t.heard
       /\ t.step # "path" => t.place \in Spaces
  /\ t.call \in {"switch", "create"} =>
       t.step \in {"send", "save", "reply"} /\ (t.step # "send" => t.place \in Spaces)
  /\ t.call = "settings" =>
       t.step # "send" /\ (t.step # "path" => t.place \in Spaces /\ t.target \in Spaces)
  /\ t.call = "archive" =>
       t.step \in {"load", "merge", "reply"} /\ (t.step # "load" => t.place \in Spaces)
  /\ t.call = "act" => t.query \in Lists /\ t.step \in {"path", "reply"}
  /\ t.call # "fetch" => t.seen \in Spaces
  /\ t.call \in {"switch", "create", "settings", "archive"} => t.query = None
Shaped == {t \in WindowTask : Shape(t)}

\* a switch or a creation has changed the workspace, and the window does not know yet
Unheard == {h \in UnderWay({"switch", "create"}) : work[h].step = "reply"}
Steady == ~undone /\ Unheard = {}

ListFetch(t) == t.call = "fetch" /\ t.query \in Lists
\* an answer that the window takes for that of the active workspace
Trusted(t) ==
  t.call = "fetch" /\ t.step # "path" /\ IF t.query = "session" THEN t.heard ELSE ~t.old

\* what a handler holds is true of the window and of session.json
TaskOK(t) ==
  /\ shown = None => t.call = "fetch" /\ t.query = "session" /\ t.heard
  /\ t.call = "act" => cached[t.query] # None
  /\ ListFetch(t) => t.query \notin asked /\ (t.old => t.query \in stale)
  /\ Steady /\ Trusted(t) => t.place = active
  /\ t.call = "act" /\ t.calm =>
       /\ UnderWay({"switch", "create"}) = {}
       /\ ~undone => /\ t.from = active /\ t.seen = active
                     /\ t.step = "reply" => t.place = active
TasksOK == \A h \in Handlers : work[h] # None => TaskOK(work[h])

\* a list is fetched once at a time, so that an old answer is the last of its kind
FetchedOnce ==
  \A h, o \in Handlers :
    work[h] # None /\ work[o] # None /\ ListFetch(work[h]) /\ ListFetch(work[o])
      /\ work[o].query = work[h].query => h = o
AskedFirst == shown = None => asked \subseteq {"session"}

\* what the window shows, and has not been told to fetch again, is of the active workspace
ShowsActive ==
  Steady => /\ shown # None /\ "session" \notin stale => shown = active
            /\ \A q \in Lists : cached[q] # None /\ q \notin stale => cached[q] = active

WindowInv ==
  /\ WorkIn(Shaped) /\ WindowTypeOK
  /\ TasksOK /\ FetchedOnce /\ AskedFirst
  /\ ShowsActive

\* The window starts with an empty cache and no calls.
LEMMA WindowInitOK == NoWork /\ WindowInit => WindowInv
<1> SUFFICES ASSUME NoWork, WindowInit PROVE WindowInv
  OBVIOUS
<1>1. /\ work = [h \in Handlers |-> None] /\ active \in existing /\ existing \subseteq Spaces
      /\ shown = None /\ cached = [q \in Lists |-> None]
      /\ asked = {"session"} /\ stale = {} /\ undone = FALSE
  BY DEF NoWork, WindowInit
<1>2. WorkIn(Shaped) /\ WindowTypeOK
  BY <1>1 DEF WorkIn, WindowTypeOK, Queries
<1>3. TasksOK /\ FetchedOnce /\ AskedFirst /\ ShowsActive
  BY <1>1 DEF TasksOK, FetchedOnce, AskedFirst, ShowsActive
<1> QED
  BY <1>2, <1>3 DEF WindowInv

\* What is known of a task, whatever its call.
LEMMA ShapedTask == ASSUME WindowInv, NEW h \in Handlers, work[h] # None
  PROVE  work[h] \in Shaped /\ work[h] \in WindowTask /\ Shape(work[h]) /\ TaskOK(work[h])
<1>1. work[h] \in Shaped /\ TaskOK(work[h])
  BY DEF WindowInv, WorkIn, TasksOK
<1> QED
  BY <1>1 DEF Shaped

\* nobody else fetches the list that h fetches with task
Alone(h, task) ==
  ListFetch(task) => \A o \in Handlers \ {h} :
    work[o] # None /\ ListFetch(work[o]) => work[o].query # task.query

\* A handler takes a step that the window does not notice, apart from what it has asked.
LEMMA WindowGoes ==
  ASSUME WindowInv, UNCHANGED <<active, shown, cached, stale, undone>>,
         existing' \subseteq Spaces, asked' \subseteq Queries,
         NEW h \in Handlers, NEW task \in Shaped \cup {None},
         work' = [work EXCEPT ![h] = task],
         shown = None => asked' \subseteq {"session"},
         \A o \in Handlers \ {h} : work[o] # None /\ ListFetch(work[o]) =>
           work[o].query \notin asked',
         task # None => Alone(h, task),
         Unheard \subseteq Unheard',
         UnderWay({"switch", "create"})' \subseteq UnderWay({"switch", "create"}),
         task # None => TaskOK(task)'
  PROVE  WindowInv'
<1>1. /\ WorkIn(Shaped)' /\ work'[h] = task
      /\ \A o \in Handlers \ {h} : work'[o] = work[o]
  BY DEF WindowInv, WorkIn
<1>2. WindowTypeOK' /\ AskedFirst'
  BY DEF WindowInv, WindowTypeOK, AskedFirst
<1>3. Steady' => Steady
  BY DEF Steady
<1>4. TasksOK'
  <2> SUFFICES ASSUME NEW o \in Handlers, work'[o] # None
               PROVE  TaskOK(work[o])'
    BY DEF TasksOK
  <2>1. CASE o = h
    BY <1>1, <2>1 DEF TaskOK, ListFetch, Trusted, Steady, Unheard, UnderWay
  <2>2. CASE o # h
    <3>1. work'[o] = work[o]
      BY <1>1, <2>2
    <3>2. TaskOK(work[o]) /\ (ListFetch(work[o]) => work[o].query \notin asked')
      BY <2>2, <3>1 DEF WindowInv, TasksOK
    <3> QED
      BY <1>3, <3>1, <3>2 DEF TaskOK, ListFetch, Trusted
  <2> QED
    BY <2>1, <2>2
<1>5. FetchedOnce'
  BY <1>1 DEF WindowInv, FetchedOnce, ListFetch, Alone
<1>6. ShowsActive'
  BY <1>3 DEF WindowInv, ShowsActive
<1> QED
  BY <1>1, <1>2, <1>4, <1>5, <1>6 DEF WindowInv

\* a switch or a creation that has changed the workspace stays until it is done
LEMMA ChangesStay ==
  ASSUME WindowInv, NEW h \in Handlers, NEW task \in Shaped \cup {None},
         work' = [work EXCEPT ![h] = task], h \notin Unheard,
         task # None => \/ task.call \notin {"switch", "create"}
                        \/ work[h] # None /\ work[h].call = task.call
  PROVE  /\ Unheard \subseteq Unheard'
         /\ UnderWay({"switch", "create"})' \subseteq UnderWay({"switch", "create"})
  BY DEF Unheard, UnderWay, WindowInv, WorkIn

\* A poll marks a query stale; nothing shown changes.
LEMMA PollOK ==
  ASSUME WindowInv, NEW q \in Queries, Poll(q)
  PROVE  WindowInv'
<1>1. /\ UNCHANGED <<work, active, existing, shown, cached, stale, undone>>
      /\ asked' = asked \cup {q} /\ Fetching(q) = {}
      /\ shown = None => q = "session"
  BY DEF Poll, Loaded
<1>2. WorkIn(Shaped)' /\ WindowTypeOK' /\ AskedFirst' /\ FetchedOnce'
  BY <1>1 DEF WindowInv, WorkIn, WindowTypeOK, AskedFirst, FetchedOnce
<1>3. (Steady' <=> Steady) /\ UnderWay({"switch", "create"})' = UnderWay({"switch", "create"})
  BY <1>1 DEF Steady, Unheard, UnderWay
<1>4. ShowsActive'
  BY <1>1, <1>3 DEF WindowInv, ShowsActive
<1>5. TasksOK'
  <2> SUFFICES ASSUME NEW h \in Handlers, work[h] # None
               PROVE  TaskOK(work[h])'
    BY <1>1 DEF TasksOK
  <2>1. TaskOK(work[h]) /\ Shape(work[h])
    BY ShapedTask
  <2>2. ListFetch(work[h]) => work[h].query # q
    <3> SUFFICES ASSUME ListFetch(work[h]), work[h].query = q
                 PROVE  FALSE
      OBVIOUS
    <3>1. work[h].heard
      BY <2>1 DEF Shape, ListFetch
    <3> QED
      BY <1>1, <3>1 DEF Fetching, UnderWay, ListFetch
  <2> QED
    BY <1>1, <1>3, <2>1, <2>2 DEF TaskOK, ListFetch, Trusted
<1> QED
  BY <1>2, <1>4, <1>5 DEF WindowInv

\* A fetch begins for the workspace main is in.
LEMMA BeginFetchOK ==
  ASSUME WindowInv, NEW h \in Handlers, NEW q \in Queries, BeginFetch(h, q)
  PROVE  WindowInv'
<1>1. PICK task : task = [NewCall("fetch", "path") EXCEPT !.query = q]
  OBVIOUS
<1>2. /\ q \in asked /\ work[h] = None /\ work' = [work EXCEPT ![h] = task]
      /\ asked' = asked \ {q}
      /\ UNCHANGED <<active, existing, shown, cached, stale, undone>>
  BY <1>1 DEF BeginFetch, Begin
<1>3. task = [call |-> "fetch", step |-> "path", query |-> q, place |-> None, target |-> None,
              seen |-> shown, from |-> None, calm |-> FALSE, heard |-> TRUE, old |-> FALSE]
  BY <1>1 DEF NewCall
<1>4. task \in WindowTask
  BY <1>3 DEF WindowTask, WindowInv, WindowTypeOK
<1>5. task \in Shaped
  BY <1>3, <1>4 DEF Shaped, Shape
<1>6. asked \subseteq Queries /\ existing \subseteq Spaces
  BY DEF WindowInv, WindowTypeOK
<1>7. shown = None => asked' \subseteq {"session"} /\ q = "session"
  BY <1>2 DEF WindowInv, AskedFirst
<1>8. \A o \in Handlers \ {h} : work[o] # None /\ ListFetch(work[o]) =>
        work[o].query \notin asked' /\ work[o].query # q
  BY <1>2 DEF WindowInv, TasksOK, TaskOK
<1>9. TaskOK(task)'
  BY <1>2, <1>3, <1>7 DEF TaskOK, ListFetch, Trusted
<1>10. h \notin Unheard /\ task.call = "fetch" /\ task.query = q
  BY <1>2, <1>3 DEF Unheard, UnderWay
<1>11. Alone(h, task)
  BY <1>8, <1>10 DEF Alone
<1> QED
  BY <1>2, <1>5, <1>6, <1>7, <1>8, <1>9, <1>10, <1>11, WindowGoes, ChangesStay

\* The user presses something that is no change of the workspace, or not yet one.
LEMMA PressOK ==
  ASSUME WindowInv, NEW h \in Handlers,
         PressSettings(h) \/ PressArchive(h) \/ \E q \in Queries : PressItem(h, q)
  PROVE  WindowInv'
<1>1. /\ shown # None /\ work[h] = None
      /\ UNCHANGED <<active, existing, shown, cached, asked, stale, undone>>
  BY DEF PressSettings, PressArchive, PressItem, May, windowVars
<1>2. h \notin Unheard /\ shown \in Spaces /\ active \in Spaces
      /\ existing \subseteq Spaces /\ asked \subseteq Queries
  BY <1>1 DEF Unheard, UnderWay, WindowInv, WindowTypeOK
<1>3. \A o \in Handlers : work[o] # None /\ ListFetch(work[o]) => work[o].query \notin asked
  BY DEF WindowInv, TasksOK, TaskOK
<1>4. ASSUME NEW task \in Shaped, work' = [work EXCEPT ![h] = task],
             task.call \in {"settings", "archive", "act"}, TaskOK(task)'
      PROVE  WindowInv'
  <2>1. ~ListFetch(task)
    BY <1>4 DEF ListFetch
  <2>2. Alone(h, task)
    BY <2>1 DEF Alone
  <2> QED
    BY <1>1, <1>2, <1>3, <1>4, <2>2, WindowGoes, ChangesStay
<1>5. CASE PressSettings(h) \/ PressArchive(h)
  <2>1. PICK call, step, task : /\ <<call, step>> \in {<<"settings", "path">>, <<"archive", "load">>}
                                /\ task = NewCall(call, step)
                                /\ work' = [work EXCEPT ![h] = task]
    BY <1>5 DEF PressSettings, PressArchive, Begin
  <2>2. task = [call |-> call, step |-> step, query |-> None, place |-> None, target |-> None,
                seen |-> shown, from |-> None, calm |-> FALSE, heard |-> TRUE, old |-> FALSE]
    BY <2>1 DEF NewCall
  <2>3. task \in WindowTask
    BY <1>2, <2>1, <2>2 DEF WindowTask
  <2>4. task \in Shaped /\ task.call \in {"settings", "archive", "act"}
    BY <1>2, <2>1, <2>2, <2>3 DEF Shaped, Shape
  <2>5. TaskOK(task)'
    BY <1>1, <2>1, <2>2 DEF TaskOK, ListFetch, Trusted
  <2> QED
    BY <1>4, <2>1, <2>4, <2>5
<1>6. ASSUME NEW q \in Queries, PressItem(h, q)
      PROVE  WindowInv'
  <2>1. PICK calm, task :
          /\ calm = (stale = {} /\ ~undone /\ UnderWay({"switch", "create"}) = {})
          /\ task = [NewCall("act", "path") EXCEPT !.query = q, !.from = cached[q], !.calm = calm]
    OBVIOUS
  <2>2. q \in Lists /\ cached[q] # None /\ work' = [work EXCEPT ![h] = task]
    BY <1>6, <2>1 DEF PressItem, Begin
  <2>3. task = [call |-> "act", step |-> "path", query |-> q, place |-> None, target |-> None,
                seen |-> shown, from |-> cached[q], calm |-> calm, heard |-> TRUE, old |-> FALSE]
    BY <2>1 DEF NewCall
  <2>4. cached[q] \in Spaces /\ calm \in BOOLEAN
    BY <2>1, <2>2 DEF WindowInv, WindowTypeOK
  <2>5. task \in WindowTask
    BY <1>2, <2>3, <2>4 DEF WindowTask
  <2>6. task \in Shaped /\ task.call \in {"settings", "archive", "act"}
    BY <1>2, <2>2, <2>3, <2>5 DEF Shaped, Shape
  <2>7. calm => cached[q] = active /\ shown = active /\ UnderWay({"switch", "create"}) = {}
    <3> SUFFICES ASSUME calm PROVE cached[q] = active /\ shown = active
      BY <2>1
    <3>1. stale = {} /\ Steady
      BY <2>1 DEF Steady, Unheard
    <3> QED
      BY <1>1, <2>2, <3>1 DEF WindowInv, ShowsActive
  <2>8. calm => UnderWay({"switch", "create"})' = {}
    <3>1. UnderWay({"switch", "create"})' \subseteq UnderWay({"switch", "create"})
      BY <1>2, <2>2, <2>3, <2>6, ChangesStay
    <3> QED
      BY <2>7, <3>1
  <2>9. TaskOK(task)'
    BY <1>1, <2>2, <2>3, <2>7, <2>8 DEF TaskOK, ListFetch, Trusted
  <2> QED
    BY <1>4, <2>2, <2>6, <2>9
<1> QED
  BY <1>5, <1>6

\* A handler goes on with its call, and what it holds is as before but for the step and places.
Moved(t, step, place, target) == [t EXCEPT !.step = step, !.place = place, !.target = target]

\* A task that goes on is the same call at another step.
LEMMA TaskGoes ==
  ASSUME NEW t \in WindowTask,
         NEW step \in {"path", "send", "save", "load", "merge", "reply"},
         NEW place \in Spaces \cup {None}, NEW target \in Spaces \cup {None}
  PROVE  /\ Moved(t, step, place, target) \in WindowTask
         /\ Moved(t, step, place, target) =
              [call |-> t.call, step |-> step, query |-> t.query, place |-> place,
               target |-> target, seen |-> t.seen, from |-> t.from, calm |-> t.calm,
               heard |-> t.heard, old |-> t.old]
<1>1. PICK task : task = Moved(t, step, place, target)
  OBVIOUS
<1>2. task = [call |-> t.call, step |-> step, query |-> t.query, place |-> place,
              target |-> target, seen |-> t.seen, from |-> t.from, calm |-> t.calm,
              heard |-> t.heard, old |-> t.old]
  BY <1>1 DEF WindowTask, Moved
<1>3. /\ t.call \in {"fetch", "switch", "create", "settings", "archive", "act"}
      /\ t.query \in Queries \cup {None} /\ t.seen \in Spaces \cup {None}
      /\ t.from \in Spaces \cup {None}
      /\ t.calm \in BOOLEAN /\ t.heard \in BOOLEAN /\ t.old \in BOOLEAN
  BY DEF WindowTask
<1>4. task \in WindowTask
  BY <1>2, <1>3 DEF WindowTask
<1> QED
  BY <1>1, <1>2, <1>4

\* A call that goes on, while nothing but the set of workspaces changes, keeps the window.
LEMMA CallGoes ==
  ASSUME WindowInv, UNCHANGED <<active, shown, cached, asked, stale, undone>>,
         existing' \subseteq Spaces,
         NEW h \in Handlers, work[h] # None, h \notin Unheard,
         NEW t, t = work[h], NEW task \in Shaped \cup {None},
         task # None => /\ task.call = t.call /\ task.query = t.query
                        /\ TaskOK(task)',
         work' = [work EXCEPT ![h] = task]
  PROVE  WindowInv'
<1>1. asked' \subseteq Queries
  BY DEF WindowInv, WindowTypeOK
<1>2. shown = None => asked' \subseteq {"session"}
  BY DEF WindowInv, AskedFirst
<1>3. \A o \in Handlers \ {h} : work[o] # None /\ ListFetch(work[o]) => work[o].query \notin asked'
  BY DEF WindowInv, TasksOK, TaskOK
<1>4. task # None => Alone(h, task)
  BY DEF WindowInv, FetchedOnce, ListFetch, Alone
<1>5. /\ Unheard \subseteq Unheard'
      /\ UnderWay({"switch", "create"})' \subseteq UnderWay({"switch", "create"})
  BY ChangesStay
<1> QED
  BY <1>1, <1>2, <1>3, <1>4, <1>5, WindowGoes

\* The server creates the workspace; the call has still to save it.
LEMMA CreateOK ==
  ASSUME WindowInv, NEW h \in Handlers, Create(h)
  PROVE  WindowInv'
<1>1. PICK w, t, task :
        /\ w \in Spaces \ existing /\ t = work[h] /\ task = [t EXCEPT !.step = "save", !.place = w]
        /\ work' = [work EXCEPT ![h] = task] /\ existing' = existing \cup {w}
  BY DEF Create, Continue
<1>2. /\ t # None /\ t.step = "send" /\ existing' \subseteq Spaces
      /\ UNCHANGED <<active, shown, cached, asked, stale, undone>>
  BY <1>1 DEF Create, At, WindowInv, WindowTypeOK
<1>3. t \in WindowTask /\ Shape(t) /\ TaskOK(t)
  BY <1>1, <1>2, ShapedTask
<1>4. t.call \in {"switch", "create"}
  BY <1>2, <1>3 DEF Shape, WindowTask
<1>5. /\ task \in WindowTask /\ task.call = t.call /\ task.query = t.query /\ task.seen = t.seen
      /\ task.step = "save" /\ task.place = w
  BY <1>1, <1>3 DEF WindowTask
<1>6. task \in Shaped
  BY <1>1, <1>3, <1>4, <1>5 DEF Shaped, Shape
<1>7. TaskOK(task)'
  BY <1>2, <1>3, <1>4, <1>5 DEF TaskOK, ListFetch, Trusted
<1>8. h \notin Unheard
  BY <1>1, <1>2 DEF Unheard
<1> QED
  BY <1>1, <1>2, <1>5, <1>6, <1>7, <1>8, CallGoes

\* what depends on the calls under way does not change with one that is none of the changes
LEMMA NoChangeKept ==
  ASSUME WindowInv, UNCHANGED undone, NEW h \in Handlers, work[h] # None,
         work[h].call \notin {"switch", "create"}, NEW task \in Shaped \cup {None},
         task # None => task.call = work[h].call, work' = [work EXCEPT ![h] = task]
  PROVE  /\ Unheard' = Unheard /\ (Steady' <=> Steady)
         /\ UnderWay({"switch", "create"})' = UnderWay({"switch", "create"})
<1>1. UnderWay({"switch", "create"})' = UnderWay({"switch", "create"})
  BY DEF UnderWay, WindowInv, WorkIn
<1>2. \A o \in UnderWay({"switch", "create"}) : work'[o] = work[o]
  BY DEF UnderWay, WindowInv, WorkIn
<1>3. Unheard' = Unheard
  BY <1>1, <1>2 DEF Unheard
<1> QED
  BY <1>1, <1>3 DEF Steady

\* A call reads the workspace of session.json as it is now.
LEMMA ReadPathOK ==
  ASSUME WindowInv, NEW h \in Handlers, ReadPath(h)
  PROVE  WindowInv'
<1>a. PICK step : step = IF work[h].call = "settings" \/ work[h].query = "session"
                       THEN "save" ELSE "reply"
  OBVIOUS
<1>b. PICK t, task :
        t = work[h] /\ task = [t EXCEPT !.step = step, !.place = active, !.target = active]
  OBVIOUS
<1>1. /\ step = (IF t.call = "settings" \/ t.query = "session" THEN "save" ELSE "reply")
      /\ t = work[h]
      /\ task = [t EXCEPT !.step = step, !.place = active, !.target = active]
      /\ work' = [work EXCEPT ![h] = task]
  BY <1>a, <1>b DEF ReadPath, Continue
<1>2. /\ t # None /\ t.step = "path" /\ active \in Spaces /\ existing' \subseteq Spaces
      /\ UNCHANGED <<active, shown, cached, asked, stale, undone>>
  BY <1>1 DEF ReadPath, At, WindowInv, WindowTypeOK, windowVars
<1>3. t \in WindowTask /\ Shape(t) /\ TaskOK(t)
  BY <1>1, <1>2, ShapedTask
<1>4. t.call \in {"fetch", "settings", "act"}
  BY <1>2, <1>3 DEF Shape, WindowTask
<1>5. /\ task \in WindowTask
      /\ task.call = t.call /\ task.query = t.query /\ task.seen = t.seen /\ task.from = t.from
      /\ task.calm = t.calm /\ task.heard = t.heard /\ task.old = t.old
      /\ task.step = step /\ task.place = active /\ task.target = active
  <2>1. CASE step = "save"
    BY <1>1, <1>2, <1>3, <2>1 DEF WindowTask
  <2>2. CASE step = "reply"
    BY <1>1, <1>2, <1>3, <2>2 DEF WindowTask
  <2> QED
    BY <1>1, <2>1, <2>2
<1>6. task \in Shaped
  <2>1. /\ t.call = "fetch" => t.query \in Queries /\ (t.query \in Lists => t.heard)
        /\ t.call = "act" => t.query \in Lists
        /\ t.call # "fetch" => t.seen \in Spaces
        /\ t.call = "settings" => t.query = None
    BY <1>3 DEF Shape
  <2>2. /\ t.query \in Lists => t.query # "session"
        /\ t.call = "act" => step = "reply"
        /\ t.call = "fetch" /\ t.query \in Lists => step = "reply"
    BY <1>1, <2>1, WindowAssumption
  <2>3. Shape(task)
    BY <1>1, <1>2, <1>4, <1>5, <2>1, <2>2 DEF Shape
  <2> QED
    BY <1>5, <2>3 DEF Shaped
<1>7. /\ (Steady' <=> Steady)
      /\ UnderWay({"switch", "create"})' = UnderWay({"switch", "create"})
  BY <1>1, <1>2, <1>4, <1>5, <1>6, NoChangeKept
<1>8. TaskOK(task)'
  BY <1>2, <1>3, <1>5, <1>7 DEF TaskOK, ListFetch, Trusted
<1>9. h \notin Unheard
  BY <1>1, <1>2 DEF Unheard
<1> QED
  BY <1>1, <1>2, <1>5, <1>6, <1>8, <1>9, CallGoes

\* A merge loads the session it will write over.
LEMMA LoadToMergeOK ==
  ASSUME WindowInv, NEW h \in Handlers, LoadToMerge(h)
  PROVE  WindowInv'
<1>1. PICK t, task :
        /\ t = work[h] /\ task = [t EXCEPT !.step = "merge", !.place = active]
        /\ work' = [work EXCEPT ![h] = task]
  BY DEF LoadToMerge, Continue
<1>2. /\ t # None /\ t.step = "load" /\ active \in Spaces /\ existing' \subseteq Spaces
      /\ UNCHANGED <<active, shown, cached, asked, stale, undone>>
  BY <1>1 DEF LoadToMerge, At, WindowInv, WindowTypeOK, windowVars
<1>3. t \in WindowTask /\ Shape(t) /\ TaskOK(t)
  BY <1>1, <1>2, ShapedTask
<1>4. t.call \in {"settings", "archive"}
  BY <1>2, <1>3 DEF Shape, WindowTask
<1>5. /\ task \in WindowTask /\ task.call = t.call /\ task.query = t.query /\ task.seen = t.seen
      /\ task.target = t.target /\ task.step = "merge" /\ task.place = active
  BY <1>1, <1>2, <1>3 DEF WindowTask
<1>6. task \in Shaped
  BY <1>2, <1>3, <1>4, <1>5 DEF Shaped, Shape
<1>7. TaskOK(task)'
  BY <1>2, <1>3, <1>4, <1>5 DEF TaskOK, ListFetch, Trusted
<1>8. h \notin Unheard
  BY <1>1, <1>2 DEF Unheard
<1> QED
  BY <1>1, <1>2, <1>5, <1>6, <1>7, <1>8, CallGoes

\* A batch goes on to its next file, for which the workspace is read again.
LEMMA NextOfBatchOK ==
  ASSUME WindowInv, NEW h \in Handlers, NextOfBatch(h)
  PROVE  WindowInv'
<1>1. PICK t, task :
        /\ t = work[h] /\ task = [t EXCEPT !.step = "path", !.place = None, !.target = None]
        /\ work' = [work EXCEPT ![h] = task]
  BY DEF NextOfBatch, Continue
<1>2. /\ t # None /\ t.call = "act" /\ existing' \subseteq Spaces
      /\ UNCHANGED <<active, shown, cached, asked, stale, undone>>
  BY <1>1 DEF NextOfBatch, At, WindowInv, WindowTypeOK, windowVars
<1>3. t \in WindowTask /\ Shape(t) /\ TaskOK(t)
  BY <1>1, <1>2, ShapedTask
<1>4. /\ task \in WindowTask
      /\ task.call = t.call /\ task.query = t.query /\ task.seen = t.seen /\ task.from = t.from
      /\ task.calm = t.calm /\ task.heard = t.heard /\ task.old = t.old
      /\ task.step = "path" /\ task.place = None
  <2>1. task = Moved(t, "path", None, None)
    BY <1>1 DEF Moved
  <2>2. Moved(t, "path", None, None) \in WindowTask
    BY <1>3, TaskGoes
  <2>3. Moved(t, "path", None, None) =
          [call |-> t.call, step |-> "path", query |-> t.query, place |-> None,
           target |-> None, seen |-> t.seen, from |-> t.from, calm |-> t.calm,
           heard |-> t.heard, old |-> t.old]
    BY <1>3, TaskGoes
  <2> QED
    BY <2>1, <2>2, <2>3
<1>5. task \in Shaped
  BY <1>2, <1>3, <1>4 DEF Shaped, Shape
<1>6. UnderWay({"switch", "create"})' = UnderWay({"switch", "create"})
  BY <1>1, <1>2, <1>4, <1>5, NoChangeKept
<1>7. TaskOK(task)'
  BY <1>2, <1>3, <1>4, <1>6 DEF TaskOK, ListFetch, Trusted
<1>8. h \notin Unheard
  BY <1>1, <1>2 DEF Unheard, UnderWay
<1> QED
  BY <1>1, <1>2, <1>4, <1>5, <1>7, <1>8, CallGoes

\* A call that fails writes nothing.
LEMMA WindowCallFailsOK ==
  ASSUME WindowInv, NEW h \in Handlers, WindowCallFails(h)
  PROVE  WindowInv'
<1>1. /\ work[h] # None /\ work[h].step # "reply" /\ work' = [work EXCEPT ![h] = None]
      /\ UNCHANGED <<active, existing, shown, cached, stale, undone>>
  BY DEF WindowCallFails, Finish, Continue
<1>2. /\ h \notin Unheard /\ existing \subseteq Spaces /\ asked \subseteq Queries
      /\ shown = None => asked \subseteq {"session"}
  BY <1>1 DEF Unheard, WindowInv, WindowTypeOK, AskedFirst
<1>3. \A o \in Handlers : work[o] # None /\ ListFetch(work[o]) => work[o].query \notin asked
  BY DEF WindowInv, TasksOK, TaskOK
<1>4. /\ Unheard \subseteq Unheard'
      /\ UnderWay({"switch", "create"})' \subseteq UnderWay({"switch", "create"})
  BY <1>1, <1>2, ChangesStay
<1>5. CASE asked' = asked
  BY <1>1, <1>2, <1>3, <1>4, <1>5, WindowGoes
<1>6. CASE h \in Fetching(work[h].query) /\ asked' = asked \cup {work[h].query}
  <2>1. PICK q : q = work[h].query
    OBVIOUS
  <2>2. Shape(work[h]) /\ TaskOK(work[h]) /\ work[h].call = "fetch" /\ asked' = asked \cup {q}
    BY <1>1, <1>6, <2>1, ShapedTask DEF Fetching, UnderWay
  <2>3. q \in Queries /\ (shown = None => q = "session")
    BY <2>1, <2>2 DEF Shape, TaskOK
  <2>4. \A o \in Handlers \ {h} : work[o] # None /\ ListFetch(work[o]) => work[o].query # q
    BY <1>1, <2>1, <2>2 DEF WindowInv, FetchedOnce, ListFetch
  <2>5. asked' \subseteq Queries /\ (shown = None => asked' \subseteq {"session"})
    BY <1>2, <2>2, <2>3
  <2>6. \A o \in Handlers \ {h} : work[o] # None /\ ListFetch(work[o]) => work[o].query \notin asked'
    BY <1>3, <2>2, <2>4
  <2> QED
    BY <1>1, <1>2, <1>4, <2>5, <2>6, WindowGoes
<1> QED
  BY <1>5, <1>6 DEF WindowCallFails

\* When a change of the workspace begins, no call for an item is calm any more.
LEMMA BeginChangeOK ==
  ASSUME WindowInv, NEW h \in Handlers, PressCreate(h) \/ \E w \in Spaces : PressSwitch(h, w)
  PROVE  WindowInv'
<1>1. PICK call, step, place :
        /\ <<call, step, place>> \in {<<"create", "send", None>>} \cup
                                     {<<"switch", "save", w>> : w \in Spaces}
        /\ BeginChange(h, [call |-> call, step |-> step, query |-> None, place |-> place,
                           target |-> None, seen |-> shown, from |-> None, calm |-> FALSE,
                           heard |-> TRUE, old |-> FALSE])
  <2>1. CASE PressCreate(h)
    BY <2>1 DEF PressCreate, NewCall
  <2>2. ASSUME NEW w \in Spaces, PressSwitch(h, w)
        PROVE  BeginChange(h, [call |-> "switch", step |-> "save", query |-> None, place |-> w,
                               target |-> None, seen |-> shown, from |-> None, calm |-> FALSE,
                               heard |-> TRUE, old |-> FALSE])
    <3>1. PICK task : task = [NewCall("switch", "save") EXCEPT !.place = w]
      OBVIOUS
    <3>2. task = [call |-> "switch", step |-> "save", query |-> None, place |-> w,
                  target |-> None, seen |-> shown, from |-> None, calm |-> FALSE,
                  heard |-> TRUE, old |-> FALSE]
      BY <3>1 DEF NewCall
    <3> QED
      BY <2>2, <3>1, <3>2 DEF PressSwitch
  <2> QED
    BY <2>1, <2>2
<1>2. PICK task :
        task = [call |-> call, step |-> step, query |-> None, place |-> place, target |-> None,
                seen |-> shown, from |-> None, calm |-> FALSE, heard |-> TRUE, old |-> FALSE]
  OBVIOUS
<1>3. /\ shown # None /\ work[h] = None
      /\ UNCHANGED <<active, existing, shown, cached, asked, stale, undone>>
  BY DEF PressCreate, PressSwitch, May, windowVars
<1>4. work' = [o \in Handlers |-> IF o = h THEN task
                 ELSE IF work[o] = None THEN None ELSE [work[o] EXCEPT !.calm = FALSE]]
  BY <1>1, <1>2 DEF BeginChange
<1>5. /\ \/ call = "create" /\ step = "send" /\ place = None
         \/ call = "switch" /\ step = "save" /\ place \in Spaces
      /\ shown \in Spaces
  BY <1>1, <1>3 DEF WindowInv, WindowTypeOK
<1>6. task \in Shaped /\ task.call \in {"switch", "create"} /\ task.step # "reply"
  <2>2. task \in WindowTask
    BY <1>2, <1>5 DEF WindowTask
  <2>3. /\ task.call = call /\ task.step = step /\ task.query = None /\ task.place = place
        /\ task.seen = shown
    BY <1>2
  <2> QED
    BY <1>5, <2>2, <2>3 DEF Shaped, Shape
<1>7. ASSUME NEW o \in Handlers \ {h}, work[o] # None
      PROVE  /\ work'[o] \in Shaped /\ ~work'[o].calm
             /\ work'[o].call = work[o].call /\ work'[o].step = work[o].step
             /\ work'[o].query = work[o].query /\ work'[o].place = work[o].place
             /\ work'[o].heard = work[o].heard /\ work'[o].old = work[o].old
  <2>1. PICK t, next : t = work[o] /\ next = [t EXCEPT !.calm = FALSE]
    OBVIOUS
  <2>2. t \in WindowTask /\ Shape(t)
    BY <1>7, <2>1, ShapedTask
  <2>3. /\ next \in WindowTask /\ ~next.calm /\ next.call = t.call /\ next.step = t.step
        /\ next.query = t.query /\ next.place = t.place /\ next.target = t.target
        /\ next.heard = t.heard /\ next.old = t.old /\ next.seen = t.seen
    BY <2>1, <2>2 DEF WindowTask
  <2>4. next \in Shaped
    BY <2>2, <2>3 DEF Shaped, Shape
  <2>5. work'[o] = next
    BY <1>4, <1>7, <2>1
  <2> QED
    BY <2>1, <2>3, <2>4, <2>5
<1>8. work'[h] = task /\ \A o \in Handlers : work'[o] = None <=> o # h /\ work[o] = None
  <2>1. task # None
    BY <1>6, WindowAssumption DEF Shaped
  <2>2. \A o \in Handlers \ {h} : work[o] # None => work'[o] # None
    BY <1>7, WindowAssumption DEF Shaped
  <2> QED
    BY <1>4, <2>1, <2>2
<1>9. WorkIn(Shaped)'
  BY <1>4, <1>6, <1>7 DEF WorkIn
<1>10. WindowTypeOK' /\ AskedFirst'
  BY <1>3 DEF WindowInv, WindowTypeOK, AskedFirst
<1>11. Unheard' = Unheard
  BY <1>3, <1>6, <1>7, <1>8 DEF Unheard, UnderWay
<1>12. Steady' <=> Steady
  BY <1>3, <1>11 DEF Steady
<1>13. ShowsActive'
  BY <1>3, <1>12 DEF WindowInv, ShowsActive
<1>14. FetchedOnce'
  BY <1>6, <1>7, <1>8 DEF WindowInv, FetchedOnce, ListFetch
<1>15. TasksOK'
  <2> SUFFICES ASSUME NEW o \in Handlers, work'[o] # None
               PROVE  TaskOK(work[o])'
    BY DEF TasksOK
  <2>1. CASE o = h
    BY <1>3, <1>6, <1>8, <2>1 DEF TaskOK, ListFetch, Trusted
  <2>2. CASE o # h
    <3>1. TaskOK(work[o])
      BY <1>8, <2>2, ShapedTask
    <3> QED
      BY <1>3, <1>7, <1>8, <1>12, <2>2, <3>1 DEF TaskOK, ListFetch, Trusted
  <2> QED
    BY <2>1, <2>2
<1> QED
  BY <1>9, <1>10, <1>13, <1>14, <1>15 DEF WindowInv

\* session.json is written: what others have read of it stays true, or it is noted that the
\* workspace was changed by who meant to keep it.
LEMMA SaveOK ==
  ASSUME WindowInv, NEW h \in Handlers, Save(h)
  PROVE  WindowInv'
<1>1. PICK t, step, task :
        /\ t = work[h] /\ step = IF t.call = "settings" /\ t.step = "save" THEN "load" ELSE "reply"
        /\ task = [t EXCEPT !.step = step]
  OBVIOUS
<1>2. /\ t # None /\ t.step \in {"save", "merge"} /\ step \in {"load", "reply"}
      /\ active' = t.place /\ work' = [work EXCEPT ![h] = task]
      /\ undone' = (t.call \notin {"switch", "create"} /\ (undone \/ t.place # active))
      /\ UNCHANGED <<existing, shown, cached, asked, stale>>
  BY <1>1 DEF Save, At, Goes, Continue
<1>3. t \in WindowTask /\ Shape(t) /\ TaskOK(t)
  BY <1>1, <1>2, ShapedTask
<1>4. /\ t.call \in {"fetch", "switch", "create", "settings", "archive"} /\ t.place \in Spaces
      /\ t.call = "fetch" => t.query = "session"
  BY <1>2, <1>3 DEF Shape, WindowTask, Queries
<1>5. /\ task \in WindowTask
      /\ task.call = t.call /\ task.query = t.query /\ task.seen = t.seen
      /\ task.heard = t.heard /\ task.step = step /\ task.place = t.place /\ task.target = t.target
  <2>1. CASE step = "load"
    BY <1>1, <1>2, <1>3, <2>1 DEF WindowTask
  <2>2. CASE step = "reply"
    BY <1>1, <1>2, <1>3, <2>2 DEF WindowTask
  <2> QED
    BY <1>2, <2>1, <2>2
<1>6. task \in Shaped
  BY <1>1, <1>2, <1>3, <1>4, <1>5, WindowAssumption DEF Shaped, Shape
<1>7. /\ WorkIn(Shaped)' /\ work'[h] = task /\ task # None
      /\ \A o \in Handlers \ {h} : work'[o] = work[o]
  BY <1>2, <1>5, <1>6, WindowAssumption DEF WindowInv, WorkIn
<1>8. WindowTypeOK' /\ AskedFirst'
  BY <1>2, <1>4 DEF WindowInv, WindowTypeOK, AskedFirst
<1>9. Steady' => Steady /\ active' = active /\ t.call \notin {"switch", "create"}
  <2>1. CASE t.call \in {"switch", "create"}
    <3>1. step = "reply" /\ h \in Unheard'
      BY <1>1, <1>2, <1>5, <1>7, <2>1 DEF Unheard, UnderWay
    <3> QED
      BY <3>1 DEF Steady
  <2>2. CASE t.call \notin {"switch", "create"}
    <3>1. Unheard \subseteq Unheard'
      BY <1>1, <1>2, <1>5, <1>7, <2>2 DEF Unheard, UnderWay
    <3> QED
      BY <1>2, <2>2, <3>1 DEF Steady
  <2> QED
    BY <2>1, <2>2
<1>10. UnderWay({"switch", "create"})' = UnderWay({"switch", "create"})
  BY <1>1, <1>2, <1>5, <1>7 DEF UnderWay
<1>11. ShowsActive'
  BY <1>2, <1>9 DEF WindowInv, ShowsActive
<1>12. FetchedOnce'
  BY <1>1, <1>2, <1>5, <1>7 DEF WindowInv, FetchedOnce, ListFetch
<1>13. TasksOK'
  <2> SUFFICES ASSUME NEW o \in Handlers, work'[o] # None
               PROVE  TaskOK(work[o])'
    BY DEF TasksOK
  <2>1. CASE o = h
    BY <1>2, <1>3, <1>4, <1>5, <1>7, <1>9, <2>1, WindowAssumption DEF TaskOK, ListFetch, Trusted
  <2>2. CASE o # h
    <3>1. TaskOK(work[o]) /\ work'[o] = work[o]
      BY <1>7, <2>2, ShapedTask
    <3>2. work[o].call = "act" /\ work[o].calm /\ ~undone' => active' = active /\ ~undone
      <4>1. work[o].call = "act" /\ work[o].calm => t.call \notin {"switch", "create"}
        BY <1>1, <1>2, <3>1 DEF TaskOK, UnderWay
      <4> QED
        BY <1>2, <4>1
    <3> QED
      BY <1>2, <1>9, <1>10, <3>1, <3>2 DEF TaskOK, ListFetch, Trusted
  <2> QED
    BY <2>1, <2>2
<1> QED
  BY <1>7, <1>8, <1>11, <1>12, <1>13 DEF WindowInv

\* The session arrives in the window, or the answer is dropped.
LEMMA SessionArrivesOK ==
  ASSUME WindowInv, NEW h \in Handlers, SessionArrives(h)
  PROVE  WindowInv'
<1>1. PICK t : t = work[h]
  OBVIOUS
<1>2. /\ t # None /\ t.step = "reply" /\ t.query = "session"
      /\ t.heard => /\ shown' = t.place /\ stale' = stale \ {"session"}
                    /\ asked' = IF shown = None THEN asked \cup Lists ELSE asked
      /\ ~t.heard => UNCHANGED <<shown, stale, asked>>
      /\ work' = [work EXCEPT ![h] = None]
      /\ UNCHANGED <<active, existing, cached, undone>>
  BY <1>1 DEF SessionArrives, At, Finish, Continue
<1>3. t \in WindowTask /\ Shape(t) /\ TaskOK(t)
  BY <1>1, <1>2, ShapedTask
<1>4. t.call = "fetch" /\ t.place \in Spaces
  BY <1>2, <1>3, WindowAssumption DEF Shape, WindowTask, Queries
<1>5. /\ WorkIn(Shaped)' /\ work'[h] = None
      /\ \A o \in Handlers \ {h} : work'[o] = work[o]
  BY <1>2 DEF WindowInv, WorkIn
<1>6. /\ UnderWay({"switch", "create"})' = UnderWay({"switch", "create"})
      /\ Unheard' = Unheard /\ (Steady' <=> Steady)
  <2>1. UnderWay({"switch", "create"})' = UnderWay({"switch", "create"})
    BY <1>1, <1>4, <1>5 DEF UnderWay
  <2>2. Unheard' = Unheard
    BY <1>1, <1>4, <1>5, <2>1 DEF Unheard, UnderWay
  <2> QED
    BY <1>2, <2>1, <2>2 DEF Steady
<1>7. /\ shown # None => shown' # None
      /\ t.heard => shown' # None
      /\ shown' \in Spaces \cup {None} /\ stale' \subseteq stale /\ asked' \subseteq Queries
      /\ shown = None => t.heard
      /\ shown' = None => asked' = asked /\ shown = None
  BY <1>2, <1>3, <1>4, WindowAssumption DEF TaskOK, WindowInv, WindowTypeOK, Queries
<1>8. WindowTypeOK' /\ AskedFirst'
  BY <1>2, <1>7 DEF WindowInv, WindowTypeOK, AskedFirst
<1>9. FetchedOnce'
  BY <1>5 DEF WindowInv, FetchedOnce
<1>10. ShowsActive'
  <2> SUFFICES ASSUME Steady
               PROVE  /\ shown' # None /\ "session" \notin stale' => shown' = active
                      /\ \A q \in Lists : cached[q] # None /\ q \notin stale' => cached[q] = active
    BY <1>2, <1>6 DEF ShowsActive
  <2>1. \A q \in Lists : q \notin stale' => q \notin stale
    BY <1>2, WindowAssumption
  <2>2. t.heard => shown' = active
    BY <1>2, <1>3, <1>4 DEF TaskOK, Trusted
  <2> QED
    BY <1>2, <2>1, <2>2 DEF WindowInv, ShowsActive
<1>11. TasksOK'
  <2> SUFFICES ASSUME NEW o \in Handlers, work'[o] # None
               PROVE  TaskOK(work[o])'
    BY DEF TasksOK
  <2>1. work'[o] = work[o] /\ TaskOK(work[o]) /\ Shape(work[o])
    BY <1>5, ShapedTask
  <2>2. ListFetch(work[o]) => shown # None
    BY <2>1, WindowAssumption DEF TaskOK, ListFetch
  <2>3. ListFetch(work[o]) => work[o].query \notin asked' /\ (work[o].old => work[o].query \in stale')
    <3>1. ListFetch(work[o]) => asked' = asked /\ work[o].query # "session"
      BY <1>2, <2>2, WindowAssumption DEF ListFetch
    <3> QED
      BY <1>2, <2>1, <3>1 DEF TaskOK
  <2>4. shown' = None => shown = None
    BY <1>7
  <2> QED
    BY <1>2, <1>6, <2>1, <2>3, <2>4 DEF TaskOK, ListFetch, Trusted
<1> QED
  BY <1>5, <1>8, <1>9, <1>10, <1>11 DEF WindowInv

\* The rows of a list arrive; if they are old the list stays marked.
LEMMA ListArrivesOK ==
  ASSUME WindowInv, NEW h \in Handlers, ListArrives(h)
  PROVE  WindowInv'
<1>1. PICK t, q : t = work[h] /\ q = t.query
  OBVIOUS
<1>2. /\ t # None /\ t.step = "reply" /\ t.call = "fetch" /\ q \in Lists
      /\ cached' = [cached EXCEPT ![q] = t.place]
      /\ stale' = IF t.old THEN stale ELSE stale \ {q}
      /\ work' = [work EXCEPT ![h] = None]
      /\ UNCHANGED <<active, existing, shown, asked, undone>>
  BY <1>1 DEF ListArrives, At, Finish, Continue
<1>3. t \in WindowTask /\ Shape(t) /\ TaskOK(t) /\ t.place \in Spaces
  <2>1. t \in WindowTask /\ Shape(t) /\ TaskOK(t)
    BY <1>1, <1>2, ShapedTask
  <2> QED
    BY <1>2, <2>1 DEF Shape
<1>4. /\ WorkIn(Shaped)' /\ work'[h] = None
      /\ \A o \in Handlers \ {h} : work'[o] = work[o]
  BY <1>2 DEF WindowInv, WorkIn
<1>5. /\ UnderWay({"switch", "create"})' = UnderWay({"switch", "create"})
      /\ Unheard' = Unheard /\ (Steady' <=> Steady)
  <2>1. UnderWay({"switch", "create"})' = UnderWay({"switch", "create"})
    BY <1>1, <1>2, <1>4 DEF UnderWay
  <2>2. Unheard' = Unheard
    BY <1>1, <1>2, <1>4, <2>1 DEF Unheard, UnderWay
  <2> QED
    BY <1>2, <2>1, <2>2 DEF Steady
<1>6. /\ cached' \in [Lists -> Spaces \cup {None}] /\ cached'[q] = t.place /\ t.place # None
      /\ \A r \in Lists \ {q} : cached'[r] = cached[r]
  BY <1>2, <1>3, WindowAssumption DEF WindowInv, WindowTypeOK
<1>7. WindowTypeOK' /\ AskedFirst'
  BY <1>2, <1>6 DEF WindowInv, WindowTypeOK, AskedFirst
<1>8. FetchedOnce'
  BY <1>4 DEF WindowInv, FetchedOnce
<1>9. t.old => q \in stale
  BY <1>1, <1>2, <1>3 DEF TaskOK, ListFetch
<1>10. ShowsActive'
  <2> SUFFICES ASSUME Steady
               PROVE  /\ shown # None /\ "session" \notin stale' => shown = active
                      /\ \A r \in Lists : cached'[r] # None /\ r \notin stale' => cached'[r] = active
    BY <1>2, <1>5 DEF ShowsActive
  <2>1. "session" \in stale => "session" \in stale'
    BY <1>2, WindowAssumption
  <2>2. ASSUME NEW r \in Lists, cached'[r] # None, r \notin stale'
        PROVE  cached'[r] = active
    <3>1. CASE r = q
      <4>1. ~t.old
        BY <1>2, <1>9, <2>2, <3>1
      <4>2. t.query # "session"
        BY <1>1, <1>2, WindowAssumption
      <4> QED
        BY <1>2, <1>3, <1>6, <3>1, <4>1, <4>2 DEF TaskOK, Trusted
    <3>2. CASE r # q
      BY <1>2, <1>6, <2>2, <3>2 DEF WindowInv, ShowsActive
    <3> QED
      BY <3>1, <3>2
  <2> QED
    BY <2>1, <2>2 DEF WindowInv, ShowsActive
<1>11. TasksOK'
  <2> SUFFICES ASSUME NEW o \in Handlers, work'[o] # None
               PROVE  TaskOK(work[o])'
    BY DEF TasksOK
  <2>1. o # h /\ work'[o] = work[o] /\ TaskOK(work[o]) /\ Shape(work[o])
    BY <1>4, ShapedTask
  <2>2. ListFetch(work[o]) => work[o].query # q
    BY <1>1, <1>2, <2>1 DEF WindowInv, FetchedOnce, ListFetch
  <2>3. ListFetch(work[o]) /\ work[o].old => work[o].query \in stale'
    BY <1>2, <2>1, <2>2 DEF TaskOK
  <2>4. work[o].call = "act" => cached'[work[o].query] # None
    BY <1>6, <2>1 DEF TaskOK, Shape
  <2> QED
    BY <1>2, <1>5, <2>1, <2>3, <2>4 DEF TaskOK, ListFetch, Trusted
<1> QED
  BY <1>4, <1>7, <1>8, <1>10, <1>11 DEF WindowInv

\* An answer about the workspace is presented: what is under way is dropped, or known to be old.
LEMMA ChangeDoneOK ==
  ASSUME WindowInv, NEW h \in Handlers, ChangeDone(h)
  PROVE  WindowInv'
<1>1. PICK t : t = work[h]
  OBVIOUS
<1>2. /\ t # None /\ t.step = "reply" /\ t.call \in {"switch", "create", "settings", "archive"}
      /\ shown' = Presented(t) /\ stale' = stale \cup Queries
      /\ AskAgain(Queries)
      /\ work' = [o \in Handlers |->
                    IF o = h \/ work[o] = None THEN None ELSE Cancelled(work[o], Queries)]
      /\ UNCHANGED <<active, existing, cached, undone>>
  BY <1>1 DEF ChangeDone, At, Refetch, Invalidated
<1>3. t \in WindowTask /\ Shape(t) /\ TaskOK(t)
  BY <1>1, <1>2, ShapedTask
<1>4. /\ shown # None /\ shown' \in Spaces /\ shown' # None
      /\ stale' = Queries
  <2>1. shown # None
    BY <1>2, <1>3 DEF TaskOK
  <2>2. Presented(t) \in Spaces
    BY <1>2, <1>3 DEF Shape, Presented
  <2>3. stale \subseteq Queries
    BY DEF WindowInv, WindowTypeOK
  <2> QED
    BY <1>2, <2>1, <2>2, <2>3, WindowAssumption
<1>5. ASSUME NEW o \in Handlers, work'[o] # None
      PROVE  /\ o # h /\ work[o] # None /\ work'[o] \in Shaped
             /\ work'[o].call = work[o].call /\ work'[o].query = work[o].query
             /\ work'[o].step = work[o].step
             /\ work[o].call # "fetch" => work'[o] = work[o]
             /\ ListFetch(work[o]) => /\ ~Loaded(work[o].query)
                                      /\ work'[o].old = (work[o].step = "reply")
             /\ work[o].call = "fetch" /\ work[o].query = "session" => ~work'[o].heard
  <2>1. o # h /\ work[o] # None /\ work'[o] = Cancelled(work[o], Queries)
    BY <1>2, <1>5
  <2>2. PICK u : u = work[o]
    OBVIOUS
  <2>3. u \in WindowTask /\ Shape(u) /\ u \in Shaped
    BY <2>1, <2>2, ShapedTask
  <2>4. CASE u.call # "fetch"
    <3>1. work'[o] = u
      BY <2>1, <2>2, <2>4 DEF Cancelled
    <3> QED
      BY <2>1, <2>2, <2>3, <2>4, <3>1 DEF ListFetch
  <2>5. CASE u.call = "fetch" /\ u.query = "session"
    <3>1. PICK next : next = [u EXCEPT !.heard = FALSE]
      OBVIOUS
    <3>2. work'[o] = next
      BY <1>4, <2>1, <2>2, <2>5, <3>1 DEF Cancelled, Loaded, Queries
    <3>3. /\ next \in WindowTask /\ next.call = u.call /\ next.query = u.query
          /\ next.step = u.step /\ next.place = u.place /\ ~next.heard
      BY <2>3, <3>1 DEF WindowTask
    <3>4. next \in Shaped
      BY <2>3, <2>5, <3>3, WindowAssumption DEF Shaped, Shape
    <3> QED
      BY <2>1, <2>2, <2>5, <3>2, <3>3, <3>4, WindowAssumption DEF ListFetch
  <2>6. CASE u.call = "fetch" /\ u.query # "session"
    <3>1. u.query \in Lists /\ u.query \in Queries
      BY <2>3, <2>6 DEF Shape, Queries
    <3>2. ~Loaded(u.query)
      BY <1>5, <2>1, <2>2, <2>6, <3>1 DEF Cancelled
    <3>3. PICK old, next : old = (u.step = "reply") /\ next = [u EXCEPT !.old = old]
      OBVIOUS
    <3>4. work'[o] = next
      BY <2>1, <2>2, <2>6, <3>1, <3>2, <3>3 DEF Cancelled
    <3>5. /\ next \in WindowTask /\ next.call = u.call /\ next.query = u.query
          /\ next.step = u.step /\ next.place = u.place /\ next.heard = u.heard
          /\ next.old = old
      BY <2>3, <3>3 DEF WindowTask
    <3>6. next \in Shaped
      BY <2>3, <2>6, <3>5 DEF Shaped, Shape
    <3> QED
      BY <2>1, <2>2, <2>6, <3>2, <3>3, <3>4, <3>5, <3>6
  <2> QED
    BY <2>4, <2>5, <2>6
<1>6. WorkIn(Shaped)'
  BY <1>2, <1>5 DEF WorkIn
<1>7. asked' = asked \cup {q \in Queries : Loaded(q) \/ Fetching(q) = {}}
  BY <1>2 DEF AskAgain
<1>8. WindowTypeOK' /\ AskedFirst'
  BY <1>2, <1>4, <1>7 DEF WindowInv, WindowTypeOK, AskedFirst
<1>9. ShowsActive'
  BY <1>4 DEF ShowsActive, Queries
<1>10. FetchedOnce'
  BY <1>5 DEF WindowInv, FetchedOnce, ListFetch
<1>11. TasksOK'
  <2> SUFFICES ASSUME NEW o \in Handlers, work'[o] # None
               PROVE  TaskOK(work[o])'
    BY DEF TasksOK
  <2>1. TaskOK(work[o]) /\ Shape(work[o])
    BY <1>5, ShapedTask
  <2>2. ListFetch(work[o]) => work[o].query \notin asked'
    <3> SUFFICES ASSUME ListFetch(work[o]) PROVE work[o].query \notin asked'
      OBVIOUS
    <3>1. work[o].heard /\ work[o].call = "fetch"
      BY <2>1 DEF ListFetch, Shape
    <3>2. o \in Fetching(work[o].query)
      BY <1>5, <3>1 DEF Fetching, UnderWay
    <3> QED
      BY <1>5, <1>7, <2>1, <3>2 DEF TaskOK
  <2>3. ~Trusted(work'[o])
    <3>1. CASE work[o].call # "fetch"
      BY <1>5, <3>1 DEF Trusted
    <3>2. CASE work[o].call = "fetch" /\ work[o].query = "session"
      BY <1>5, <3>2 DEF Trusted
    <3>3. CASE work[o].call = "fetch" /\ work[o].query # "session"
      <4>1. work[o].query \in Lists
        BY <2>1, <3>3 DEF Shape, Queries
      <4>2. work[o].step # "path" => work[o].step = "reply"
        BY <2>1, <3>3, <4>1 DEF Shape
      <4> QED
        BY <1>5, <3>3, <4>1, <4>2 DEF Trusted, ListFetch
    <3> QED
      BY <3>1, <3>2, <3>3
  <2>4. UnderWay({"switch", "create"})' \subseteq UnderWay({"switch", "create"})
    BY <1>5 DEF UnderWay
  <2>5. work'[o].call = "act" =>
          work'[o] = work[o] /\ cached'[work'[o].query] # None
    BY <1>2, <1>5, <2>1 DEF TaskOK
  <2>6. work'[o].call = "act" /\ work'[o].calm =>
          /\ UnderWay({"switch", "create"})' = {}
          /\ ~undone' => /\ work'[o].from = active' /\ work'[o].seen = active'
                         /\ work'[o].step = "reply" => work'[o].place = active'
    BY <1>2, <2>1, <2>4, <2>5 DEF TaskOK
  <2>7. ListFetch(work'[o]) =>
          work'[o].query \notin asked' /\ (work'[o].old => work'[o].query \in stale')
    BY <1>4, <1>5, <2>2 DEF ListFetch, Queries
  <2> QED
    BY <1>4, <2>3, <2>5, <2>6, <2>7 DEF TaskOK, ListFetch, Trusted
<1> QED
  BY <1>6, <1>8, <1>9, <1>10, <1>11 DEF WindowInv

\* The list of the item is fetched again; it is loaded, so a fetch under way is dropped.
LEMMA ActedOK ==
  ASSUME WindowInv, NEW h \in Handlers, Acted(h)
  PROVE  WindowInv'
<1>1. PICK t, q : t = work[h] /\ q = t.query
  OBVIOUS
<1>2. /\ t # None /\ t.call = "act"
      /\ AskAgain({q})
      /\ work' = [o \in Handlers |->
                    IF o = h \/ work[o] = None THEN None ELSE Cancelled(work[o], {q})]
      /\ UNCHANGED <<active, existing, shown, cached, stale, undone>>
  BY <1>1 DEF Acted, At, Refetch
<1>3. Shape(t) /\ TaskOK(t)
  BY <1>1, <1>2, ShapedTask
<1>4. q \in Lists /\ Loaded(q) /\ shown # None /\ q # "session"
  BY <1>1, <1>2, <1>3, WindowAssumption DEF Shape, TaskOK, Loaded
<1>5. asked' = asked \cup {q}
  BY <1>2, <1>4 DEF AskAgain
<1>6. ASSUME NEW o \in Handlers, work'[o] # None
      PROVE  /\ o # h /\ work[o] # None /\ work'[o] = work[o]
             /\ ListFetch(work[o]) => work[o].query # q
  BY <1>2, <1>4, <1>6 DEF Cancelled, ListFetch
<1>7. WorkIn(Shaped)'
  <2>1. \A o \in Handlers : work'[o] = None \/ work'[o] = work[o]
    BY <1>6
  <2> QED
    BY <1>2, <2>1 DEF WindowInv, WorkIn
<1>8. WindowTypeOK' /\ AskedFirst' /\ FetchedOnce'
  BY <1>2, <1>4, <1>5, <1>6 DEF WindowInv, WindowTypeOK, AskedFirst, FetchedOnce, Queries
<1>9. ASSUME NEW o \in Handlers, work[o] # None, work[o].call \in {"switch", "create"}
      PROVE  work'[o] = work[o]
  BY <1>1, <1>2, <1>9 DEF Cancelled
<1>10. /\ UnderWay({"switch", "create"})' = UnderWay({"switch", "create"})
       /\ Unheard' = Unheard /\ (Steady' <=> Steady)
  <2>1. UnderWay({"switch", "create"})' = UnderWay({"switch", "create"})
    BY <1>6, <1>9 DEF UnderWay
  <2>2. Unheard' = Unheard
    BY <1>9, <2>1 DEF Unheard, UnderWay
  <2> QED
    BY <1>2, <2>1, <2>2 DEF Steady
<1>11. ShowsActive'
  BY <1>2, <1>10 DEF WindowInv, ShowsActive
<1>12. TasksOK'
  <2> SUFFICES ASSUME NEW o \in Handlers, work'[o] # None
               PROVE  TaskOK(work[o])'
    BY DEF TasksOK
  <2>1. work'[o] = work[o] /\ TaskOK(work[o]) /\ (ListFetch(work[o]) => work[o].query # q)
    BY <1>6, ShapedTask
  <2> QED
    BY <1>2, <1>5, <1>10, <2>1 DEF TaskOK, ListFetch, Trusted
<1> QED
  BY <1>7, <1>8, <1>11, <1>12 DEF WindowInv

\* Every step of the window keeps the invariant.
LEMMA WindowStepOK == WindowInv /\ [WindowNext]_<<work, windowVars>> => WindowInv'
<1> SUFFICES ASSUME WindowInv, [WindowNext]_<<work, windowVars>> PROVE WindowInv'
  OBVIOUS
<1>1. CASE UNCHANGED <<work, windowVars>>
  <2>1. UNCHANGED <<work, active, existing, shown, cached, asked, stale, undone>>
    BY <1>1 DEF windowVars
  <2>2. WorkIn(Shaped)' /\ WindowTypeOK' /\ FetchedOnce' /\ AskedFirst'
    BY <2>1 DEF WindowInv, WorkIn, WindowTypeOK, FetchedOnce, AskedFirst
  <2>3. (Steady' <=> Steady) /\ UnderWay({"switch", "create"})' = UnderWay({"switch", "create"})
    BY <2>1 DEF Steady, Unheard, UnderWay
  <2>4. ShowsActive'
    BY <2>1, <2>3 DEF WindowInv, ShowsActive
  <2>5. TasksOK'
    BY <2>1, <2>3 DEF WindowInv, TasksOK, TaskOK, ListFetch, Trusted
  <2> QED
    BY <2>2, <2>4, <2>5 DEF WindowInv
<1> QED
  BY <1>1, PollOK, BeginFetchOK, PressOK, BeginChangeOK, CreateOK, ReadPathOK, LoadToMergeOK,
     SaveOK, SessionArrivesOK, ListArrivesOK, ChangeDoneOK, ActedOK, NextOfBatchOK,
     WindowCallFailsOK
  DEF WindowNext

\* The rows of the cache, session.json and the calls under way have their types.
THEOREM WindowIsTyped == WindowSpec => [](WindowTypeOK /\ WorkIn(WindowTask))
<1>1. WindowInv => WindowTypeOK /\ WorkIn(WindowTask)
  BY DEF WindowInv, WorkIn, Shaped
<1> QED
  BY <1>1, WindowInitOK, WindowStepOK, PTL DEF WindowSpec

\* However many fetches, switches, creations and saves are under way together, a call for an
\* item is made in the workspace that the item is of and that the window showed, when the
\* window was at rest as it was pressed, up to a save that undid a change of the workspace.
THEOREM CallsGoWhereShown == WindowSpec => []ActsWhereShown
<1>1. WindowInv => ActsWhereShown
  <2> SUFFICES ASSUME WindowInv, NEW h \in Handlers, At(h, "reply"), work[h].call = "act",
                      work[h].calm, ~undone
               PROVE  work[h].place = work[h].from /\ work[h].place = work[h].seen
    BY DEF ActsWhereShown
  <2>1. TaskOK(work[h])
    BY ShapedTask DEF At
  <2> QED
    BY <2>1 DEF TaskOK, At
<1> QED
  BY <1>1, WindowInitOK, WindowStepOK, PTL DEF WindowSpec

-----------------------------------------------------------------------------
(* The session of a desktop and its files                                  *)

DesktopSpec == NoWork /\ DesktopInit /\ [][DesktopNext]_<<work, desktopVars>>

\* the steps each call takes, and whether it has a session
CallShape(t) ==
  CASE t.call = "sign in"  -> /\ t.step \in {"mint", "open key", "write key", "open session",
                                             "write session"}
                              /\ t.step # "mint" => t.session \in SavedSession
    [] t.call = "switch"   -> t.step \in {"open session", "write session"} /\ t.session \in SavedSession
    [] t.call = "refresh"  -> /\ t.step \in {"load", "read key", "fetch", "open session",
                                             "write session", "expire key", "expire session"}
                              /\ t.session \in SavedSession /\ t.place = None
    [] t.call = "request"  -> t.step \in {"load", "read key", "fetch", "expire key", "expire session"}
    [] t.call = "sign out" -> /\ t.step \in {"load", "read key", "fetch", "expire key",
                                             "expire session", "clear key", "clear session"}
                              /\ t.step \notin {"clear key", "clear session"} => t.session \in SavedSession

\* the files before a call's first write
BeforeWrites(t) ==
  \/ t.step \in {"mint", "open key", "load", "read key", "fetch", "expire key"}
  \/ t.step = "open session" /\ t.call \in {"switch", "refresh"}

\* what the two files hold of the user's choice
FilesAsChosen ==
  IF choice = None
  THEN SignedOut
  ELSE \/ SignedInAs(choice.profile) /\ sessionFile.active = choice.active
       \/ withdrawn /\ (SignedOut \/ SignedInAs(choice.profile))

Ended == choice # None /\ withdrawn

\* nothing disputes the choice but, perhaps, h
Undisputed(h) == ~disputed /\ wrote \subseteq {h}

\* what a call that no other has touched knows of the files
CallKnows(h, t) ==
  /\ t.call = "sign in" /\ t.step \in {"open session", "write session"} => keyFile = t.session.profile
  /\ t.call = "sign out" /\ t.step = "clear session" => keyFile = None
  /\ t.call \in {"switch", "refresh"} /\ t.step = "open session" =>
       Stored /\ sessionFile.profile = t.session.profile
  /\ t.call = "switch" /\ t.step = "write session" /\ Undisputed(h) => keyFile = t.session.profile
  /\ t.call \in {"refresh", "request"} /\ t.step \in {"load", "read key", "fetch"} =>
       /\ Stored
       /\ t.call = "refresh" => t.session = sessionFile
       /\ t.place \in {None, sessionFile.active}
       /\ t.step # "load" => t.signer = sessionFile.profile
       /\ t.step = "fetch" => t.key = keyFile
  /\ t.call = "refresh" /\ t.step = "open session" /\ Undisputed(h) =>
       t.session.active = choice.active \/ withdrawn
  /\ t.call = "refresh" /\ t.step = "write session" /\ Undisputed(h) =>
       /\ choice # None /\ keyFile = choice.profile /\ t.session.profile = choice.profile
       /\ t.session.active = choice.active \/ withdrawn
  /\ t.call # "sign out" /\ t.step \in {"expire key", "expire session"} /\ Undisputed(h) => Ended
  /\ t.step = "expire session" => keyFile = None

CallsOK ==
  \A h \in Handlers :
    /\ work[h] = None => h \notin wrote \cup touched
    /\ \A t \in CallTask : work[h] = t =>
         /\ CallShape(t)
         /\ BeforeWrites(t) => h \notin wrote
         /\ h \notin touched => CallKnows(h, t)

WithdrawnKnown ==
  choice # None /\ (choice.profile \notin live \/ choice.active \notin allowed) => withdrawn

DesktopInv ==
  /\ DesktopTypeOK /\ WorkIn(CallTask) /\ CallsOK /\ WithdrawnKnown
  /\ ~disputed /\ wrote = {} => FilesAsChosen

\* What is known of a call under way.
LEMMA CallIsKnown == ASSUME DesktopInv, NEW h \in Handlers, work[h] # None
  PROVE  /\ work[h] \in CallTask /\ CallShape(work[h]) /\ (BeforeWrites(work[h]) => h \notin wrote)
         /\ h \notin touched => CallKnows(h, work[h])
BY DEF DesktopInv, CallsOK, WorkIn

\* The task of h is u, those of the others stay.
LEMMA OnlyCall ==
  ASSUME DesktopInv, NEW h \in Handlers, NEW u \in CallTask \cup {None},
         work' = [work EXCEPT ![h] = u]
  PROVE  /\ work'[h] = u /\ (\A o \in Handlers \ {h} : work'[o] = work[o]) /\ WorkIn(CallTask)'
BY DEF DesktopInv, WorkIn

\* What another call knows remains true when nothing of the files and the choice changes.
LEMMA KnowsStill ==
  ASSUME NEW o \in Handlers, NEW v \in CallTask, CallKnows(o, v),
         UNCHANGED <<keyFile, sessionFile, choice>>, withdrawn => withdrawn',
         Undisputed(o)' => Undisputed(o)
  PROVE  CallKnows(o, v)'
BY DEF CallKnows, Stored, Ended

\* A call begins, goes on or ends without a write: the files and the choice stay.
LEMMA CallQuiet ==
  ASSUME DesktopInv, NEW h \in Handlers, NEW u \in CallTask \cup {None},
         work' = [work EXCEPT ![h] = u], DesktopTypeOK', WithdrawnKnown',
         UNCHANGED <<keyFile, sessionFile, choice>>, withdrawn => withdrawn',
         ~disputed' => ~disputed /\ (u = None => h \notin wrote),
         wrote' = IF u = None THEN wrote \ {h} ELSE wrote,
         touched' = IF u = None THEN touched \ {h} ELSE touched,
         u # None => /\ CallShape(u) /\ (BeforeWrites(u) => h \notin wrote)
                     /\ h \notin touched => CallKnows(h, u)'
  PROVE  DesktopInv'
<1>1. /\ work'[h] = u /\ (\A o \in Handlers \ {h} : work'[o] = work[o]) /\ WorkIn(CallTask)'
  BY OnlyCall
<1>2. CallsOK'
  <2>1. ASSUME NEW o \in Handlers, work'[o] = None PROVE o \notin wrote' \cup touched'
    BY <1>1, <2>1 DEF DesktopInv, CallsOK
  <2>2. ASSUME NEW o \in Handlers, NEW v \in CallTask, work'[o] = v
        PROVE  /\ CallShape(v)
               /\ BeforeWrites(v) => o \notin wrote'
               /\ o \notin touched' => CallKnows(o, v)'
    <3>1. CASE o = h
      BY <1>1, <2>2, <3>1, DesktopAssumption
    <3>2. CASE o # h
      <4>1. v = work[o] /\ v # None
        BY <1>1, <2>2, <3>2, DesktopAssumption
      <4>2. /\ CallShape(v) /\ (BeforeWrites(v) => o \notin wrote)
            /\ o \notin touched => CallKnows(o, v)
        BY <4>1, CallIsKnown
      <4>3. (o \notin touched' => o \notin touched) /\ (Undisputed(o)' => Undisputed(o))
        BY <3>2 DEF Undisputed
      <4>4. o \notin touched' => CallKnows(o, v)'
        BY <4>2, <4>3, KnowsStill
      <4> QED
        BY <4>2, <4>4
    <3> QED
      BY <3>1, <3>2
  <2> QED
    BY <2>1, <2>2 DEF CallsOK, CallShape, BeforeWrites
<1>3. ~disputed' /\ wrote' = {} => FilesAsChosen'
  BY DEF DesktopInv, FilesAsChosen, SignedOut, SignedInAs, Stored
<1> QED
  BY <1>1, <1>2, <1>3 DEF DesktopInv

\* A call writes a file and goes on: it has touched all others under way.
LEMMA CallWrites ==
  ASSUME DesktopInv, NEW h \in Handlers, NEW u \in CallTask, WritesOn(h),
         work' = [work EXCEPT ![h] = u], UNCHANGED serverVars,
         keyFile' \in Profiles \cup {None}, sessionFile' \in SavedSession \cup {None, Torn},
         CallShape(u), ~BeforeWrites(u), h \notin touched => CallKnows(h, u)'
  PROVE  DesktopInv'
<1>1. /\ work'[h] = u /\ (\A o \in Handlers \ {h} : work'[o] = work[o]) /\ WorkIn(CallTask)'
  BY OnlyCall
<1>2. /\ wrote' = wrote \cup {h} /\ UNCHANGED <<choice, withdrawn, live, minted, allowed>>
      /\ touched' = touched \cup {o \in Handlers \ {h} : work[o] # None}
      /\ disputed' = (disputed \/ h \in touched)
  BY DEF WritesOn, Written, Idle, serverVars
<1>3. DesktopTypeOK' /\ WithdrawnKnown' /\ wrote' # {}
  BY <1>2 DEF DesktopInv, DesktopTypeOK, WithdrawnKnown
<1>4. CallsOK'
  <2>1. ASSUME NEW o \in Handlers, work'[o] = None PROVE o \notin wrote' \cup touched'
    BY <1>1, <1>2, <2>1, DesktopAssumption DEF DesktopInv, CallsOK
  <2>2. ASSUME NEW o \in Handlers, NEW v \in CallTask, work'[o] = v
        PROVE  /\ CallShape(v)
               /\ BeforeWrites(v) => o \notin wrote'
               /\ o \notin touched' => CallKnows(o, v)'
    <3>1. CASE o = h
      BY <1>1, <1>2, <2>2, <3>1
    <3>2. CASE o # h
      <4>1. v = work[o] /\ v # None
        BY <1>1, <2>2, <3>2, DesktopAssumption
      <4>2. CallShape(v) /\ (BeforeWrites(v) => o \notin wrote)
        BY <4>1, CallIsKnown
      <4>3. (o \in wrote' => o \in wrote) /\ o \in touched'
        BY <1>2, <3>2, <4>1
      <4> QED
        BY <4>2, <4>3
    <3> QED
      BY <3>1, <3>2
  <2> QED
    BY <2>1, <2>2 DEF CallsOK, CallShape, BeforeWrites
<1> QED
  BY <1>1, <1>3, <1>4 DEF DesktopInv

\* A call ends with a write: it has touched all others under way.
LEMMA CallEndsWriting ==
  ASSUME DesktopInv, NEW h \in Handlers, Written(h, TRUE), Finish(h), UNCHANGED serverVars,
         keyFile' \in Profiles \cup {None}, sessionFile' \in SavedSession \cup {None, Torn},
         choice' \in [profile : Profiles, active : Places] \cup {None},
         withdrawn' \in BOOLEAN, disputed' \in BOOLEAN, WithdrawnKnown',
         ~disputed' /\ wrote' = {} => FilesAsChosen'
  PROVE  DesktopInv'
<1>1. /\ work'[h] = None /\ (\A o \in Handlers \ {h} : work'[o] = work[o]) /\ WorkIn(CallTask)'
  BY OnlyCall DEF Finish, Continue
<1>2. /\ wrote' = wrote \ {h}
      /\ touched' = (touched \cup {o \in Handlers \ {h} : work[o] # None}) \ {h}
  BY DEF Written, Idle
<1>3. DesktopTypeOK'
  BY <1>2 DEF DesktopInv, DesktopTypeOK, serverVars
<1>4. CallsOK'
  <2>1. ASSUME NEW o \in Handlers, work'[o] = None PROVE o \notin wrote' \cup touched'
    BY <1>1, <1>2, <2>1 DEF DesktopInv, CallsOK
  <2>2. ASSUME NEW o \in Handlers, NEW v \in CallTask, work'[o] = v
        PROVE  /\ CallShape(v)
               /\ BeforeWrites(v) => o \notin wrote'
               /\ o \notin touched' => CallKnows(o, v)'
    <3>1. v = work[o] /\ v # None /\ o # h
      BY <1>1, <2>2, DesktopAssumption
    <3>2. CallShape(v) /\ (BeforeWrites(v) => o \notin wrote)
      BY <3>1, CallIsKnown
    <3>3. (o \in wrote' => o \in wrote) /\ o \in touched'
      BY <1>2, <3>1
    <3> QED
      BY <3>2, <3>3
  <2> QED
    BY <2>1, <2>2 DEF CallsOK, CallShape, BeforeWrites
<1> QED
  BY <1>1, <1>3, <1>4 DEF DesktopInv

\* The server moves; what it takes from the choice is known.
LEMMA ServerMoves ==
  ASSUME DesktopInv, DesktopTypeOK', WithdrawnKnown', withdrawn => withdrawn',
         UNCHANGED <<work, keyFile, sessionFile, choice, wrote, touched, disputed>>
  PROVE  DesktopInv'
<1>1. WorkIn(CallTask)'
  BY DEF DesktopInv, WorkIn
<1>2. CallsOK'
  <2>1. ASSUME NEW o \in Handlers, NEW v \in CallTask, work[o] = v
        PROVE  /\ CallShape(v)
               /\ BeforeWrites(v) => o \notin wrote
               /\ o \notin touched => CallKnows(o, v)'
    BY <2>1, CallIsKnown, KnowsStill, DesktopAssumption DEF Undisputed
  <2> QED
    BY <2>1 DEF DesktopInv, CallsOK, CallShape, BeforeWrites
<1>3. ~disputed' /\ wrote' = {} => FilesAsChosen'
  BY DEF DesktopInv, FilesAsChosen, SignedOut, SignedInAs, Stored
<1> QED
  BY <1>1, <1>2, <1>3 DEF DesktopInv

\* A session in the file is not None.
LEMMA SessionIsSome == ASSUME NEW s \in SavedSession PROVE s # None /\ s # Torn
BY DesktopAssumption

\* A choice is not None.
LEMMA ChoiceIsSome ==
  ASSUME NEW p \in Profiles, NEW w \in Places PROVE [profile |-> p, active |-> w] # None
BY DesktopAssumption

\* A call at a step.
LEMMA CallAt ==
  ASSUME DesktopInv, NEW h \in Handlers, NEW s, At(h, s)
  PROVE  \E t \in CallTask :
           /\ t = work[h] /\ t # None /\ t.step = s /\ CallShape(t)
           /\ BeforeWrites(t) => h \notin wrote
           /\ h \notin touched => CallKnows(h, t)
BY CallIsKnown DEF At

\* A handler without a call has written nothing and is not touched.
LEMMA IdleHandler ==
  ASSUME DesktopInv, NEW h \in Handlers, work[h] = None PROVE h \notin wrote \cup touched
BY DEF DesktopInv, CallsOK

\* A call begins.
LEMMA CallBegins ==
  ASSUME DesktopInv, NEW h \in Handlers, NEW u \in CallTask, Begin(h, u),
         UNCHANGED desktopVars, CallShape(u), CallKnows(h, u)
  PROVE  DesktopInv'
<1>1. h \notin wrote /\ u # None
  BY IdleHandler, DesktopAssumption DEF Begin
<1>2. CallKnows(h, u)'
  BY KnowsStill DEF Undisputed, desktopVars
<1>3. DesktopTypeOK' /\ WithdrawnKnown'
  BY DEF DesktopInv, DesktopTypeOK, WithdrawnKnown, desktopVars
<1> QED
  BY <1>1, <1>2, <1>3, CallQuiet DEF Begin, desktopVars

\* SignIn.
LEMMA SignInOK == ASSUME DesktopInv, NEW h \in Handlers, SignIn(h) PROVE DesktopInv'
<1>1. PICK u : u = Call("sign in", "mint", None, None)
  OBVIOUS
<1>2. u \in CallTask /\ u.call = "sign in" /\ u.step = "mint"
  BY <1>1, DesktopAssumption DEF Call, CallTask
<1>3. CallShape(u) /\ CallKnows(h, u)
  BY <1>2 DEF CallShape, CallKnows
<1> QED
  BY <1>1, <1>2, <1>3, CallBegins DEF SignIn

\* Switch.
LEMMA SwitchOK ==
  ASSUME DesktopInv, NEW h \in Handlers, NEW w \in Places, Switch(h, w) PROVE DesktopInv'
<1>1. PICK s : s = [sessionFile EXCEPT !.active = w]
  OBVIOUS
<1>1a. s \in SavedSession /\ s.profile = sessionFile.profile
  BY <1>1 DEF Switch, Stored, SavedSession
<1>2. PICK u : u = Call("switch", "open session", s, None)
  OBVIOUS
<1>3. u \in CallTask /\ u.call = "switch" /\ u.step = "open session" /\ u.session = s
  BY <1>1a, <1>2, DesktopAssumption DEF Call, CallTask
<1>4. CallShape(u) /\ CallKnows(h, u)
  BY <1>1a, <1>3 DEF CallShape, CallKnows, Switch
<1> QED
  BY <1>1, <1>2, <1>3, <1>4, CallBegins DEF Switch

\* SignOut.
LEMMA SignOutOK == ASSUME DesktopInv, NEW h \in Handlers, SignOut(h) PROVE DesktopInv'
<1>1. PICK u : u = IF Stored THEN Call("sign out", "load", sessionFile, None)
                   ELSE Call("sign out", "clear key", None, None)
  OBVIOUS
<1>2. /\ u \in CallTask /\ u.call = "sign out"
      /\ \/ u.step = "load" /\ u.session \in SavedSession
         \/ u.step = "clear key"
  BY <1>1, DesktopAssumption DEF Call, CallTask, Stored
<1>3. CallShape(u) /\ CallKnows(h, u)
  BY <1>2 DEF CallShape, CallKnows
<1> QED
  BY <1>1, <1>2, <1>3, CallBegins DEF SignOut

\* Refresh.
LEMMA RefreshOK == ASSUME DesktopInv, NEW h \in Handlers, Refresh(h) PROVE DesktopInv'
<1>1. PICK u : u = Call("refresh", "load", sessionFile, None)
  OBVIOUS
<1>2. /\ u \in CallTask /\ u.call = "refresh" /\ u.step = "load" /\ u.session = sessionFile
      /\ u.place = None
  BY <1>1, DesktopAssumption DEF Call, CallTask, Stored, Refresh
<1>3. CallShape(u) /\ CallKnows(h, u)
  BY <1>2 DEF CallShape, CallKnows, Refresh, Stored
<1> QED
  BY <1>1, <1>2, <1>3, CallBegins DEF Refresh

\* Request.
LEMMA RequestOK ==
  ASSUME DesktopInv, NEW h \in Handlers, NEW w \in Places \cup {None}, Request(h, w)
  PROVE  DesktopInv'
<1>1. PICK u : u = Call("request", "load", None, w)
  OBVIOUS
<1>2. u \in CallTask /\ u.call = "request" /\ u.step = "load" /\ u.place = w
  BY <1>1, DesktopAssumption DEF Call, CallTask
<1>3. CallShape(u) /\ CallKnows(h, u)
  BY <1>2 DEF CallShape, CallKnows, Request, Stored
<1> QED
  BY <1>1, <1>2, <1>3, CallBegins DEF Request

\* Mint.
LEMMA MintOK == ASSUME DesktopInv, NEW h \in Handlers, Mint(h) PROVE DesktopInv'
<1>1. PICK t \in CallTask : t = work[h] /\ t.step = "mint" /\ CallShape(t)
                           /\ (BeforeWrites(t) => h \notin wrote)
  BY CallAt DEF Mint
<1>2. NewProfile \in Profiles
  BY DEF Mint, NewProfile, DesktopInv, DesktopTypeOK
<1>3. PICK w \in allowed :
        Continue(h, Call("sign in", "open key",
                         [profile |-> NewProfile, active |-> w, known |-> allowed], None))
  BY DEF Mint
<1>4. PICK s : s = [profile |-> NewProfile, active |-> w, known |-> allowed]
  OBVIOUS
<1>4a. s \in SavedSession
  BY <1>2, <1>4 DEF SavedSession, DesktopInv, DesktopTypeOK
<1>5. PICK u : u = Call("sign in", "open key", s, None)
  OBVIOUS
<1>5a. u = [call |-> "sign in", step |-> "open key", session |-> s, place |-> None,
            signer |-> None, key |-> None]
  BY <1>5 DEF Call
<1>5b. u \in CallTask
  BY <1>4a, <1>5a DEF CallTask
<1>6. u \in CallTask /\ u # None /\ u.call = "sign in" /\ u.step = "open key" /\ u.session = s
  BY <1>5a, <1>5b, DesktopAssumption
<1>7. CallShape(u) /\ CallKnows(h, u)' /\ h \notin wrote
  BY <1>1, <1>4a, <1>6 DEF CallShape, CallKnows, BeforeWrites
<1>8. DesktopTypeOK' /\ WithdrawnKnown'
  BY <1>2 DEF DesktopInv, DesktopTypeOK, WithdrawnKnown, Mint, Undisturbed
<1>9. work' = [work EXCEPT ![h] = u]
  BY <1>3, <1>4, <1>5 DEF Continue
<1> QED
  BY <1>6, <1>7, <1>8, <1>9, CallQuiet DEF Mint, Undisturbed

\* OpenKeyFile.
LEMMA OpenKeyFileOK == ASSUME DesktopInv, NEW h \in Handlers, OpenKeyFile(h) PROVE DesktopInv'
<1>1. PICK t \in CallTask : t = work[h] /\ t.step = "open key" /\ CallShape(t)
  BY CallAt DEF OpenKeyFile
<1>2. PICK u : u = [t EXCEPT !.step = "write key"]
  OBVIOUS
<1>3. /\ u \in CallTask /\ u.step = "write key" /\ u.call = t.call /\ u.session = t.session
  BY <1>2, DesktopAssumption DEF CallTask
<1>4. CallShape(u) /\ ~BeforeWrites(u) /\ CallKnows(h, u)'
  BY <1>1, <1>3 DEF CallShape, CallKnows, BeforeWrites, CallTask
<1>5. /\ work' = [work EXCEPT ![h] = u] /\ keyFile' \in Profiles \cup {None}
      /\ sessionFile' \in SavedSession \cup {None, Torn}
  BY <1>1, <1>2 DEF OpenKeyFile, GoTo, Continue, DesktopInv, DesktopTypeOK
<1> QED
  BY <1>3, <1>4, <1>5, CallWrites DEF OpenKeyFile

\* WriteKey.
LEMMA WriteKeyOK == ASSUME DesktopInv, NEW h \in Handlers, WriteKey(h) PROVE DesktopInv'
<1>1. PICK t \in CallTask : t = work[h] /\ t.step = "write key" /\ CallShape(t)
  BY CallAt DEF WriteKey
<1>2. PICK u : u = [t EXCEPT !.step = "open session"]
  OBVIOUS
<1>3. /\ u \in CallTask /\ u.step = "open session" /\ u.call = t.call /\ u.session = t.session
  BY <1>2, DesktopAssumption DEF CallTask
<1>4. t.call = "sign in" /\ t.session \in SavedSession
  BY <1>1 DEF CallShape, CallTask
<1>5. keyFile' = t.session.profile
  BY <1>1 DEF WriteKey
<1>6. CallShape(u) /\ ~BeforeWrites(u) /\ CallKnows(h, u)'
  BY <1>3, <1>4, <1>5 DEF CallShape, CallKnows, BeforeWrites
<1>7. /\ work' = [work EXCEPT ![h] = u] /\ keyFile' \in Profiles \cup {None}
      /\ sessionFile' \in SavedSession \cup {None, Torn}
  BY <1>1, <1>2, <1>4, <1>5 DEF WriteKey, GoTo, Continue, DesktopInv, DesktopTypeOK, SavedSession
<1> QED
  BY <1>3, <1>6, <1>7, CallWrites DEF WriteKey

\* OpenSessionFile.
LEMMA OpenSessionFileOK ==
  ASSUME DesktopInv, NEW h \in Handlers, OpenSessionFile(h) PROVE DesktopInv'
<1>1. PICK t \in CallTask :
        /\ t = work[h] /\ t.step = "open session" /\ CallShape(t)
        /\ (BeforeWrites(t) => h \notin wrote) /\ (h \notin touched => CallKnows(h, t))
  BY CallAt DEF OpenSessionFile
<1>2. PICK u : u = [t EXCEPT !.step = "write session"]
  OBVIOUS
<1>3. /\ u \in CallTask /\ u.step = "write session" /\ u.call = t.call
      /\ u.session = t.session /\ u.place = t.place
  BY <1>2, DesktopAssumption DEF CallTask
<1>4. t.call \in {"sign in", "switch", "refresh"}
  BY <1>1 DEF CallShape, CallTask
<1>5. CallShape(u) /\ ~BeforeWrites(u)
  BY <1>1, <1>3, <1>4 DEF CallShape, BeforeWrites
<1>6. ASSUME h \notin touched PROVE CallKnows(h, u)'
  <2>1. CASE t.call = "sign in"
    BY <1>1, <1>3, <1>6, <2>1 DEF CallKnows, OpenSessionFile
  <2>2. CASE t.call \in {"switch", "refresh"} /\ Undisputed(h)'
    <3>1. Undisputed(h) /\ ~disputed /\ wrote = {}
      BY <1>1, <2>2 DEF Undisputed, OpenSessionFile, WritesOn, Written, BeforeWrites
    <3>2. FilesAsChosen /\ Stored /\ sessionFile.profile = t.session.profile
      BY <1>1, <1>6, <2>2, <3>1 DEF DesktopInv, CallKnows
    <3>3. choice # None /\ keyFile = choice.profile /\ t.session.profile = choice.profile
      BY <3>2, SessionIsSome DEF FilesAsChosen, SignedOut, SignedInAs, Stored
    <3>4. UNCHANGED <<keyFile, choice, withdrawn>>
      BY DEF OpenSessionFile, WritesOn
    <3>5. t.call = "refresh" => (t.session.active = choice.active \/ withdrawn)
      BY <1>1, <1>6, <3>1 DEF CallKnows
    <3> QED
      BY <1>3, <2>2, <3>3, <3>4, <3>5 DEF CallKnows
  <2>3. CASE t.call \in {"switch", "refresh"} /\ ~Undisputed(h)'
    BY <1>3, <2>3 DEF CallKnows
  <2> QED
    BY <1>4, <2>1, <2>2, <2>3
<1>7. /\ work' = [work EXCEPT ![h] = u] /\ keyFile' \in Profiles \cup {None}
      /\ sessionFile' \in SavedSession \cup {None, Torn}
  BY <1>1, <1>2 DEF OpenSessionFile, GoTo, Continue, DesktopInv, DesktopTypeOK
<1> QED
  BY <1>3, <1>5, <1>6, <1>7, CallWrites DEF OpenSessionFile

\* WriteSession.
LEMMA WriteSessionOK == ASSUME DesktopInv, NEW h \in Handlers, WriteSession(h) PROVE DesktopInv'
<1>1. PICK t \in CallTask :
        /\ t = work[h] /\ t.step = "write session" /\ CallShape(t)
        /\ (h \notin touched => CallKnows(h, t))
  BY CallAt DEF WriteSession
<1>2. t.call \in {"sign in", "switch", "refresh"} /\ t.session \in SavedSession
  BY <1>1 DEF CallShape, CallTask
<1>3. PICK s \in SavedSession : s = t.session
  BY <1>2
<1>4. s # None /\ s # Torn /\ s.profile \in Profiles /\ s.active \in Places
  BY <1>3, SessionIsSome DEF SavedSession
<1>5. Written(h, TRUE) /\ Finish(h) /\ sessionFile' = s /\ UNCHANGED <<keyFile, serverVars>>
  BY <1>1, <1>3 DEF WriteSession, Chosen, Settled
<1>6. /\ keyFile' \in Profiles \cup {None} /\ sessionFile' \in SavedSession \cup {None, Torn}
      /\ wrote' = wrote \ {h}
  BY <1>5 DEF DesktopInv, DesktopTypeOK, Written
<1>7. CASE t.call = "refresh"
  <2>1. disputed' = (disputed \/ h \in touched) /\ UNCHANGED <<choice, withdrawn>>
    BY <1>1, <1>7 DEF WriteSession, Settled
  <2>2. /\ choice' \in [profile : Profiles, active : Places] \cup {None}
        /\ withdrawn' \in BOOLEAN /\ disputed' \in BOOLEAN /\ WithdrawnKnown'
    BY <1>5, <2>1 DEF DesktopInv, DesktopTypeOK, WithdrawnKnown, serverVars
  <2>3. ASSUME ~disputed', wrote' = {} PROVE FilesAsChosen'
    <3>1. h \notin touched /\ Undisputed(h)
      BY <1>6, <2>1, <2>3 DEF Undisputed
    <3>2. /\ choice # None /\ keyFile = choice.profile /\ s.profile = choice.profile
          /\ s.active = choice.active \/ withdrawn
      BY <1>1, <1>3, <1>7, <3>1 DEF CallKnows
    <3> QED
      BY <1>5, <2>1, <3>2 DEF FilesAsChosen, SignedInAs, Stored
  <2> QED
    BY <1>5, <1>6, <2>2, <2>3, CallEndsWriting
<1>8. CASE t.call \in {"sign in", "switch"}
  <2>1. /\ choice' = [profile |-> s.profile, active |-> s.active]
        /\ withdrawn' = (s.profile \notin live \/ s.active \notin allowed)
        /\ disputed' = ((disputed /\ t.call = "switch") \/ h \in touched)
    BY <1>1, <1>3, <1>4, <1>8 DEF WriteSession, Chosen
  <2>2. /\ choice' \in [profile : Profiles, active : Places] \cup {None}
        /\ withdrawn' \in BOOLEAN /\ disputed' \in BOOLEAN /\ WithdrawnKnown'
    BY <1>4, <1>5, <2>1 DEF WithdrawnKnown, serverVars
  <2>3. ASSUME ~disputed', wrote' = {} PROVE FilesAsChosen'
    <3>1. h \notin touched /\ (t.call = "switch" => Undisputed(h))
      BY <1>6, <2>1, <2>3 DEF Undisputed
    <3>2. keyFile = s.profile
      BY <1>1, <1>3, <1>8, <3>1 DEF CallKnows
    <3>3. choice' # None
      BY <1>4, <2>1, ChoiceIsSome
    <3> QED
      BY <1>5, <2>1, <3>2, <3>3 DEF FilesAsChosen, SignedInAs, Stored
  <2> QED
    BY <1>5, <1>6, <2>2, <2>3, CallEndsWriting
<1> QED
  BY <1>2, <1>7, <1>8

\* A signed request throws.
LEMMA ThrowsOK ==
  ASSUME DesktopInv, NEW h \in Handlers, work[h] # None,
         work[h].step \in {"load", "read key", "fetch"}, Throws(h),
         UNCHANGED <<keyFile, sessionFile, serverVars>>
  PROVE  DesktopInv'
<1>1. PICK t \in CallTask : t = work[h] /\ t # None /\ CallShape(t) /\ h \notin wrote
                           /\ t.step \in {"load", "read key", "fetch"}
  BY CallIsKnown DEF BeforeWrites
<1>2. CASE t.call = "sign out"
  <2>1. PICK u : u = [t EXCEPT !.step = "clear key"]
    OBVIOUS
  <2>2. u \in CallTask /\ u # None /\ u.step = "clear key" /\ u.call = "sign out"
    BY <1>2, <2>1, DesktopAssumption DEF CallTask
  <2>3. CallShape(u) /\ CallKnows(h, u)'
    BY <2>2 DEF CallShape, CallKnows
  <2>4. work' = [work EXCEPT ![h] = u] /\ Undisturbed
    BY <1>1, <1>2, <2>1 DEF Throws, GoTo, Continue
  <2>5. DesktopTypeOK' /\ WithdrawnKnown'
    BY <2>4 DEF DesktopInv, DesktopTypeOK, WithdrawnKnown, Undisturbed, serverVars
  <2> QED
    BY <1>1, <2>2, <2>3, <2>4, <2>5, CallQuiet DEF Undisturbed
<1>3. CASE t.call # "sign out"
  <2>1. Returns(h)
    BY <1>1, <1>3 DEF Throws
  <2>2. DesktopTypeOK' /\ WithdrawnKnown'
    BY <2>1 DEF DesktopInv, DesktopTypeOK, WithdrawnKnown, Returns, serverVars
  <2> QED
    BY <1>1, <2>1, <2>2, CallQuiet DEF Returns, Finish, Continue
<1> QED
  BY <1>2, <1>3

\* Load.
LEMMA LoadOK == ASSUME DesktopInv, NEW h \in Handlers, Load(h) PROVE DesktopInv'
<1>1. PICK t \in CallTask :
        /\ t = work[h] /\ t # None /\ t.step = "load" /\ CallShape(t) /\ h \notin wrote
        /\ h \notin touched => CallKnows(h, t)
  BY CallAt DEF Load, BeforeWrites
<1>2. CASE ~Stored
  BY <1>1, <1>2, ThrowsOK DEF Load
<1>3. CASE Stored
  <2>1. PICK u : u = [t EXCEPT !.step = "read key", !.signer = sessionFile.profile]
    OBVIOUS
  <2>2. /\ u \in CallTask /\ u # None /\ u.step = "read key" /\ u.call = t.call
        /\ u.session = t.session /\ u.place = t.place /\ u.signer = sessionFile.profile
    BY <1>3, <2>1, DesktopAssumption DEF CallTask, Stored, SavedSession
  <2>3. CallShape(u)
    BY <1>1, <2>2 DEF CallShape, CallTask
  <2>4. UNCHANGED desktopVars /\ work' = [work EXCEPT ![h] = u]
    BY <1>1, <1>3, <2>1 DEF Load, Undisturbed, Continue, desktopVars, serverVars
  <2>5. h \notin touched => CallKnows(h, u)'
    BY <1>1, <2>2, <2>4 DEF CallKnows, Stored, desktopVars
  <2>6. DesktopTypeOK' /\ WithdrawnKnown'
    BY <2>4 DEF DesktopInv, DesktopTypeOK, WithdrawnKnown, desktopVars
  <2> QED
    BY <1>1, <2>2, <2>3, <2>4, <2>5, <2>6, CallQuiet DEF desktopVars
<1> QED
  BY <1>2, <1>3

\* ReadKey.
LEMMA ReadKeyOK == ASSUME DesktopInv, NEW h \in Handlers, ReadKey(h) PROVE DesktopInv'
<1>1. PICK t \in CallTask :
        /\ t = work[h] /\ t # None /\ t.step = "read key" /\ CallShape(t) /\ h \notin wrote
        /\ h \notin touched => CallKnows(h, t)
  BY CallAt DEF ReadKey, BeforeWrites
<1>2. CASE keyFile = None
  BY <1>1, <1>2, ThrowsOK DEF ReadKey
<1>3. CASE keyFile # None
  <2>1. PICK u : u = [t EXCEPT !.step = "fetch", !.key = keyFile]
    OBVIOUS
  <2>2. /\ u \in CallTask /\ u # None /\ u.step = "fetch" /\ u.call = t.call
        /\ u.session = t.session /\ u.place = t.place /\ u.signer = t.signer /\ u.key = keyFile
    BY <1>3, <2>1, DesktopAssumption DEF CallTask, DesktopInv, DesktopTypeOK
  <2>3. CallShape(u)
    BY <1>1, <2>2 DEF CallShape, CallTask
  <2>4. UNCHANGED desktopVars /\ work' = [work EXCEPT ![h] = u]
    BY <1>1, <1>3, <2>1 DEF ReadKey, Undisturbed, Continue, desktopVars, serverVars
  <2>5. h \notin touched => CallKnows(h, u)'
    BY <1>1, <2>2, <2>4 DEF CallKnows, Stored, desktopVars
  <2>6. DesktopTypeOK' /\ WithdrawnKnown'
    BY <2>4 DEF DesktopInv, DesktopTypeOK, WithdrawnKnown, desktopVars
  <2> QED
    BY <1>1, <2>2, <2>3, <2>4, <2>5, <2>6, CallQuiet DEF desktopVars
<1> QED
  BY <1>2, <1>3

\* ExpireKey.
LEMMA ExpireKeyOK == ASSUME DesktopInv, NEW h \in Handlers, ExpireKey(h) PROVE DesktopInv'
<1>1. PICK t \in CallTask :
        /\ t = work[h] /\ t.step = "expire key" /\ CallShape(t)
        /\ (h \notin touched => CallKnows(h, t))
  BY CallAt DEF ExpireKey
<1>2. PICK u : u = [t EXCEPT !.step = "expire session"]
  OBVIOUS
<1>3. /\ u \in CallTask /\ u.step = "expire session" /\ u.call = t.call
      /\ u.session = t.session /\ u.place = t.place
  BY <1>2, DesktopAssumption DEF CallTask
<1>4. CallShape(u) /\ ~BeforeWrites(u)
  BY <1>1, <1>3 DEF CallShape, BeforeWrites, CallTask
<1>5. ASSUME h \notin touched PROVE CallKnows(h, u)'
  <2>1. (Undisputed(h)' => Undisputed(h)) /\ keyFile' = None /\ UNCHANGED <<choice, withdrawn>>
    BY DEF ExpireKey, WritesOn, Written, Undisputed
  <2>2. u.call # "sign out" /\ Undisputed(h)' => Ended
    BY <1>1, <1>3, <1>5, <2>1 DEF CallKnows
  <2> QED
    BY <1>3, <2>1, <2>2 DEF CallKnows, Ended
<1>6. /\ work' = [work EXCEPT ![h] = u] /\ keyFile' \in Profiles \cup {None}
      /\ sessionFile' \in SavedSession \cup {None, Torn}
  BY <1>1, <1>2 DEF ExpireKey, GoTo, Continue, DesktopInv, DesktopTypeOK
<1> QED
  BY <1>3, <1>4, <1>5, <1>6, CallWrites DEF ExpireKey

\* ExpireSession.
LEMMA ExpireSessionOK ==
  ASSUME DesktopInv, NEW h \in Handlers, ExpireSession(h) PROVE DesktopInv'
<1>1. PICK t \in CallTask :
        /\ t = work[h] /\ t.step = "expire session" /\ CallShape(t)
        /\ (h \notin touched => CallKnows(h, t))
  BY CallAt DEF ExpireSession
<1>2. /\ keyFile' \in Profiles \cup {None} /\ sessionFile' \in SavedSession \cup {None, Torn}
      /\ sessionFile' = None /\ keyFile' = keyFile
  BY DEF ExpireSession, DesktopInv, DesktopTypeOK
<1>3. CASE t.call = "sign out"
  <2>1. PICK u : u = [t EXCEPT !.step = "clear key"]
    OBVIOUS
  <2>2. u \in CallTask /\ u.step = "clear key" /\ u.call = "sign out"
    BY <1>3, <2>1, DesktopAssumption DEF CallTask
  <2>3. CallShape(u) /\ ~BeforeWrites(u) /\ CallKnows(h, u)'
    BY <2>2 DEF CallShape, BeforeWrites, CallKnows
  <2>4. work' = [work EXCEPT ![h] = u] /\ WritesOn(h)
    BY <1>1, <1>3, <2>1 DEF ExpireSession, GoTo, Continue
  <2> QED
    BY <1>2, <2>2, <2>3, <2>4, CallWrites DEF ExpireSession
<1>4. CASE t.call # "sign out"
  <2>1. Settled(h) /\ UNCHANGED serverVars
    BY <1>1, <1>4 DEF ExpireSession
  <2>2. /\ choice' \in [profile : Profiles, active : Places] \cup {None}
        /\ withdrawn' \in BOOLEAN /\ disputed' \in BOOLEAN /\ WithdrawnKnown'
    BY <2>1 DEF Settled, DesktopInv, DesktopTypeOK, WithdrawnKnown, serverVars
  <2>3. ASSUME ~disputed', wrote' = {} PROVE FilesAsChosen'
    <3>1. h \notin touched /\ Undisputed(h)
      BY <2>1, <2>3 DEF Undisputed, Settled, Written
    <3>2. Ended /\ keyFile = None
      BY <1>1, <1>4, <3>1 DEF CallKnows
    <3> QED
      BY <1>2, <2>1, <3>2 DEF FilesAsChosen, SignedOut, Ended, Settled
  <2> QED
    BY <1>2, <2>1, <2>2, <2>3, CallEndsWriting DEF Settled
<1> QED
  BY <1>3, <1>4

\* ClearKey.
LEMMA ClearKeyOK == ASSUME DesktopInv, NEW h \in Handlers, ClearKey(h) PROVE DesktopInv'
<1>1. PICK t \in CallTask : t = work[h] /\ t.step = "clear key" /\ CallShape(t)
  BY CallAt DEF ClearKey
<1>2. PICK u : u = [t EXCEPT !.step = "clear session"]
  OBVIOUS
<1>3. u \in CallTask /\ u.step = "clear session" /\ u.call = t.call /\ u.session = t.session
  BY <1>2, DesktopAssumption DEF CallTask
<1>4. t.call = "sign out" /\ keyFile' = None
  BY <1>1 DEF CallShape, CallTask, ClearKey
<1>5. CallShape(u) /\ ~BeforeWrites(u) /\ CallKnows(h, u)'
  BY <1>3, <1>4 DEF CallShape, BeforeWrites, CallKnows
<1>6. /\ work' = [work EXCEPT ![h] = u] /\ keyFile' \in Profiles \cup {None}
      /\ sessionFile' \in SavedSession \cup {None, Torn}
  BY <1>1, <1>2, <1>4 DEF ClearKey, GoTo, Continue, DesktopInv, DesktopTypeOK
<1> QED
  BY <1>3, <1>5, <1>6, CallWrites DEF ClearKey

\* ClearSession.
LEMMA ClearSessionOK == ASSUME DesktopInv, NEW h \in Handlers, ClearSession(h) PROVE DesktopInv'
<1>1. PICK t \in CallTask :
        /\ t = work[h] /\ t.step = "clear session" /\ CallShape(t)
        /\ (h \notin touched => CallKnows(h, t))
  BY CallAt DEF ClearSession
<1>2. t.call = "sign out"
  BY <1>1 DEF CallShape, CallTask
<1>3. /\ keyFile' \in Profiles \cup {None} /\ sessionFile' \in SavedSession \cup {None, Torn}
      /\ sessionFile' = None /\ keyFile' = keyFile
  BY DEF ClearSession, DesktopInv, DesktopTypeOK
<1>4. /\ choice' = None /\ Written(h, TRUE) /\ Finish(h) /\ UNCHANGED serverVars
  BY DEF ClearSession, Chosen
<1>4a. withdrawn' \in BOOLEAN /\ disputed' \in BOOLEAN
  BY DEF ClearSession, Chosen
<1>4b. ~disputed' => h \notin touched
  BY DEF ClearSession, Chosen
<1>5. WithdrawnKnown'
  BY <1>4 DEF WithdrawnKnown
<1>6. ASSUME ~disputed', wrote' = {} PROVE FilesAsChosen'
  BY <1>1, <1>2, <1>3, <1>4, <1>4b, <1>6 DEF CallKnows, FilesAsChosen, SignedOut
<1> QED
  BY <1>3, <1>4, <1>4a, <1>5, <1>6, CallEndsWriting

\* CallFails.
LEMMA CallFailsOK == ASSUME DesktopInv, NEW h \in Handlers, CallFails(h) PROVE DesktopInv'
<1>1. CASE work[h].step \in {"load", "read key", "fetch"} /\ Throws(h)
  BY <1>1, ThrowsOK DEF CallFails, Idle
<1>2. CASE /\ Finish(h) /\ disputed' = (disputed \/ h \in wrote)
           /\ wrote' = wrote \ {h} /\ touched' = touched \ {h}
           /\ UNCHANGED <<choice, withdrawn>>
  <2>1. DesktopTypeOK' /\ WithdrawnKnown'
    BY <1>2 DEF DesktopInv, DesktopTypeOK, WithdrawnKnown, CallFails, serverVars
  <2> QED
    BY <1>2, <2>1, CallQuiet DEF CallFails, Finish, Continue
<1> QED
  BY <1>1, <1>2 DEF CallFails

\* AppQuits.
LEMMA AppQuitsOK == ASSUME DesktopInv, AppQuits PROVE DesktopInv'
<1>1. DesktopTypeOK' /\ WithdrawnKnown' /\ WorkIn(CallTask)'
  BY DEF DesktopInv, DesktopTypeOK, WithdrawnKnown, AppQuits, serverVars, WorkIn
<1>2. \A o \in Handlers : work'[o] = None /\ o \notin wrote' \cup touched'
  BY DEF AppQuits
<1>3. CallsOK'
  BY <1>2, DesktopAssumption DEF CallsOK
<1>4. ~disputed' /\ wrote' = {} => FilesAsChosen'
  BY DEF DesktopInv, AppQuits, FilesAsChosen, SignedOut, SignedInAs, Stored
<1> QED
  BY <1>1, <1>3, <1>4 DEF DesktopInv

\* A fetch that the server does not accept: it had ended the device or closed the
\* workspace of the choice, if nothing disputes that choice.
LEMMA FetchRefused ==
  ASSUME DesktopInv, NEW h \in Handlers, NEW t \in CallTask, t = work[h], t # None,
         t.step = "fetch", CallShape(t), h \notin wrote, h \notin touched => CallKnows(h, t),
         ~Accepted(t), GoTo(h, "expire key"), UNCHANGED <<live, keyFile, sessionFile, minted, allowed>>,
         Undisturbed
  PROVE  DesktopInv'
<1>1. PICK u : u = [t EXCEPT !.step = "expire key"]
  OBVIOUS
<1>2. /\ u \in CallTask /\ u # None /\ u.step = "expire key" /\ u.call = t.call
      /\ u.session = t.session /\ u.place = t.place
  BY <1>1, DesktopAssumption DEF CallTask
<1>3. CallShape(u) /\ work' = [work EXCEPT ![h] = u]
  BY <1>1, <1>2 DEF CallShape, CallTask, GoTo, Continue
<1>4. ASSUME h \notin touched PROVE CallKnows(h, u)'
  <2>1. ASSUME t.call # "sign out", Undisputed(h) PROVE Ended
    <3>1. FilesAsChosen /\ CallKnows(h, t)
      BY <1>4, <2>1 DEF DesktopInv, Undisputed
    <3>2. t.call \in {"refresh", "request"}
      BY <2>1 DEF CallShape, CallTask
    <3>3. /\ Stored /\ t.place \in {None, sessionFile.active} /\ t.signer = sessionFile.profile
          /\ t.key = keyFile
      BY <3>1, <3>2 DEF CallKnows
    <3>4. choice # None /\ ~SignedOut
      BY <3>1, <3>3, SessionIsSome DEF FilesAsChosen, SignedOut, Stored
    <3>5. \/ withdrawn
          \/ /\ sessionFile.profile = choice.profile /\ keyFile = choice.profile
             /\ sessionFile.active = choice.active
      BY <3>1, <3>4 DEF FilesAsChosen, SignedInAs
    <3>6. ~withdrawn => choice.profile \notin live \/ choice.active \notin allowed
      BY <3>3, <3>5 DEF Accepted
    <3> QED
      BY <3>4, <3>6 DEF DesktopInv, WithdrawnKnown, Ended
  <2>2. UNCHANGED <<choice, withdrawn, wrote, disputed>>
    BY DEF Undisturbed
  <2> QED
    BY <1>2, <2>1, <2>2 DEF CallKnows, Ended, Undisputed
<1>5. DesktopTypeOK' /\ WithdrawnKnown'
  BY DEF DesktopInv, DesktopTypeOK, WithdrawnKnown, Undisturbed
<1> QED
  BY <1>2, <1>3, <1>4, <1>5, CallQuiet DEF Undisturbed

\* A refresh is answered: it keeps the active workspace unless the server closed it.
LEMMA FetchRefreshes ==
  ASSUME DesktopInv, NEW h \in Handlers, NEW t \in CallTask, t = work[h], t # None,
         t.step = "fetch", CallShape(t), h \notin wrote, h \notin touched => CallKnows(h, t),
         t.call = "refresh", NEW w \in Places, Kept(t.session, w),
         Continue(h, Call("refresh", "open session",
                          [t.session EXCEPT !.active = w, !.known = Listed(t.session)], None)),
         UNCHANGED <<live, keyFile, sessionFile, minted, allowed>>, Undisturbed
  PROVE  DesktopInv'
<1>1. t.session \in SavedSession
  BY DEF CallShape
<1>2. PICK s : s = [t.session EXCEPT !.active = w, !.known = Listed(t.session)]
  OBVIOUS
<1>3. Listed(t.session) \in SUBSET Places
  BY <1>1 DEF Listed, SavedSession, DesktopInv, DesktopTypeOK
<1>4. s \in SavedSession /\ s.profile = t.session.profile /\ s.active = w
  BY <1>1, <1>2, <1>3 DEF SavedSession
<1>5. PICK u : u = [call |-> "refresh", step |-> "open session", session |-> s, place |-> None,
                    signer |-> None, key |-> None]
  OBVIOUS
<1>6. u \in CallTask
  BY <1>4, <1>5 DEF CallTask
<1>7. /\ u # None /\ u.call = "refresh" /\ u.step = "open session" /\ u.session = s
      /\ u.place = None
  BY <1>5, <1>6, DesktopAssumption
<1>8. CallShape(u) /\ work' = [work EXCEPT ![h] = u]
  BY <1>2, <1>4, <1>5, <1>7 DEF CallShape, Continue, Call
<1>9. ASSUME h \notin touched PROVE CallKnows(h, u)'
  <2>1. Stored /\ t.session = sessionFile
    BY <1>9 DEF CallKnows
  <2>2. ASSUME Undisputed(h) PROVE w = choice.active \/ withdrawn
    <3>1. FilesAsChosen
      BY <2>2 DEF DesktopInv, Undisputed
    <3>2. choice # None /\ ~SignedOut
      BY <3>1, <2>1, SessionIsSome DEF FilesAsChosen, SignedOut, Stored
    <3>3. withdrawn \/ sessionFile.active = choice.active
      BY <3>1, <3>2 DEF FilesAsChosen
    <3>4. CASE t.session.active \in Listed(t.session)
      BY <2>1, <3>3, <3>4 DEF Kept
    <3>5. CASE t.session.active \notin Listed(t.session)
      <4>1. t.session.active \notin allowed
        BY <3>5 DEF Listed
      <4> QED
        BY <2>1, <3>2, <3>3, <4>1 DEF DesktopInv, WithdrawnKnown
    <3> QED
      BY <3>4, <3>5
  <2>3. UNCHANGED <<choice, withdrawn, wrote, disputed, sessionFile>>
    BY DEF Undisturbed
  <2> QED
    BY <1>4, <1>7, <2>1, <2>2, <2>3 DEF CallKnows, Undisputed, Stored
<1>10. DesktopTypeOK' /\ WithdrawnKnown'
  BY DEF DesktopInv, DesktopTypeOK, WithdrawnKnown, Undisturbed
<1> QED
  BY <1>6, <1>7, <1>8, <1>9, <1>10, CallQuiet DEF Undisturbed

\* Signing out is accepted: the device is ended.
LEMMA FetchSignsOut ==
  ASSUME DesktopInv, NEW h \in Handlers, NEW t \in CallTask, t = work[h], t # None,
         t.step = "fetch", CallShape(t), h \notin wrote, t.call = "sign out",
         live' = live \ {t.session.profile}, Withdraws({t.session.profile}, {}),
         GoTo(h, "clear key"), UNCHANGED <<choice, wrote, touched, disputed>>,
         UNCHANGED <<keyFile, sessionFile, minted, allowed>>
  PROVE  DesktopInv'
<1>1. PICK u : u = [t EXCEPT !.step = "clear key"]
  OBVIOUS
<1>2. u \in CallTask /\ u # None /\ u.step = "clear key" /\ u.call = "sign out"
  BY <1>1, DesktopAssumption DEF CallTask
<1>3. CallShape(u) /\ CallKnows(h, u)' /\ work' = [work EXCEPT ![h] = u]
  BY <1>1, <1>2 DEF CallShape, CallKnows, GoTo, Continue
<1>4. withdrawn' \in BOOLEAN /\ (withdrawn => withdrawn') /\ WithdrawnKnown'
  BY DEF DesktopInv, DesktopTypeOK, WithdrawnKnown, Withdraws
<1>5. DesktopTypeOK'
  BY <1>4 DEF DesktopInv, DesktopTypeOK
<1> QED
  BY <1>2, <1>3, <1>4, <1>5, CallQuiet

\* Fetch.
LEMMA FetchOK == ASSUME DesktopInv, NEW h \in Handlers, Fetch(h) PROVE DesktopInv'
<1>1. PICK t \in CallTask :
        /\ t = work[h] /\ t # None /\ t.step = "fetch" /\ CallShape(t) /\ h \notin wrote
        /\ h \notin touched => CallKnows(h, t)
  BY CallAt DEF Fetch, BeforeWrites
<1>2. UNCHANGED <<keyFile, sessionFile, minted, allowed>>
  BY DEF Fetch
<1>3. CASE ~Accepted(t) /\ GoTo(h, "expire key") /\ UNCHANGED live /\ Undisturbed
  BY <1>1, <1>2, <1>3, FetchRefused
<1>4. CASE t.call = "request" /\ Returns(h) /\ UNCHANGED live
  <2>1. DesktopTypeOK' /\ WithdrawnKnown'
    BY <1>2, <1>4 DEF DesktopInv, DesktopTypeOK, WithdrawnKnown, Returns
  <2> QED
    BY <1>1, <1>2, <1>4, <2>1, CallQuiet DEF Returns, Finish, Continue
<1>5. CASE /\ t.call = "refresh"
           /\ \E w \in Places :
                /\ Kept(t.session, w)
                /\ Continue(h, Call("refresh", "open session",
                     [t.session EXCEPT !.active = w, !.known = Listed(t.session)], None))
           /\ UNCHANGED live /\ Undisturbed
  BY <1>1, <1>2, <1>5, FetchRefreshes
<1>6. CASE /\ t.call = "sign out"
           /\ live' = live \ {t.session.profile} /\ Withdraws({t.session.profile}, {})
           /\ GoTo(h, "clear key")
           /\ UNCHANGED <<choice, wrote, touched, disputed>>
  BY <1>1, <1>2, <1>6, FetchSignsOut
<1> QED
  BY <1>1, <1>3, <1>4, <1>5, <1>6 DEF Fetch

\* EndDevice.
LEMMA EndDeviceOK == ASSUME DesktopInv, NEW p \in Profiles, EndDevice(p) PROVE DesktopInv'
<1>1. withdrawn' \in BOOLEAN /\ (withdrawn => withdrawn') /\ WithdrawnKnown'
  BY DEF EndDevice, DesktopInv, DesktopTypeOK, WithdrawnKnown, Withdraws
<1>2. DesktopTypeOK'
  BY <1>1 DEF EndDevice, DesktopInv, DesktopTypeOK
<1> QED
  BY <1>1, <1>2, ServerMoves DEF EndDevice

\* LoseWorkspace.
LEMMA LoseWorkspaceOK ==
  ASSUME DesktopInv, NEW w \in Places, LoseWorkspace(w) PROVE DesktopInv'
<1>1. withdrawn' \in BOOLEAN /\ (withdrawn => withdrawn') /\ WithdrawnKnown'
  BY DEF LoseWorkspace, DesktopInv, DesktopTypeOK, WithdrawnKnown, Withdraws
<1>2. DesktopTypeOK'
  BY <1>1 DEF LoseWorkspace, DesktopInv, DesktopTypeOK
<1> QED
  BY <1>1, <1>2, ServerMoves DEF LoseWorkspace

\* GainWorkspace.
LEMMA GainWorkspaceOK ==
  ASSUME DesktopInv, NEW w \in Places, GainWorkspace(w) PROVE DesktopInv'
<1>1. DesktopTypeOK' /\ WithdrawnKnown'
  BY DEF GainWorkspace, Undisturbed, DesktopInv, DesktopTypeOK, WithdrawnKnown
<1> QED
  BY <1>1, ServerMoves DEF GainWorkspace, Undisturbed

\* A step in which nothing changes.
LEMMA DesktopStutters ==
  ASSUME DesktopInv, UNCHANGED <<work, desktopVars>> PROVE DesktopInv'
<1>1. DesktopTypeOK' /\ WithdrawnKnown'
  BY DEF DesktopInv, DesktopTypeOK, WithdrawnKnown, desktopVars
<1> QED
  BY <1>1, ServerMoves DEF desktopVars

\* Every step keeps the invariant.
LEMMA DesktopStep ==
  ASSUME DesktopInv, [DesktopNext]_<<work, desktopVars>> PROVE DesktopInv'
<1>1. ASSUME NEW h \in Handlers, DesktopCall(h) PROVE DesktopInv'
  BY <1>1, SignInOK, SignOutOK, RefreshOK, SwitchOK, RequestOK, MintOK, OpenKeyFileOK, WriteKeyOK,
     OpenSessionFileOK, WriteSessionOK, LoadOK, ReadKeyOK, FetchOK, ExpireKeyOK, ExpireSessionOK,
     ClearKeyOK, ClearSessionOK, CallFailsOK DEF DesktopCall
<1> QED
  BY <1>1, AppQuitsOK, EndDeviceOK, LoseWorkspaceOK, GainWorkspaceOK, DesktopStutters
     DEF DesktopNext

\* The first state: nobody has signed in.
LEMMA DesktopInitOK == ASSUME NoWork, DesktopInit PROVE DesktopInv
<1>1. DesktopTypeOK /\ WithdrawnKnown /\ FilesAsChosen
  BY DEF DesktopInit, DesktopTypeOK, WithdrawnKnown, FilesAsChosen, SignedOut
<1>2. WorkIn(CallTask)
  BY DEF NoWork, WorkIn
<1>3. CallsOK
  <2>1. \A h \in Handlers : work[h] = None /\ h \notin wrote \cup touched
    BY DEF NoWork, DesktopInit
  <2> QED
    BY <2>1, DesktopAssumption DEF CallsOK
<1> QED
  BY <1>1, <1>2, <1>3 DEF DesktopInv

\* Every variable of the desktop's sign-in and every task keeps its type.
THEOREM DesktopIsTyped == DesktopSpec => [](DesktopTypeOK /\ WorkIn(CallTask))
<1>1. DesktopInv => DesktopTypeOK /\ WorkIn(CallTask)
  BY DEF DesktopInv
<1> QED
  BY <1>1, DesktopInitOK, DesktopStep, PTL DEF DesktopSpec

\* However calls overlap, are cut or fail: between calls the two files of a desktop
\* hold what the user last chose, as far as the server still allows it, unless a
\* call that overlapped another one, or was cut, wrote them last.
THEOREM StoredAlwaysChosen == DesktopSpec => []StoredIsChosen
<1>1. DesktopInv => StoredIsChosen
  <2> SUFFICES ASSUME DesktopInv, \A h \in Handlers : Idle(h), ~disputed PROVE FilesAsChosen
    BY DEF StoredIsChosen, FilesAsChosen
  <2>1. wrote \subseteq Handlers
    BY DEF DesktopInv, DesktopTypeOK
  <2>2. wrote = {}
    BY <2>1, IdleHandler DEF Idle
  <2> QED
    BY <2>2 DEF DesktopInv
<1> QED
  BY <1>1, DesktopInitOK, DesktopStep, PTL DEF DesktopSpec

-----------------------------------------------------------------------------
(* Submissions                                                             *)

SubmissionSpec == SubmissionInit /\ [][SubmissionNext]_submissionVars

\* leaves that the worker has nothing against: a file first, digests in their plain form,
\* and none twice
GoodLeaves ==
  {ls \in Seq(ManifestLeaf) :
     /\ Len(ls) > 0 /\ ls[1].type = "file"
     /\ \A i \in 1..Len(ls) : ls[i].type = "file" => ls[i].payload.form = "plain"
     /\ Cardinality(ToSet(ls)) = Len(ls)}

\* the record that is kept beside the leaves is of their first file
SourceIsLeaf(source, leaves) ==
  source # None /\ source.provider = "model_release"
    => leaves[1] = FileLeaf([of |-> source.canonical, form |-> "plain"])

\* attempt n of row r in slot x has the manifest that was built for it
HasManifest(x, r, n, a) ==
  \E ls \in GoodLeaves :
    /\ a.manifest = BuildManifest(<<x, n>>, ls, IF r.byDevice THEN "desktop" ELSE "public_api")
    /\ SourceIsLeaf(a.source, ls)
    /\ r.byDevice \/ \A i \in 1..Len(ls) : ls[i].type # "shingle"

RowKept(x, r) ==
  /\ r \in AttestationRow /\ Len(r.attempts) > 0
  /\ \A n \in 1..Len(r.attempts) :
       r.attempts[n].errors \subseteq {"device_revoked", "shingling_not_in_plan"}
  /\ ~r.byDevice => r.state \in {"validating", "confirmed"}
  /\ r.state # "pending" => HasManifest(x, r, Len(r.attempts), r.attempts[Len(r.attempts)])

UploadKept ==
  uploading # None =>
    /\ uploading \in [slot : Slots, step : {"upload", "finalize"}, leaves : GoodLeaves]
    /\ LET r == submission[uploading.slot]
       IN  /\ RowKept(uploading.slot, r)
           /\ r.byDevice /\ r.state = IF uploading.step = "upload" THEN "pending" ELSE "uploaded"
           /\ SourceIsLeaf(r.attempts[Len(r.attempts)].source, uploading.leaves)

SubmissionInv ==
  /\ submission \in [Slots -> AttestationRow \cup {None}]
  /\ \A x \in Slots : submission[x] # None => RowKept(x, submission[x])
  /\ UploadKept
  /\ tenantPlan \in {"free", "paid"} /\ deviceRevoked \in BOOLEAN

\* A number is not below itself.
LEMMA NotBelow ==
  ASSUME NEW n \in Nat, NEW c, c = n PROVE ~ (c < n)
OBVIOUS

\* A sequence that has a length is not empty.
LEMMA NotEmpty ==
  ASSUME NEW S, NEW s \in Seq(S), Len(s) > 0 PROVE s # <<>>
BY EmptySeq

\* A sequence without repetitions has as many elements as places.
LEMMA DistinctLeaves ==
  ASSUME NEW S, NEW s \in Seq(S), \A i, j \in 1..Len(s) : s[i] = s[j] => i = j
  PROVE  Cardinality(ToSet(s)) = Len(s)
<1>1. PICK n \in Nat : n = Len(s)
  BY LenProperties
<1>2. s \in [1..n -> S] /\ DOMAIN s = 1..n
  BY <1>1, LenProperties
<1>3. s \in [1..n -> ToSet(s)]
  BY <1>2 DEF ToSet
<1>4. s \in Injection(1..n, ToSet(s))
  BY <1>1, <1>3, Fun_IsInj
<1>5. s \in Surjection(1..n, ToSet(s))
  BY <1>2, <1>3 DEF ToSet, Surjection
<1>6. ExistsBijection(1..n, ToSet(s))
  BY <1>4, <1>5 DEF ExistsBijection, Bijection
<1> QED
  BY <1>1, <1>6, FS_CountingElements

\* The leaves of a text, in some order.
LEMMA SetInSequence ==
  ASSUME NEW S, IsFiniteSet(S)
  PROVE  /\ SetToSeq(S) \in Seq(S)
         /\ \A i, j \in 1..Len(SetToSeq(S)) : SetToSeq(S)[i] = SetToSeq(S)[j] => i = j
<1>1. PICK n \in Nat : n = Cardinality(S)
  BY FS_CardinalityType
<1>2. \E f \in [1..n -> S] : IsInjective(f)
  BY <1>1, FS_CardinalityType DEF ExistsBijection, Bijection, Injection
<1>3. PICK f : f = SetToSeq(S)
  OBVIOUS
<1>4. f \in [1..n -> S] /\ IsInjective(f)
  BY <1>1, <1>2, <1>3 DEF SetToSeq
<1>5. f \in Seq(S) /\ Len(f) = n
  BY <1>4
<1> QED
  BY <1>3, <1>4, <1>5 DEF IsInjective

\* The leaves of the desktop.
LEMMA DesktopLeavesAreGood ==
  ASSUME NEW i \in DesktopInputs
  PROVE  /\ DesktopLeaves(i) \in GoodLeaves
         /\ DesktopLeaves(i)[1] = FileLeaf([of |-> i.of, form |-> "plain"])
<1>1. i.of \in Contents /\ i.texts \in SUBSET Windows
  BY DEF DesktopInputs
<1>2. PICK T : T = {[type |-> "shingle", payload |-> w] : w \in i.texts}
  OBVIOUS
<1>3. T \in SUBSET ManifestLeaf /\ (\A t \in T : t.type = "shingle")
  BY <1>1, <1>2 DEF ManifestLeaf
<1>4. IsFiniteSet(T)
  <2>1. IsFiniteSet(i.texts)
    BY <1>1, SubmissionAssumption, FS_Subset
  <2>2. PICK f : f = [w \in i.texts |-> [type |-> "shingle", payload |-> w]]
    OBVIOUS
  <2>3. f \in Surjection(i.texts, T)
    BY <1>2, <2>2 DEF Surjection
  <2> QED
    BY <2>1, <2>3, FS_Surjection
<1>5. PICK t : t = SetToSeq(T)
  OBVIOUS
<1>6. t \in Seq(T) /\ \A j, k \in 1..Len(t) : t[j] = t[k] => j = k
  BY <1>4, <1>5, SetInSequence
<1>7. Len(t) \in Nat /\ (\A j \in 1..Len(t) : t[j] \in ManifestLeaf /\ t[j].type = "shingle")
      /\ t \in Seq(ManifestLeaf)
  BY <1>3, <1>6, LenProperties, ElementOfSeq, SeqMonotonic
<1>8. PICK d : d = [of |-> i.of, form |-> "plain"]
  OBVIOUS
<1>9. PICK a : a = FileLeaf(d)
  OBVIOUS
<1>10. a \in ManifestLeaf /\ a.type = "file" /\ a.payload.form = "plain"
  BY <1>1, <1>8, <1>9 DEF FileLeaf, ManifestLeaf, Digest
<1>11. PICK c : c = [type |-> "component", payload |-> i.of]
  OBVIOUS
<1>12. c \in ManifestLeaf /\ c.type = "component"
  BY <1>1, <1>11 DEF ManifestLeaf
<1>13. PICK z : z = IF i.image THEN <<c>> ELSE <<>>
  OBVIOUS
<1>14. z \in Seq(ManifestLeaf) /\ Len(z) \in {0, 1} /\ \A j \in 1..Len(z) : z[j].type = "component"
  BY <1>12, <1>13
<1>15. PICK u : u = <<a>> \o t
  OBVIOUS
<1>16. /\ u \in Seq(ManifestLeaf) /\ Len(u) = Len(t) + 1 /\ u[1] = a
       /\ \A j \in 1..Len(t) : u[j + 1] = t[j]
  BY <1>7, <1>10, <1>15
<1>17. PICK s : s = u \o z
  OBVIOUS
<1>18. /\ s \in Seq(ManifestLeaf) /\ Len(s) = Len(u) + Len(z)
       /\ \A j \in 1..Len(u) + Len(z) : s[j] = IF j <= Len(u) THEN u[j] ELSE z[j - Len(u)]
  BY <1>14, <1>16, <1>17, ConcatProperties
<1>19. s = DesktopLeaves(i)
  BY <1>2, <1>5, <1>8, <1>9, <1>11, <1>13, <1>15, <1>17 DEF DesktopLeaves
<1>20. ASSUME NEW j \in 1..Len(s)
       PROVE  \/ j = 1 /\ s[j] = a
              \/ j > 1 /\ j - 1 \in 1..Len(t) /\ s[j] = t[j - 1] /\ s[j].type = "shingle"
              \/ j = Len(t) + 2 /\ s[j].type = "component"
  <2>1. CASE j = 1
    BY <1>7, <1>14, <1>16, <1>18, <2>1
  <2>2. CASE j > 1 /\ j <= Len(t) + 1
    <3>1. j - 1 \in 1..Len(t) /\ j <= Len(u) /\ j = (j - 1) + 1
      BY <1>7, <1>16, <2>2
    <3>2. s[j] = u[j]
      BY <1>7, <1>14, <1>16, <1>18, <3>1
    <3>3. u[j] = t[j - 1]
      BY <1>16, <3>1
    <3> QED
      BY <1>7, <2>2, <3>1, <3>2, <3>3
  <2>3. CASE j > Len(t) + 1
    <3>1. j = Len(t) + 2 /\ Len(z) = 1 /\ j - Len(u) = 1
      BY <1>7, <1>14, <1>16, <1>18, <2>3
    <3>2. s[j] = z[1]
      BY <1>7, <1>14, <1>16, <1>18, <2>3, <3>1
    <3> QED
      BY <1>14, <3>1, <3>2
  <2> QED
    BY <1>7, <1>14, <1>16, <1>18, <2>1, <2>2, <2>3
<1>21. ASSUME NEW j \in 1..Len(s), NEW k \in 1..Len(s), s[j] = s[k] PROVE j = k
  <2>1. CASE s[j].type = "shingle"
    <3>1. /\ j - 1 \in 1..Len(t) /\ k - 1 \in 1..Len(t) /\ t[j - 1] = t[k - 1]
      BY <1>10, <1>20, <1>21, <2>1
    <3>2. j - 1 = k - 1
      BY <1>6, <3>1
    <3> QED
      BY <1>18, <3>2
  <2>2. CASE s[j].type # "shingle"
    BY <1>7, <1>10, <1>20, <1>21, <2>2
  <2> QED
    BY <2>1, <2>2
<1>22. Len(s) > 0 /\ s[1] = a
  BY <1>7, <1>14, <1>16, <1>18
<1>23. \A j \in 1..Len(s) : s[j].type = "file" => s[j].payload.form = "plain"
  BY <1>10, <1>20
<1>24. Cardinality(ToSet(s)) = Len(s)
  BY <1>18, <1>21, DistinctLeaves
<1> QED
  BY <1>8, <1>9, <1>10, <1>18, <1>19, <1>22, <1>23, <1>24 DEF GoodLeaves

\* The leaves of a body that the public channel takes.
LEMMA PublicLeavesAreGood ==
  ASSUME NEW b, b.sha \in Digest,
         b.compliance # None => b.compliance.sha \in Digest,
         BodyErrors(b) = {}
  PROVE  /\ PublicLeaves(b) \in GoodLeaves /\ CanBuild(PublicLeaves(b))
         /\ \A i \in 1..Len(PublicLeaves(b)) : PublicLeaves(b)[i].type = "file"
         /\ PublicLeaves(b)[1] = FileLeaf(NormalizeSha256(b.sha))
<1>1. PICK d : d = NormalizeSha256(b.sha)
  OBVIOUS
<1>2. d \in Digest
  BY <1>1 DEF NormalizeSha256, Digest
<1>3. d.form = "plain"
  BY <1>1 DEF BodyErrors
<1>4. PICK a : a = FileLeaf(d)
  OBVIOUS
<1>5. a \in ManifestLeaf /\ a.type = "file" /\ a.payload = d
  BY <1>2, <1>4 DEF FileLeaf, ManifestLeaf
<1>6. PICK s : s = PublicLeaves(b)
  OBVIOUS
<1>7. CASE b.compliance = None
  <2>1. s = <<a>>
    <3>1. s = <<a>> \o <<>>
      BY <1>1, <1>4, <1>6, <1>7 DEF PublicLeaves
    <3> QED
      BY <1>5, <3>1
  <2>2. s \in Seq(ManifestLeaf) /\ Len(s) = 1 /\ s[1] = a
    BY <1>5, <2>1
  <2>3. Cardinality(ToSet(s)) = Len(s)
    <3>1. \A i, j \in 1..Len(s) : s[i] = s[j] => i = j
      BY <2>2
    <3> QED
      BY <2>2, <3>1, DistinctLeaves
  <2>4. s # <<>> /\ s \in GoodLeaves
    BY <1>3, <1>5, <2>2, <2>3 DEF GoodLeaves
  <2> QED
    BY <1>1, <1>4, <1>5, <1>6, <2>2, <2>3, <2>4 DEF CanBuild, HasDuplicates
<1>8. CASE b.compliance # None
  <2>1. PICK e : e = NormalizeSha256(b.compliance.sha)
    OBVIOUS
  <2>2. e \in Digest
    BY <1>8, <2>1 DEF NormalizeSha256, Digest
  <2>3. e.form = "plain"
    BY <1>8, <2>1 DEF BodyErrors
  <2>4. e # d
    BY <1>1, <1>8, <2>1 DEF BodyErrors, DuplicateCompliance
  <2>5. PICK c : c = FileLeaf(e)
    OBVIOUS
  <2>6. c \in ManifestLeaf /\ c.type = "file" /\ c.payload = e
    BY <2>2, <2>5 DEF FileLeaf, ManifestLeaf
  <2>7. s = <<a>> \o <<c>>
    BY <1>1, <1>4, <1>6, <1>8, <2>1, <2>5 DEF PublicLeaves
  <2>8. s \in Seq(ManifestLeaf) /\ Len(s) = 2 /\ s[1] = a /\ s[2] = c
    BY <1>5, <2>6, <2>7
  <2>9. a # c
    BY <1>5, <2>4, <2>6
  <2>10. Cardinality(ToSet(s)) = Len(s)
    <3>1. \A i, j \in 1..Len(s) : s[i] = s[j] => i = j
      BY <2>8, <2>9
    <3> QED
      BY <2>8, <3>1, DistinctLeaves
  <2>11. s # <<>> /\ s \in GoodLeaves
    <3>1. \A i \in 1..Len(s) : s[i].payload.form = "plain" /\ s[i].type = "file"
      BY <1>3, <1>5, <2>3, <2>6, <2>8
    <3>2. s # <<>> /\ Len(s) > 0 /\ s[1].type = "file"
      <4>1. Len(s) > 0 /\ s[1].type = "file"
        BY <1>5, <2>8
      <4> QED
        BY <2>8, <4>1, NotEmpty
    <3> QED
      BY <2>8, <2>10, <3>1, <3>2 DEF GoodLeaves
  <2> QED
    BY <1>1, <1>4, <1>5, <1>6, <2>6, <2>8, <2>10, <2>11 DEF CanBuild, HasDuplicates
<1> QED
  BY <1>7, <1>8

\* A row that keeps what is asked of it replaces the one in slot x, if any.
LEMMA RowChanges ==
  ASSUME SubmissionInv, NEW x \in Slots, NEW r, RowKept(x, r),
         submission' = [submission EXCEPT ![x] = r],
         UploadKept', tenantPlan' = tenantPlan, deviceRevoked' = deviceRevoked
  PROVE  SubmissionInv'
<1>1. r \in AttestationRow
  BY DEF RowKept
<1>2. submission' \in [Slots -> AttestationRow \cup {None}]
  BY <1>1 DEF SubmissionInv
<1>3. \A y \in Slots : submission'[y] = IF y = x THEN r ELSE submission[y]
  BY DEF SubmissionInv
<1>4. \A y \in Slots : submission'[y] # None => RowKept(y, submission'[y])
  BY <1>3 DEF SubmissionInv
<1> QED
  BY <1>2, <1>4 DEF SubmissionInv

\* Nothing but a slot that is not the upload's changes.
LEMMA UploadStays ==
  ASSUME SubmissionInv, NEW x \in Slots, NEW r, submission' = [submission EXCEPT ![x] = r],
         uploading' = uploading, uploading # None => uploading.slot # x
  PROVE  UploadKept'
<1>1. CASE uploading = None
  BY <1>1 DEF UploadKept
<1>2. CASE uploading # None
  <2>1. uploading.slot \in Slots
    BY <1>2 DEF SubmissionInv, UploadKept
  <2>2. submission'[uploading.slot] = submission[uploading.slot]
    BY <1>2, <2>1 DEF SubmissionInv
  <2> QED
    BY <1>2, <2>2 DEF SubmissionInv, UploadKept
<1> QED
  BY <1>1, <1>2


\* The counts of a manifest, of which that of the files is not zero.
LEMMA LeavesCounted ==
  ASSUME NEW ls \in GoodLeaves
  PROVE  /\ TallyLeafCounts(ls) \in [LeafTypes -> Nat]
         /\ TallyLeafCounts(ls)["file"] > 0
<1>1. Len(ls) \in Nat /\ Len(ls) > 0 /\ DOMAIN ls = 1..Len(ls) /\ ls[1].type = "file"
  BY LenProperties DEF GoodLeaves
<1>2. IsFiniteSet(1..Len(ls))
  BY <1>1, FS_Interval
<1>3. \A t \in LeafTypes : LET P == {i \in DOMAIN ls : ls[i].type = t}
                           IN  IsFiniteSet(P) /\ Cardinality(P) \in Nat
  BY <1>1, <1>2, FS_Subset, FS_CardinalityType
<1>4. {i \in DOMAIN ls : ls[i].type = "file"} # {}
  BY <1>1
<1>5. Cardinality({i \in DOMAIN ls : ls[i].type = "file"}) # 0
  BY <1>3, <1>4, FS_EmptySet DEF LeafTypes
<1> QED
  BY <1>3, <1>5 DEF TallyLeafCounts, LeafTypes

\* A manifest that is built of good leaves, with which the worker finds nothing wrong.
LEMMA BuiltIsValid ==
  ASSUME NEW x \in Slots, NEW n \in Nat, NEW ls \in GoodLeaves,
         NEW d \in {"desktop", "public_api"}
  PROVE  /\ BuildManifest(<<x, n>>, ls, d) \in Manifest
         /\ ValidateManifest(BuildManifest(<<x, n>>, ls, d)) = {}
<1>1. PICK m : m = BuildManifest(<<x, n>>, ls, d)
  OBVIOUS
<1>2. /\ m.attempt = <<x, n>> /\ m.leaves = ls /\ m.counts = TallyLeafCounts(ls) /\ m.device = d
  BY <1>1 DEF BuildManifest
<1>3. m \in Manifest
  <2>1. ls \in Seq(ManifestLeaf)
    BY DEF GoodLeaves
  <2> QED
    BY <1>1, <2>1, LeavesCounted DEF BuildManifest, Manifest
<1>4. ls \in Seq(ManifestLeaf) /\ Len(ls) \in Nat /\ Len(ls) > 0 /\ DOMAIN ls = 1..Len(ls)
  BY LenProperties DEF GoodLeaves
<1>5. ls # <<>>
  BY <1>4, NotEmpty
<1>6. ~ \E l \in ToSet(ls) : l.type = "file" /\ l.payload.form # "plain"
  BY <1>4 DEF GoodLeaves, ToSet
<1>7. ~HasDuplicates(ls)
  <2>1. Cardinality(ToSet(ls)) = Len(ls)
    BY DEF GoodLeaves
  <2>2. Len(ls) \in Nat
    BY <1>4
  <2> QED
    BY <2>1, <2>2, NotBelow DEF HasDuplicates
<1>8. ValidateManifest(m) = {}
  BY <1>2, <1>5, <1>6, <1>7 DEF ValidateManifest
<1> QED
  BY <1>1, <1>3, <1>8

\* What the enumerated bodies are made of.
LEMMA BodyParts ==
  ASSUME NEW b \in PublicBodies
  PROVE  /\ b.label \in Label /\ b.sha \in Digest /\ b.source \in Source \cup {None}
         /\ b.compliance # None => b.compliance.sha \in Digest
<1>1. \A n \in Names, c \in Contents :
        LET p == PlainBody(n, c)
        IN  /\ p.label \in Label /\ p.sha \in Digest /\ p.source = None /\ p.compliance = None
            /\ DOMAIN p = {"label", "sha", "sized", "compliance", "source"}
  BY DEF PlainBody, Label, Digest
<1>2. PICK n \in Names, c \in Contents :
        LET p == PlainBody(n, c)
        IN  \/ b = p
            \/ b = [p EXCEPT !.sized = FALSE]
            \/ \E l \in Label : b = [p EXCEPT !.label = l]
            \/ \E d \in Digest : b = [p EXCEPT !.sha = d]
            \/ \E k \in [sha : Digest, media : {None, "application/json", "text/plain"}] :
                 b = [p EXCEPT !.compliance = k]
            \/ \E s \in Source : b = [p EXCEPT !.source = s]
  BY DEF PublicBodies
<1>3. PICK p : p = PlainBody(n, c)
  OBVIOUS
<1>4. /\ p.label \in Label /\ p.sha \in Digest /\ p.source = None /\ p.compliance = None
  BY <1>1, <1>3
<1>5. p \in [label : Label, sha : Digest, sized : {TRUE}, compliance : {None}, source : {None}]
  BY <1>3, <1>4 DEF PlainBody
<1>6. CASE b = p \/ b = [p EXCEPT !.sized = FALSE]
  BY <1>4, <1>5, <1>6
<1>7. CASE \E l \in Label : b = [p EXCEPT !.label = l]
  BY <1>4, <1>5, <1>7
<1>8. CASE \E d \in Digest : b = [p EXCEPT !.sha = d]
  BY <1>4, <1>5, <1>8
<1>9. CASE \E k \in [sha : Digest, media : {None, "application/json", "text/plain"}] :
             b = [p EXCEPT !.compliance = k]
  BY <1>4, <1>5, <1>9
<1>10. CASE \E s \in Source : b = [p EXCEPT !.source = s]
  BY <1>4, <1>5, <1>10
<1> QED
  BY <1>2, <1>3, <1>6, <1>7, <1>8, <1>9, <1>10

\* A trimmed label is one.
LEMMA TrimmedLabel ==
  ASSUME NEW l \in Label PROVE TrimLabel(l) \in Label
BY DEF TrimLabel, Label

\* Nothing is taken where there is no row.
LEMMA FreeIsNotUploaded ==
  ASSUME SubmissionInv, NEW x \in FreeSlots
  PROVE  x \in Slots /\ (uploading # None => uploading.slot # x)
<1>1. x \in Slots /\ submission[x] = None
  BY DEF FreeSlots
<1>2. ASSUME uploading # None PROVE uploading.slot # x
  <2>1. submission[uploading.slot] \in AttestationRow
    BY <1>2 DEF SubmissionInv, UploadKept, RowKept
  <2> QED
    BY <1>1, <2>1, SubmissionAssumption
<1> QED
  BY <1>1, <1>2


\* What the public channel accepts.
LEMMA PublicSubmitOK ==
  ASSUME SubmissionInv, NEW x \in Slots, NEW b \in PublicBodies, PublicSubmit(x, b)
  PROVE  SubmissionInv'
<1>1. x \in FreeSlots /\ BodyErrors(b) = {}
  BY DEF PublicSubmit
<1>2. b.label \in Label /\ b.sha \in Digest /\ b.source \in Source \cup {None}
      /\ (b.compliance # None => b.compliance.sha \in Digest)
  BY BodyParts
<1>3. PICK ls : ls = PublicLeaves(b)
  OBVIOUS
<1>4. /\ ls \in GoodLeaves /\ CanBuild(ls) /\ ls[1] = FileLeaf(NormalizeSha256(b.sha))
      /\ \A i \in 1..Len(ls) : ls[i].type = "file"
  BY <1>1, <1>2, <1>3, PublicLeavesAreGood
<1>5. PICK source : source = IF b.source = None THEN None ELSE PublicSourceFromBody(b.source)
  OBVIOUS
<1>6. source \in Source \cup {None}
  BY <1>2, <1>5 DEF PublicSourceFromBody, ModelReleaseFromBody, DatasetInventoryFromBody,
       DatasetRevisionFromBody
<1>7. SourceIsLeaf(source, ls)
  <2>1. PICK d : d = NormalizeSha256(b.sha)
    OBVIOUS
  <2>2. d \in Digest /\ d.form = "plain"
    BY <1>1, <1>2, <2>1 DEF NormalizeSha256, Digest, BodyErrors
  <2>3. source # None => source.canonical = d.of
    BY <1>1, <1>5, <2>1 DEF BodyErrors
  <2>4. d = [of |-> d.of, form |-> "plain"]
    BY <2>2 DEF Digest
  <2>5. ls[1] = FileLeaf(d)
    BY <1>4, <2>1
  <2> QED
    BY <2>3, <2>4, <2>5 DEF SourceIsLeaf
<1>8. PICK m : m = BuildManifest(<<x, 1>>, ls, "public_api")
  OBVIOUS
<1>9. m \in Manifest
  BY <1>4, <1>8, BuiltIsValid
<1>10. PICK a : a = [source |-> source, manifest |-> m, errors |-> {}]
  OBVIOUS
<1>11. a \in AttemptRow
  BY <1>6, <1>9, <1>10 DEF AttemptRow
<1>12. PICK r : r = NewRow(TrimLabel(b.label), FALSE, "validating", source, m)
  OBVIOUS
<1>13. /\ r.byDevice = FALSE /\ r.state = "validating" /\ r.attempts = <<a>>
       /\ r \in AttestationRow
  BY <1>2, <1>10, <1>11, <1>12, TrimmedLabel DEF NewRow, AttestationRow
<1>14. Len(r.attempts) = 1 /\ r.attempts[1] = a
  BY <1>13
<1>15. HasManifest(x, r, 1, a)
  BY <1>4, <1>7, <1>8, <1>10, <1>13 DEF HasManifest
<1>16. RowKept(x, r)
  BY <1>10, <1>13, <1>14, <1>15 DEF RowKept
<1>17. submission' = [submission EXCEPT ![x] = r]
  BY <1>3, <1>4, <1>5, <1>8, <1>12 DEF PublicSubmit
<1>18. UploadKept'
  BY <1>1, <1>17, FreeIsNotUploaded, UploadStays DEF PublicSubmit
<1> QED
  BY <1>16, <1>17, <1>18, RowChanges DEF PublicSubmit

\* The desktop starts an upload in slot x, whose row it has just made or given a new attempt.
LEMMA UploadStarts ==
  ASSUME SubmissionInv, NEW x \in Slots, NEW r, NEW ls \in GoodLeaves,
         RowKept(x, r), r.byDevice, r.state = "pending",
         SourceIsLeaf(r.attempts[Len(r.attempts)].source, ls),
         submission' = [submission EXCEPT ![x] = r],
         uploading' = [slot |-> x, step |-> "upload", leaves |-> ls],
         tenantPlan' = tenantPlan, deviceRevoked' = deviceRevoked
  PROVE  SubmissionInv'
<1>1. PICK u : u = [slot |-> x, step |-> "upload", leaves |-> ls]
  OBVIOUS
<1>2. /\ u \in [slot : Slots, step : {"upload", "finalize"}, leaves : GoodLeaves]
      /\ u.slot = x /\ u.step = "upload" /\ u.leaves = ls
  BY <1>1
<1>3. uploading' = u /\ submission'[x] = r
  BY <1>1 DEF SubmissionInv
<1>4. UploadKept'
  BY <1>2, <1>3 DEF UploadKept
<1> QED
  BY <1>4, RowChanges

\* A form that the device channel takes.
LEMMA CreateWholeFileOK ==
  ASSUME SubmissionInv, NEW x \in Slots, NEW i \in DesktopInputs, CreateWholeFile(x, i)
  PROVE  SubmissionInv'
<1>1. /\ i.label \in Label /\ i.source \in Source \cup {None}
      /\ i.source # None /\ i.source.provider = "model_release" => i.source.canonical = i.of
  <2>1. CASE i \in [label : Label, of : Contents, texts : SUBSET Windows, image : BOOLEAN,
                    source : {None}]
    BY <2>1
  <2>2. CASE i \notin [label : Label, of : Contents, texts : SUBSET Windows, image : BOOLEAN,
                       source : {None}]
    <3>1. /\ i.label \in {[name |-> n, form |-> "plain"] : n \in Names} /\ i.source \in Source
          /\ \/ i.source.provider = "google_drive"
             \/ i.source.provider = "model_release" /\ i.source.canonical = i.of
      BY <2>2 DEF DesktopInputs
    <3> QED
      BY <3>1 DEF Label
  <2> QED
    BY <2>1, <2>2
<1>2. PICK s : s = DesktopSource(i.source)
  OBVIOUS
<1>3. /\ s \in Source \cup {None}
      /\ s # None /\ s.provider = "model_release" => s.canonical = i.of
  <2>1. CASE i.source = None
    BY <1>2, <2>1 DEF DesktopSource
  <2>2. CASE i.source # None /\ i.source.flaw = <<"text", "blank">>
    <3>1. s = [i.source EXCEPT !.flaw = <<"text", "missing">>]
      BY <1>2, <2>2 DEF DesktopSource
    <3>2. <<"text", "missing">> \in Flaws
      BY DEF Flaws
    <3>3. s \in Source
      <4>1. /\ i.source \in [provider : DOMAIN FieldsOf, canonical : Contents \cup {None},
                             flaw : Flaws \cup {None}]
            /\ "text" \in FieldsOf[i.source.provider] /\ i.source.flaw # None
            /\ (i.source.canonical = None) = (i.source.provider = "google_drive")
        <5>1. <<"text", "blank">> \in Flaws
          BY DEF Flaws
        <5>2. i.source \in Source /\ i.source.flaw # None /\ i.source.flaw[1] = "text"
          BY <1>1, <2>2, <5>1, SubmissionAssumption
        <5> QED
          BY <5>2 DEF Source
      <4> QED
        BY <3>1, <3>2, <4>1 DEF Source
    <3> QED
      BY <1>1, <2>2, <3>1, <3>3 DEF Source
  <2>3. CASE i.source # None /\ i.source.flaw \in {<<"hash", "upper">>, <<"remark", "blank">>}
    <3>1. s = [i.source EXCEPT !.flaw = None]
      BY <1>2, <2>3 DEF DesktopSource
    <3> QED
      BY <1>1, <2>3, <3>1 DEF Source
  <2>4. CASE /\ i.source # None
             /\ i.source.flaw \notin {<<"text", "blank">>, <<"hash", "upper">>, <<"remark", "blank">>}
    <3>1. s = i.source
      BY <1>2, <2>4 DEF DesktopSource
    <3> QED
      BY <1>1, <3>1
  <2> QED
    BY <2>1, <2>2, <2>3, <2>4
<1>4. PICK source : source = SourceFromBody(s)
  OBVIOUS
<1>5. /\ source \in Source \cup {None}
      /\ source # None /\ source.provider = "model_release" => source.canonical = i.of
  BY <1>3, <1>4 DEF SourceFromBody
<1>6. PICK ls : ls = DesktopLeaves(i)
  OBVIOUS
<1>7. ls \in GoodLeaves /\ SourceIsLeaf(source, ls)
  BY <1>5, <1>6, DesktopLeavesAreGood DEF SourceIsLeaf
<1>8. PICK a : a = [source |-> source, manifest |-> None, errors |-> {}]
  OBVIOUS
<1>9. a \in AttemptRow
  BY <1>5, <1>8 DEF AttemptRow
<1>10. PICK r : r = NewRow(TrimLabel(i.label), TRUE, "pending", source, None)
  OBVIOUS
<1>11. /\ r.byDevice = TRUE /\ r.state = "pending" /\ r.attempts = <<a>>
       /\ r \in AttestationRow
  BY <1>1, <1>8, <1>9, <1>10, TrimmedLabel DEF NewRow, AttestationRow
<1>12. Len(r.attempts) = 1 /\ r.attempts[1] = a
  BY <1>11
<1>13. RowKept(x, r)
  BY <1>8, <1>11, <1>12 DEF RowKept
<1>14. SourceIsLeaf(r.attempts[Len(r.attempts)].source, ls)
  BY <1>7, <1>8, <1>12
<1> QED
  BY <1>2, <1>4, <1>6, <1>7, <1>10, <1>11, <1>13, <1>14, UploadStarts DEF CreateWholeFile


\* A client of the device channel tries again.
LEMMA RepairAttemptOK ==
  ASSUME SubmissionInv, NEW x \in Slots, NEW i \in DesktopInputs, RepairAttempt(x, i)
  PROVE  SubmissionInv'
<1>1. PICK r : r = submission[x]
  OBVIOUS
<1>2. /\ r # None /\ r.byDevice /\ r.state = "failed_needs_review" /\ RowKept(x, r)
  BY <1>1 DEF RepairAttempt, SubmissionInv
<1>3. r \in AttestationRow /\ r.attempts \in Seq(AttemptRow) /\ Len(r.attempts) \in Nat
  BY <1>2, LenProperties DEF RowKept, AttestationRow
<1>4. PICK a : a = [source |-> None, manifest |-> None, errors |-> {}]
  OBVIOUS
<1>5. a \in AttemptRow /\ a.source = None /\ a.errors = {}
  BY <1>4 DEF AttemptRow
<1>6. PICK as : as = Append(r.attempts, a)
  OBVIOUS
<1>7. /\ as \in Seq(AttemptRow) /\ Len(as) = Len(r.attempts) + 1 /\ as[Len(as)] = a
      /\ \A n \in 1..Len(r.attempts) : as[n] = r.attempts[n]
  BY <1>3, <1>5, <1>6, AppendProperties
<1>8. PICK v : v = [r EXCEPT !.state = "pending", !.attempts = as]
  OBVIOUS
<1>9. v \in AttestationRow /\ v.state = "pending" /\ v.byDevice /\ v.attempts = as
  BY <1>2, <1>3, <1>7, <1>8 DEF AttestationRow
<1>10. \A n \in 1..Len(as) : as[n].errors \subseteq {"device_revoked", "shingling_not_in_plan"}
  <2>1. SUFFICES ASSUME NEW n \in 1..Len(as)
                 PROVE  as[n].errors \subseteq {"device_revoked", "shingling_not_in_plan"}
    OBVIOUS
  <2>2. CASE n = Len(as)
    <3>1. as[n] = a
      BY <1>7, <2>2
    <3> QED
      BY <1>5, <3>1
  <2>3. CASE n # Len(as)
    <3>1. n \in 1..Len(r.attempts)
      BY <1>3, <1>7, <2>3
    <3> QED
      BY <1>2, <1>7, <3>1 DEF RowKept
  <2> QED
    BY <2>2, <2>3
<1>11. RowKept(x, v)
  <2>1. Len(as) > 0
    BY <1>3, <1>7
  <2> QED
    BY <1>9, <1>10, <2>1 DEF RowKept
<1>12. submission' = [submission EXCEPT ![x] = v]
  <2>1. submission' = [submission EXCEPT ![x].state = "pending", ![x].attempts = Append(@, a)]
    BY <1>4 DEF RepairAttempt
  <2> QED
    BY <1>1, <1>3, <1>6, <1>8, <2>1 DEF SubmissionInv, AttestationRow
<1>13. PICK ls : ls = DesktopLeaves(i)
  OBVIOUS
<1>14. ls \in GoodLeaves
  BY <1>13, DesktopLeavesAreGood
<1>15. SourceIsLeaf(v.attempts[Len(v.attempts)].source, ls)
  <2>1. v.attempts[Len(v.attempts)] = a
    BY <1>7, <1>9
  <2> QED
    BY <1>5, <2>1 DEF SourceIsLeaf
<1> QED
  BY <1>9, <1>11, <1>12, <1>13, <1>14, <1>15, UploadStarts DEF RepairAttempt

\* The desktop's manifest arrives.
LEMMA UploadManifestOK ==
  ASSUME SubmissionInv, UploadManifest PROVE SubmissionInv'
<1>1. PICK x : x = uploading.slot
  OBVIOUS
<1>2. PICK r : r = submission[x]
  OBVIOUS
<1>3. PICK ls : ls = uploading.leaves
  OBVIOUS
<1>4. /\ uploading # None /\ uploading.step = "upload"
      /\ uploading \in [slot : Slots, step : {"upload", "finalize"}, leaves : GoodLeaves]
      /\ x \in Slots /\ ls \in GoodLeaves /\ RowKept(x, r) /\ r.byDevice
      /\ SourceIsLeaf(r.attempts[Len(r.attempts)].source, ls)
  BY <1>1, <1>2, <1>3 DEF UploadManifest, SubmissionInv, UploadKept
<1>5. CASE deviceRevoked \/ OverStorageCap(uploading.leaves)
  <2>1. uploading' = None /\ UNCHANGED <<submission, tenantPlan, deviceRevoked>>
    BY <1>5 DEF UploadManifest
  <2> QED
    BY <2>1 DEF SubmissionInv, UploadKept
<1>6. CASE ~ (deviceRevoked \/ OverStorageCap(uploading.leaves))
  <2>1. PICK n : n = Len(r.attempts)
    OBVIOUS
  <2>2. /\ r \in AttestationRow /\ r.attempts \in Seq(AttemptRow) /\ n \in Nat /\ n > 0
        /\ DOMAIN r.attempts = 1..n
    BY <1>4, <2>1, LenProperties DEF RowKept, AttestationRow
  <2>3. PICK a : a = r.attempts[n]
    OBVIOUS
  <2>4. a \in AttemptRow /\ n \in 1..n
    BY <2>1, <2>2, <2>3, ElementOfSeq
  <2>5. PICK m : m = BuildManifest(<<x, n>>, ls, "desktop")
    OBVIOUS
  <2>6. m \in Manifest
    BY <1>4, <2>2, <2>5, BuiltIsValid
  <2>7. PICK b : b = [a EXCEPT !.manifest = m]
    OBVIOUS
  <2>8. b \in AttemptRow /\ b.manifest = m /\ b.source = a.source /\ b.errors = a.errors
    BY <2>4, <2>6, <2>7 DEF AttemptRow
  <2>9. PICK as : as = [r.attempts EXCEPT ![n] = b]
    OBVIOUS
  <2>10. /\ as \in Seq(AttemptRow) /\ Len(as) = n
         /\ \A k \in 1..n : as[k] = IF k = n THEN b ELSE r.attempts[k]
    BY <2>1, <2>2, <2>4, <2>8, <2>9, ExceptSeq
  <2>11. PICK v : v = [r EXCEPT !.state = "uploaded", !.attempts = as]
    OBVIOUS
  <2>12. v \in AttestationRow /\ v.state = "uploaded" /\ v.byDevice /\ v.attempts = as
    BY <1>4, <2>2, <2>10, <2>11 DEF AttestationRow
  <2>13. as[n] = b
    BY <2>4, <2>10
  <2>14. HasManifest(x, v, n, b)
    BY <1>4, <2>1, <2>3, <2>5, <2>8, <2>12 DEF HasManifest
  <2>15. \A k \in 1..Len(as) : as[k].errors \subseteq {"device_revoked", "shingling_not_in_plan"}
    BY <1>4, <2>1, <2>3, <2>8, <2>10 DEF RowKept
  <2>16. RowKept(x, v)
    BY <2>2, <2>10, <2>12, <2>13, <2>14, <2>15 DEF RowKept
  <2>17. submission' = [submission EXCEPT ![x] = v]
    <3>1. submission' = [submission EXCEPT ![x].state = "uploaded", ![x].attempts[n].manifest = m]
      BY <1>1, <1>2, <1>3, <1>6, <2>1, <2>5 DEF UploadManifest
    <3> QED
      BY <1>2, <1>4, <2>2, <2>3, <2>4, <2>7, <2>9, <2>11, <3>1
         DEF SubmissionInv, AttestationRow, AttemptRow
  <2>18. PICK u : u = [uploading EXCEPT !.step = "finalize"]
    OBVIOUS
  <2>19. /\ u \in [slot : Slots, step : {"upload", "finalize"}, leaves : GoodLeaves]
         /\ u.slot = x /\ u.step = "finalize" /\ u.leaves = ls
    BY <1>1, <1>3, <1>4, <2>18
  <2>20. uploading' = u /\ UNCHANGED <<tenantPlan, deviceRevoked>>
    BY <1>6, <2>18 DEF UploadManifest
  <2>21. submission'[x] = v
    BY <1>4, <2>17 DEF SubmissionInv
  <2>22. SourceIsLeaf(v.attempts[Len(v.attempts)].source, ls)
    BY <1>4, <2>1, <2>3, <2>8, <2>10, <2>12, <2>13
  <2>23. UploadKept'
    BY <2>12, <2>16, <2>19, <2>20, <2>21, <2>22 DEF UploadKept
  <2> QED
    BY <1>4, <2>16, <2>17, <2>20, <2>23, RowChanges
<1> QED
  BY <1>5, <1>6


\* The desktop asks for the validation of what it has sent.
LEMMA FinalizeUploadOK ==
  ASSUME SubmissionInv, FinalizeUpload PROVE SubmissionInv'
<1>1. PICK x : x = uploading.slot
  OBVIOUS
<1>2. PICK r : r = submission[x]
  OBVIOUS
<1>3. /\ uploading # None /\ uploading.step = "finalize" /\ uploading' = None
      /\ UNCHANGED <<tenantPlan, deviceRevoked>>
      /\ uploading \in [slot : Slots, step : {"upload", "finalize"}, leaves : GoodLeaves]
      /\ x \in Slots /\ RowKept(x, r) /\ r.byDevice /\ r.state = "uploaded"
  BY <1>1, <1>2 DEF FinalizeUpload, SubmissionInv, UploadKept
<1>4. UploadKept'
  BY <1>3 DEF UploadKept
<1>5. CASE deviceRevoked
  BY <1>3, <1>4, <1>5 DEF FinalizeUpload, SubmissionInv
<1>6. CASE ~deviceRevoked
  <2>1. r \in AttestationRow
    BY <1>3 DEF RowKept
  <2>2. PICK v : v = [r EXCEPT !.state = "validating"]
    OBVIOUS
  <2>3. /\ v \in AttestationRow /\ v.state = "validating" /\ v.byDevice
        /\ v.attempts = r.attempts
    BY <1>3, <2>1, <2>2 DEF AttestationRow
  <2>4. HasManifest(x, v, Len(v.attempts), v.attempts[Len(v.attempts)])
    BY <1>3, <2>3 DEF RowKept, HasManifest
  <2>5. RowKept(x, v)
    BY <1>3, <2>3, <2>4 DEF RowKept
  <2>6. submission' = [submission EXCEPT ![x] = v]
    BY <1>1, <1>2, <1>3, <1>6, <2>1, <2>2 DEF FinalizeUpload, SubmissionInv, AttestationRow
  <2> QED
    BY <1>3, <1>4, <2>5, <2>6, RowChanges
<1> QED
  BY <1>5, <1>6

\* What the worker may have against a row: only that the device was revoked, or that the plan
\* holds no text proofs; and nothing against one of the public channel.
LEMMA IssuesAre ==
  ASSUME SubmissionInv, NEW x \in Slots, NEW r, r = submission[x], r # None,
         r.state = "validating"
  PROVE  /\ AttemptIssues(x) \subseteq {"device_revoked", "shingling_not_in_plan"}
         /\ ~r.byDevice => AttemptIssues(x) = {}
<1>1. PICK n : n = Len(r.attempts)
  OBVIOUS
<1>2. PICK a : a = r.attempts[n]
  OBVIOUS
<1>3. /\ r \in AttestationRow /\ r.attempts \in Seq(AttemptRow) /\ n \in Nat
      /\ HasManifest(x, r, n, a)
  BY <1>1, <1>2, LenProperties DEF SubmissionInv, RowKept, AttestationRow
<1>4. PICK d : d = IF r.byDevice THEN "desktop" ELSE "public_api"
  OBVIOUS
<1>5. PICK ls \in GoodLeaves :
        /\ a.manifest = BuildManifest(<<x, n>>, ls, d)
        /\ r.byDevice \/ \A i \in 1..Len(ls) : ls[i].type # "shingle"
  BY <1>3, <1>4 DEF HasManifest
<1>6. PICK m : m = a.manifest
  OBVIOUS
<1>7. ValidateManifest(m) = {} /\ m.attempt = <<x, n>> /\ m.leaves = ls /\ m.device = d
  <2>1. d \in {"desktop", "public_api"}
    BY <1>4
  <2>2. m = BuildManifest(<<x, n>>, ls, d)
    BY <1>5, <1>6
  <2>3. ValidateManifest(m) = {}
    BY <1>3, <2>1, <2>2, BuiltIsValid
  <2> QED
    BY <2>2, <2>3 DEF BuildManifest
<1>8. ~r.byDevice => ~HasText(m)
  <2>1. DOMAIN ls = 1..Len(ls)
    BY LenProperties DEF GoodLeaves
  <2> QED
    BY <1>5, <1>7, <2>1 DEF HasText, ToSet
<1>9. AttemptIssues(x) =
        {issue \in {"ids_mismatch", "shingling_not_in_plan", "device_mismatch", "device_revoked"} :
           CASE issue = "ids_mismatch"          -> FALSE
             [] issue = "shingling_not_in_plan" -> HasText(m) /\ tenantPlan = "free"
             [] issue = "device_mismatch"       -> FALSE
             [] issue = "device_revoked"        -> r.byDevice /\ deviceRevoked}
  <2>1. AttemptIssues(x) = ValidateManifest(m) \cup
          {issue \in {"ids_mismatch", "shingling_not_in_plan", "device_mismatch", "device_revoked"} :
             CASE issue = "ids_mismatch"          -> m.attempt # <<x, n>>
               [] issue = "shingling_not_in_plan" -> HasText(m) /\ tenantPlan = "free"
               [] issue = "device_mismatch"       -> r.byDevice /\ m.device # "desktop"
               [] issue = "device_revoked"        -> r.byDevice /\ deviceRevoked}
    BY <1>1, <1>2, <1>6 DEF AttemptIssues
  <2>2. ~ (r.byDevice /\ m.device # "desktop")
    BY <1>4, <1>7
  <2> QED
    BY <1>7, <2>1, <2>2
<1> QED
  BY <1>8, <1>9

\* The worker's verdict.
LEMMA ValidateSubmissionOK ==
  ASSUME SubmissionInv, NEW x \in Slots, ValidateSubmission(x) PROVE SubmissionInv'
<1>1. PICK r : r = submission[x]
  OBVIOUS
<1>2. r # None /\ r.state = "validating" /\ RowKept(x, r)
  BY <1>1 DEF ValidateSubmission, SubmissionInv
<1>3. PICK n : n = Len(r.attempts)
  OBVIOUS
<1>4. PICK a : a = r.attempts[n]
  OBVIOUS
<1>5. /\ r \in AttestationRow /\ r.attempts \in Seq(AttemptRow) /\ n \in Nat /\ n > 0
      /\ DOMAIN r.attempts = 1..n /\ HasManifest(x, r, n, a)
  BY <1>2, <1>3, <1>4, LenProperties DEF RowKept, AttestationRow
<1>6. a \in AttemptRow /\ n \in 1..n
  BY <1>3, <1>4, <1>5, ElementOfSeq
<1>7. PICK e : e = AttemptIssues(x)
  OBVIOUS
<1>8. /\ e \subseteq {"device_revoked", "shingling_not_in_plan"}
      /\ ~r.byDevice => e = {}
  BY <1>1, <1>2, <1>7, IssuesAre
<1>9. PICK b : b = [a EXCEPT !.errors = e]
  OBVIOUS
<1>10. b \in AttemptRow /\ b.manifest = a.manifest /\ b.source = a.source /\ b.errors = e
  BY <1>6, <1>8, <1>9 DEF AttemptRow
<1>11. PICK as : as = [r.attempts EXCEPT ![n] = b]
  OBVIOUS
<1>12. /\ as \in Seq(AttemptRow) /\ Len(as) = n
       /\ \A k \in 1..n : as[k] = IF k = n THEN b ELSE r.attempts[k]
  BY <1>3, <1>5, <1>6, <1>10, <1>11, ExceptSeq
<1>13. PICK s : s = IF e = {} THEN "confirmed" ELSE "failed_needs_review"
  OBVIOUS
<1>14. PICK v : v = [r EXCEPT !.state = s, !.attempts = as]
  OBVIOUS
<1>15. /\ v \in AttestationRow /\ v.state = s /\ v.byDevice = r.byDevice /\ v.attempts = as
  BY <1>5, <1>12, <1>13, <1>14 DEF AttestationRow
<1>16. as[n] = b
  BY <1>6, <1>12
<1>17. HasManifest(x, v, n, b)
  BY <1>5, <1>10, <1>15 DEF HasManifest
<1>18. \A k \in 1..Len(as) : as[k].errors \subseteq {"device_revoked", "shingling_not_in_plan"}
  BY <1>2, <1>3, <1>8, <1>10, <1>12 DEF RowKept
<1>19. RowKept(x, v)
  <2>1. ~v.byDevice => v.state \in {"validating", "confirmed"}
    BY <1>8, <1>13, <1>15
  <2> QED
    BY <1>5, <1>12, <1>15, <1>16, <1>17, <1>18, <2>1 DEF RowKept
<1>20. submission' = [submission EXCEPT ![x] = v]
  <2>1. submission' = [submission EXCEPT ![x].state = s, ![x].attempts[n].errors = e]
    BY <1>1, <1>3, <1>7, <1>13 DEF ValidateSubmission
  <2> QED
    BY <1>1, <1>4, <1>5, <1>6, <1>9, <1>11, <1>14, <2>1
       DEF SubmissionInv, AttestationRow, AttemptRow
<1>21. UploadKept'
  <2>1. ASSUME uploading # None PROVE uploading.slot # x
    <3>1. submission[uploading.slot].state \in {"pending", "uploaded"}
      BY <2>1 DEF SubmissionInv, UploadKept
    <3> QED
      BY <1>1, <1>2, <3>1
  <2> QED
    BY <1>20, <2>1, UploadStays DEF ValidateSubmission
<1> QED
  BY <1>19, <1>20, <1>21, RowChanges DEF ValidateSubmission

\* Every step keeps the invariant.
LEMMA SubmissionStepOK ==
  ASSUME SubmissionInv, [SubmissionNext]_submissionVars PROVE SubmissionInv'
<1>1. CASE \E x \in Slots, b \in PublicBodies : PublicSubmit(x, b)
  BY <1>1, PublicSubmitOK
<1>2. CASE \E x \in Slots, i \in DesktopInputs : CreateWholeFile(x, i) \/ RepairAttempt(x, i)
  BY <1>2, CreateWholeFileOK, RepairAttemptOK
<1>3. CASE UploadManifest \/ FinalizeUpload
  BY <1>3, UploadManifestOK, FinalizeUploadOK
<1>4. CASE \E x \in Slots : ValidateSubmission(x)
  BY <1>4, ValidateSubmissionOK
<1>5. CASE SwitchPlan
  BY <1>5 DEF SwitchPlan, SubmissionInv, UploadKept
<1>6. CASE RevokeDevice
  BY <1>6 DEF RevokeDevice, SubmissionInv, UploadKept
<1>7. CASE UNCHANGED submissionVars
  BY <1>7 DEF submissionVars, SubmissionInv, UploadKept
<1> QED
  BY <1>1, <1>2, <1>3, <1>4, <1>5, <1>6, <1>7 DEF SubmissionNext


\* It holds at the start.
LEMMA SubmissionInitOK ==
  SubmissionInit => SubmissionInv
BY DEF SubmissionInit, SubmissionInv, UploadKept

\* What is accepted is confirmed.
LEMMA AcceptedFollows ==
  SubmissionInv => AcceptedIsConfirmed
<1>1. SUFFICES ASSUME SubmissionInv, NEW x \in Slots, submission[x] # None
               PROVE  /\ ~submission[x].byDevice => submission[x].state \in {"validating", "confirmed"}
                      /\ \A n \in DOMAIN submission[x].attempts :
                           submission[x].attempts[n].errors
                             \subseteq {"device_revoked", "shingling_not_in_plan"}
  BY DEF AcceptedIsConfirmed, FreeSlots
<1>2. RowKept(x, submission[x])
  BY <1>1 DEF SubmissionInv
<1>3. DOMAIN submission[x].attempts = 1..Len(submission[x].attempts)
  BY <1>2, LenProperties DEF RowKept, AttestationRow
<1> QED
  BY <1>2, <1>3 DEF RowKept

\* The SDK's bodies are accepted; this is so in every state.
LEMMA SdkBodyFits ==
  ASSUME NEW i \in SdkInputs, i.source # None, ~SdkThrows(i), ~IsLong(i.source),
         i.source.flaw # <<"remark", "long">>
  PROVE  BodyErrors(SdkBody(i)) = {}
<1>1. /\ i.label \in [name : Names, form : {"plain"}] /\ i.source \in Source
      /\ i.source.provider # "google_drive"
  BY DEF SdkInputs
<1>2. PICK s : s = SdkSource(i.source)
  OBVIOUS
<1>3. i.source.flaw \in {None, <<"hash", "upper">>, <<"remark", "blank">>}
  <2>1. i.source.flaw \in Flaws \cup {None}
    BY <1>1 DEF Source
  <2>2. i.source.flaw \notin {<<"text", "blank">>, <<"text", "missing">>, <<"hash", "odd">>,
                              <<"count", "odd">>, <<"text", "long">>, <<"text", "lengthy">>,
                              <<"remark", "long">>}
    BY DEF SdkThrows, IsLong
  <2> QED
    BY <2>1, <2>2 DEF Flaws
<1>4. /\ s.flaw = None /\ s.provider = i.source.provider /\ s.canonical = i.source.canonical
      /\ s \in Source
  BY <1>1, <1>2, <1>3 DEF SdkSource, Source
<1>5. s.provider \in {"model_release", "dataset_inventory", "dataset_revision"}
  BY <1>1, <1>4 DEF Source, FieldsOf
<1>6. <<"text", "missing">> # None /\ <<"count", "odd">> # None
  <2>1. <<"text", "missing">> \in Flaws /\ <<"count", "odd">> \in Flaws
    BY DEF Flaws
  <2> QED
    BY <2>1, SubmissionAssumption
<1>7. PICK b : b = SdkBody(i)
  OBVIOUS
<1>8. PICK d : d = [of |-> i.source.canonical, form |-> "plain"]
  OBVIOUS
<1>9. /\ b.label = i.label /\ b.sha = d /\ b.compliance = None /\ b.source = s
  <2>1. RecordLabel(i) = i.label
    BY DEF RecordLabel
  <2>2. NormalizeSha256(d) = d
    BY <1>8 DEF NormalizeSha256
  <2>3. b = CreateHash(i.label, d, s)
    BY <1>2, <1>7, <1>8, <2>1 DEF SdkBody
  <2> QED
    BY <2>2, <2>3 DEF CreateHash, PlainBody
<1>10. BodySchema(b)
  BY <1>1, <1>4, <1>5, <1>8, <1>9 DEF BodySchema, PublicSourceSchema, FitsFields
<1>11. b.source # None => PublicSourceFromBody(b.source) = s
  BY <1>4, <1>5, <1>6, <1>9 DEF PublicSourceFromBody, ModelReleaseFromBody,
       DatasetInventoryFromBody, DatasetRevisionFromBody, HasTexts, HasCounts
<1>12. NormalizeSha256(b.sha).form = "plain" /\ NormalizeSha256(b.sha).of = s.canonical
  BY <1>4, <1>8, <1>9 DEF NormalizeSha256
<1>13. b.label.form # "blank" /\ ~DuplicateCompliance(b)
  BY <1>1, <1>9 DEF DuplicateCompliance
<1>14. BodyErrors(b) = {}
  BY <1>9, <1>10, <1>11, <1>12, <1>13 DEF BodyErrors
<1> QED
  BY <1>7, <1>14

\* What is shown of a confirmed attestation is what it attests.
LEMMA ShownFollows ==
  SubmissionInv => ShownIsAttested
<1>1. SUFFICES ASSUME SubmissionInv, NEW x \in Confirmed, NEW r, r = submission[x],
                      NEW source, source = PrimaryAttestationSource(x),
                      NEW m, m = Last(r.attempts).manifest
               PROVE  /\ source # None /\ source.provider = "model_release" /\ Len(r.attempts) = 1
                           => FileLeaf([of |-> source.canonical, form |-> "plain"]) \in ToSet(m.leaves)
                      /\ "whole-file" \in SummarizeCoverage(m)
  BY DEF ShownIsAttested
<1>2. PICK n : n = Len(r.attempts)
  OBVIOUS
<1>3. PICK a : a = r.attempts[n]
  OBVIOUS
<1>4. /\ x \in Slots /\ r # None /\ r.state = "confirmed" /\ RowKept(x, r)
  BY <1>1 DEF Confirmed, FreeSlots, SubmissionInv
<1>5. /\ r.attempts \in Seq(AttemptRow) /\ n \in Nat /\ DOMAIN r.attempts = 1..n
      /\ HasManifest(x, r, n, a)
  BY <1>2, <1>3, <1>4, LenProperties DEF RowKept, AttestationRow
<1>6. PICK ls \in GoodLeaves, d \in {"desktop", "public_api"} :
        a.manifest = BuildManifest(<<x, n>>, ls, d) /\ SourceIsLeaf(a.source, ls)
  BY <1>5 DEF HasManifest
<1>7. m.leaves = ls /\ m.counts = TallyLeafCounts(ls)
  <2>1. Last(r.attempts) = a
    BY <1>2, <1>3 DEF Last
  <2>2. m = BuildManifest(<<x, n>>, ls, d)
    BY <1>1, <1>6, <2>1
  <2> QED
    BY <2>2 DEF BuildManifest
<1>8. ls[1] \in ToSet(ls)
  <2>1. ls \in Seq(ManifestLeaf) /\ Len(ls) > 0
    BY DEF GoodLeaves
  <2>2. DOMAIN ls = 1..Len(ls) /\ Len(ls) \in Nat
    BY <2>1, LenProperties
  <2>3. 1 \in DOMAIN ls
    BY <2>1, <2>2
  <2> QED
    BY <2>3 DEF ToSet
<1>9. ASSUME source # None, source.provider = "model_release", n = 1
      PROVE  FileLeaf([of |-> source.canonical, form |-> "plain"]) \in ToSet(ls)
  <2> DEFINE read == [k \in DOMAIN submission[x].attempts |->
                        ReadSourceMetadata(submission[x].attempts[k].source)]
             with == {k \in DOMAIN read : read[k] # None}
  <2>1. source = IF read[Len(read)] # None \/ with = {} THEN read[Len(read)]
                 ELSE read[CHOOSE k \in with : \A j \in with : k <= j]
    BY <1>1 DEF PrimaryAttestationSource
  <2>2. DOMAIN submission[x].attempts = 1..1 /\ submission[x].attempts[1] = a
    BY <1>1, <1>3, <1>5, <1>9
  <2>3. \A k \in DOMAIN submission[x].attempts :
          read[k] = ReadSourceMetadata(submission[x].attempts[k].source)
    OBVIOUS
  <2>4. DOMAIN read = DOMAIN submission[x].attempts /\ with = {k \in DOMAIN read : read[k] # None}
    OBVIOUS
  <2>5. read = [k \in DOMAIN read |-> read[k]]
    OBVIOUS
  <2> HIDE DEF read, with
  <2>8. DOMAIN read = 1..1 /\ read[1] = ReadSourceMetadata(a.source)
    BY <2>2, <2>3, <2>4
  <2>9. Len(read) = 1
    <3>1. read \in [1..1 -> {read[1]}]
      BY <2>5, <2>8
    <3>2. PICK j \in Nat : j = 1
      OBVIOUS
    <3>3. read \in [1..j -> {read[1]}]
      BY <3>1, <3>2
    <3>4. read \in Seq({read[1]}) /\ Len(read) = j
      BY <3>3
    <3> QED
      BY <3>2, <3>4
  <2>6. source = read[1]
    <3>1. read[1] = None => with = {}
      BY <2>4, <2>8
    <3> QED
      BY <2>1, <2>9, <3>1
  <2>7. source = a.source
    BY <1>9, <2>8, <2>6 DEF ReadSourceMetadata, SourceFromBody
  <2> QED
    BY <1>6, <1>8, <1>9, <2>7 DEF SourceIsLeaf
<1>10. "whole-file" \in SummarizeCoverage(m)
  BY <1>7, LeavesCounted DEF SummarizeCoverage
<1> QED
  BY <1>2, <1>7, <1>9, <1>10

\* It is kept by every step.
THEOREM SubmissionsStayKept ==
  SubmissionSpec => []SubmissionInv
BY SubmissionInitOK, SubmissionStepOK, PTL DEF SubmissionSpec

\* Rows and uploads are what they may be, in every state.
THEOREM SubmissionIsTyped ==
  SubmissionSpec => []SubmissionTypeOK
<1>1. SubmissionInv => SubmissionTypeOK
  BY DEF SubmissionInv, SubmissionTypeOK, UploadKept, GoodLeaves
<1> QED
  BY <1>1, SubmissionsStayKept, PTL

\* What either channel accepts is attested, what the SDK builds is accepted, and what is shown
\* of a confirmed attestation is what was accepted: of any contents, labels, plans and repairs.
THEOREM SubmissionsAlwaysTrue ==
  SubmissionSpec => []SubmissionsTrue
<1>1. SdkBodiesFit
  BY SdkBodyFits DEF SdkBodiesFit
<1>2. SubmissionInv => SubmissionsTrue
  BY <1>1, AcceptedFollows, ShownFollows DEF SubmissionsTrue
<1> QED
  BY <1>2, SubmissionsStayKept, PTL
=============================================================================
