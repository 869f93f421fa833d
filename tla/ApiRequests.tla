---------------------------- MODULE ApiRequests ----------------------------
(***************************************************************************)
(* The API serves every request with an asynchronous handler.  Handlers    *)
(* take turns at their awaits, so what one has read may be stale when it   *)
(* writes; only a transaction or a single statement is atomic.  A handler  *)
(* is described by its task: what it has read and what it does next.       *)
(***************************************************************************)
CONSTANTS
  Handlers,   \* requests that may be in flight at the same time
  None        \* no task, no row, no value

VARIABLE work   \* the task of each handler

WorkIn(Tasks) == work \in [Handlers -> Tasks \cup {None}]
NoWork == work = [h \in Handlers |-> None]

Begin(h, task) == work[h] = None /\ work' = [work EXCEPT ![h] = task]
Continue(h, task) == work' = [work EXCEPT ![h] = task]
Finish(h) == Continue(h, None)

\* handler h is about to take the step
At(h, step) == work[h] # None /\ work[h].step = step

\* the handlers other than h that are about to take the step
OthersAt(h, step) == {o \in Handlers \ {h} : At(o, step)}

\* a query fails or the process stops: what was written before stays
Cut(h) == work[h] # None /\ Finish(h)
=============================================================================
