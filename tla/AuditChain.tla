----------------------------- MODULE AuditChain -----------------------------
(***************************************************************************)
(* The audit trail of one tenant: audit_events, the hash chain over them   *)
(* that an Enterprise tenant gets, and the checkpoints an administrator    *)
(* takes of the chain.  Every handler of the API and of the worker writes  *)
(* events, so any number of them append at once; a per-tenant Postgres     *)
(* advisory lock serializes the appends, nothing serializes checkpoints.   *)
(*                                                                         *)
(* A hash stands for what was hashed: the hash of a row is the sequence of *)
(* the events chained up to it, the root of a checkpoint a set of hashes.  *)
(***************************************************************************)
EXTENDS Naturals, Sequences

CONSTANTS
  Writers,   \* handlers that may run at the same time
  Admins,    \* those that may be the checkpoint handler
  Events,    \* ids of audit_events rows
  None,      \* no lock holder, no event
  MaxDeaths  \* bound: handlers that may die half-way

ASSUME AuditConstantsOK ==
  /\ Admins \subseteq Writers
  /\ None \notin Writers \cup Events
  /\ MaxDeaths \in Nat

VARIABLES
  plan,         \* tenants.plan
  events,       \* audit_events
  chain,        \* audit_event_hash_chain
  checkpoints,  \* audit_checkpoints
  lock,         \* holder of the tenant's advisory lock
  writer,       \* what each handler is doing
  deaths        \* handlers that died

vars == <<plan, events, chain, checkpoints, lock, writer, deaths>>

Genesis == <<>>
ChainHash(prev, event) == Append(prev, event)
Hashes == Seq(Events)

ChainRow == [seq : Nat \ {0}, event : Events, prev : Hashes, hash : Hashes]
Checkpoint == [first : Nat \ {0}, last : Nat \ {0}, root : SUBSET Hashes]
NoCheckpoint == [first |-> 0, last |-> 0, root |-> {}]

Steps == {"idle", "plan", "lock", "latest", "insert", "window", "checkpoint", "audit"}
NoRow == [seq |-> 0, hash |-> Genesis]
Writer ==
  [step   : Steps,
   event  : Events \cup {None},
   latest : [seq : Nat, hash : Hashes],      \* latest chain row it read
   start  : Nat,                             \* startSeq of a checkpoint
   window : Checkpoint \cup {NoCheckpoint}]  \* the checkpoint to insert
IdleWriter == [step |-> "idle", event |-> None, latest |-> NoRow, start |-> 0,
               window |-> NoCheckpoint]

TypeOK ==
  /\ plan \in {"free", "enterprise"}
  /\ events \subseteq Events
  /\ chain \subseteq ChainRow
  /\ checkpoints \subseteq Checkpoint
  /\ lock \in Writers \cup {None}
  /\ writer \in [Writers -> Writer]
  /\ deaths \in 0..MaxDeaths

Init ==
  /\ plan = "free"
  /\ events = {}
  /\ chain = {}
  /\ checkpoints = {}
  /\ lock = None
  /\ writer = [w \in Writers |-> IdleWriter]
  /\ deaths = 0

-----------------------------------------------------------------------------
(* writeAuditEvent, then appendChainEntryIfEnterprise                       *)

\* no route changes the plan: the operator does, in SQL
SetPlan(p) ==
  /\ plan' = p
  /\ UNCHANGED <<events, chain, checkpoints, lock, writer, deaths>>

\* the event is committed on its own, before anything of the chain is read; it
\* is the whole call of a handler, or the end of a checkpoint
WriteEvent(w, e) ==
  /\ writer[w].step \in {"idle", "audit"}
  /\ e \notin events
  /\ events' = events \cup {e}
  /\ writer' = [writer EXCEPT ![w] = [IdleWriter EXCEPT !.step = "plan", !.event = e]]
  /\ UNCHANGED <<plan, chain, checkpoints, lock, deaths>>

\* the plan is read outside the transaction
ReadPlan(w) ==
  /\ writer[w].step = "plan"
  /\ writer' = [writer EXCEPT ![w] =
                  IF plan = "enterprise"
                    THEN [IdleWriter EXCEPT !.step = "lock", !.event = writer[w].event]
                    ELSE IdleWriter]
  /\ UNCHANGED <<plan, events, chain, checkpoints, lock, deaths>>

\* mutant: the lock is not waited for
TakeChainLockAtOnce(w) ==
  /\ writer[w].step = "lock"
  /\ lock' = w
  /\ writer' = [writer EXCEPT ![w].step = "latest"]
  /\ UNCHANGED <<plan, events, chain, checkpoints, deaths>>

\* pg_advisory_xact_lock
TakeChainLock(w) ==
  /\ writer[w].step = "lock"
  /\ lock = None
  /\ lock' = w
  /\ writer' = [writer EXCEPT ![w].step = "latest"]
  /\ UNCHANGED <<plan, events, chain, checkpoints, deaths>>

LatestRows ==
  IF chain = {} THEN {NoRow}
  ELSE {[seq |-> r.seq, hash |-> r.hash] :
          r \in {r \in chain : \A q \in chain : q.seq <= r.seq}}

ReadLatest(w) ==
  /\ writer[w].step = "latest"
  /\ \E row \in LatestRows :
       writer' = [writer EXCEPT ![w] =
                    [IdleWriter EXCEPT !.step = "insert", !.event = writer[w].event,
                                       !.latest = row]]
  /\ UNCHANGED <<plan, events, chain, checkpoints, lock, deaths>>

\* mutant: the row is linked to the genesis whatever came before
NextRowFromGenesis(event, latest) ==
  [seq |-> latest.seq + 1, event |-> event, prev |-> Genesis,
   hash |-> ChainHash(Genesis, event)]

NextRow(event, latest) ==
  [seq |-> latest.seq + 1, event |-> event, prev |-> latest.hash,
   hash |-> ChainHash(latest.hash, event)]

\* the unique indexes on the sequence number and on the event
Unique(row) == \A r \in chain : r.seq # row.seq /\ r.event # row.event

\* the insert and the commit, which releases the lock; a row the indexes refuse
\* rolls back, and writeAuditEvent throws
InsertChainRow(w) ==
  /\ writer[w].step = "insert"
  /\ LET row == NextRow(writer[w].event, writer[w].latest)
     IN  chain' = IF Unique(row) THEN chain \cup {row} ELSE chain
  /\ lock' = None
  /\ writer' = [writer EXCEPT ![w] = IdleWriter]
  /\ UNCHANGED <<plan, events, checkpoints, deaths>>

-----------------------------------------------------------------------------
(* POST /tenants/:slug/audit/checkpoint                                     *)

Ends == {c.last : c \in checkpoints}

StartSeq ==
  IF checkpoints = {} THEN {1} ELSE {n + 1 : n \in {n \in Ends : \A m \in Ends : m <= n}}

\* the last checkpoint is read
BeginCheckpoint(w) ==
  /\ w \in Admins
  /\ writer[w].step = "idle"
  /\ plan = "enterprise"
  /\ \E start \in StartSeq :
       writer' = [writer EXCEPT ![w] = [IdleWriter EXCEPT !.step = "window",
                                                          !.start = start]]
  /\ UNCHANGED <<plan, events, chain, checkpoints, lock, deaths>>

\* mutant: the last sequence number is taken for the number of rows
CountedWindow(rows, lo, hi) ==
  [first |-> lo.seq, last |-> (hi.seq - lo.seq) + 1, root |-> {r.hash : r \in rows}]

Window(rows, lo, hi) ==
  [first |-> lo.seq, last |-> hi.seq, root |-> {r.hash : r \in rows}]

\* every chain row past it; 409 no_new_chain_entries when there is none
ReadWindow(w) ==
  /\ writer[w].step = "window"
  /\ LET rows == {r \in chain : r.seq >= writer[w].start}
     IN  IF rows = {}
           THEN writer' = [writer EXCEPT ![w] = IdleWriter]
           ELSE \E lo, hi \in rows :
                  /\ \A r \in rows : lo.seq <= r.seq /\ r.seq <= hi.seq
                  /\ writer' = [writer EXCEPT ![w] =
                                  [IdleWriter EXCEPT !.step = "checkpoint",
                                                     !.window = Window(rows, lo, hi)]]
  /\ UNCHANGED <<plan, events, chain, checkpoints, lock, deaths>>

\* the handler goes on to write its own audit event
InsertCheckpoint(w) ==
  /\ writer[w].step = "checkpoint"
  /\ checkpoints' = checkpoints \cup {writer[w].window}
  /\ writer' = [writer EXCEPT ![w] = [IdleWriter EXCEPT !.step = "audit"]]
  /\ UNCHANGED <<plan, events, chain, lock, deaths>>

-----------------------------------------------------------------------------
\* mutant: the lock outlives the connection of the handler that died
WriterDiesHoldingLock(w) ==
  /\ writer[w] # IdleWriter
  /\ deaths < MaxDeaths
  /\ deaths' = deaths + 1
  /\ writer' = [writer EXCEPT ![w] = IdleWriter]
  /\ UNCHANGED <<plan, events, chain, checkpoints, lock>>

\* the process stops or the next statement fails: Postgres rolls back the open
\* transaction and releases its advisory lock
WriterDies(w) ==
  /\ writer[w] # IdleWriter
  /\ deaths < MaxDeaths
  /\ deaths' = deaths + 1
  /\ writer' = [writer EXCEPT ![w] = IdleWriter]
  /\ lock' = IF lock = w THEN None ELSE lock
  /\ UNCHANGED <<plan, events, chain, checkpoints>>

WriterStep(w) ==
  \/ ReadPlan(w)
  \/ TakeChainLock(w)
  \/ ReadLatest(w)
  \/ InsertChainRow(w)
  \/ ReadWindow(w)
  \/ InsertCheckpoint(w)

Next ==
  \/ \E p \in {"free", "enterprise"} : SetPlan(p)
  \/ \E w \in Writers :
       \/ \E e \in Events : WriteEvent(w, e)
       \/ BeginCheckpoint(w)
       \/ WriterStep(w)
       \/ WriterDies(w)

Spec == Init /\ [][Next]_vars

\* a handler whose query has been answered goes on; Postgres grants a lock in
\* the order it was asked for
FairSpec ==
  Spec /\ \A w \in Writers : WF_vars(WriterStep(w)) /\ SF_vars(TakeChainLock(w))

-----------------------------------------------------------------------------
\* GET /tenants/:slug/audit/integrity: every row recomputes from its event
IntegrityWalk ==
  \A r \in chain : r.event \in events /\ r.hash = ChainHash(r.prev, r.event)

\* The chain is one: its rows are numbered from 1 without gap or duplicate, the
\* first is linked to the genesis and each other to the row before it, and the
\* integrity walk finds nothing, whatever appends run at the same time and
\* wherever they stop.
ChainIntact ==
  /\ IntegrityWalk
  /\ \A q, r \in chain : q.seq = r.seq \/ q.event = r.event => q = r
  /\ \A r \in chain :
       IF r.seq = 1 THEN r.prev = Genesis
                    ELSE \E q \in chain : q.seq + 1 = r.seq /\ q.hash = r.prev

\* An append that reached the lock ends with its event in the chain, unless its
\* handler died: the unique indexes never have to refuse a row, which would
\* leave the event outside the chain.
AppendsLand ==
  [][\A w \in Writers :
       writer[w].step \in {"lock", "latest", "insert"} /\ writer'[w] = IdleWriter =>
         deaths' > deaths \/ \E r \in chain' : r.event = writer[w].event]_vars

Matches(c) ==
  /\ c.first <= c.last
  /\ \A n \in c.first..c.last : \E r \in chain : r.seq = n
  /\ c.root = {r.hash : r \in {r \in chain : c.first <= r.seq /\ r.seq <= c.last}}

\* A checkpoint names rows that are there, all of them from its first to its
\* last, and its root is over exactly those, then and ever after.
CheckpointsMatchChain == \A c \in checkpoints : Matches(c)

-----------------------------------------------------------------------------
(* The inductive invariant: the advisory lock is held from the read of the  *)
(* latest row to the insert, so that row is still the latest one then; an   *)
(* event is appended by one handler only; a window read matches the chain.  *)

Appending == {"plan", "lock", "latest", "insert"}

LockInv == \A w \in Writers : lock = w <=> writer[w].step \in {"latest", "insert"}

LatestInv == \A w \in Writers : writer[w].step = "insert" => writer[w].latest \in LatestRows

EventsInv ==
  \A w \in Writers : writer[w].step \in Appending =>
    /\ writer[w].event \in events
    /\ \A r \in chain : r.event # writer[w].event
    /\ \A v \in Writers :
         writer[v].step \in Appending /\ writer[v].event = writer[w].event => v = w

WindowInv == \A w \in Writers : writer[w].step = "checkpoint" => Matches(writer[w].window)

ChainCounted == \A r \in chain : \A n \in 1..r.seq : \E q \in chain : q.seq = n

IInv ==
  /\ TypeOK
  /\ LockInv
  /\ LatestInv
  /\ EventsInv
  /\ WindowInv
  /\ ChainCounted
  /\ ChainIntact
  /\ CheckpointsMatchChain

-----------------------------------------------------------------------------
\* Checkpoints are taken since the last one (the comment on the route): their
\* windows neither overlap nor leave rows out.
CheckpointsTile ==
  \A c \in checkpoints :
    /\ c.first = 1 \/ \E b \in checkpoints : b.last + 1 = c.first
    /\ \A d \in checkpoints : c # d => c.last < d.first \/ d.last < c.first

\* An append in progress ends: the lock is always released in the end.
AppendsEnd ==
  \A w \in Writers : (writer[w].step = "lock") ~> (writer[w] = IdleWriter)

=============================================================================
