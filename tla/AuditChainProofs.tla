-------------------------- MODULE AuditChainProofs --------------------------
(***************************************************************************)
(* Proofs about what Proveria hashes: the chain of audit events            *)
(* (AuditChain), for every set of handlers, administrators and events, and *)
(* the tree over the leaves of a manifest (Merkle), for any number of      *)
(* leaves.                                                                 *)
(*                                                                         *)
(* The chain's argument is the lock's: between ReadLatest and              *)
(* InsertChainRow the handler holds it (LockInv), only the holder inserts, *)
(* so the row it read is still the latest (LatestInv), the next number is  *)
(* free and the indexes accept the row.  A window is read without the      *)
(* lock; it matches the chain because rows are only ever added past the    *)
(* latest one.                                                             *)
(*                                                                         *)
(* The tree's argument goes up its levels.  Each stands for the leaves of  *)
(* the set and no others, so a root tells its set; and the proof as it     *)
(* grows leads from the leaf to the node that it has reached.  What is     *)
(* defined by recursion is reasoned about through the least number at      *)
(* which it would fail (UpTo).                                             *)
(***************************************************************************)
EXTENDS AuditChain, Merkle, SequenceTheorems, FiniteSetTheorems, FunctionTheorems, TLAPS

\* The parts of a writer's record an action leaves or sets are of their types.
LEMMA IdleTyped == IdleWriter \in Writer
<1>1. Genesis \in Hashes
  BY DEF Genesis, Hashes
<1> QED
  BY <1>1 DEF IdleWriter, Writer, Steps, NoRow, NoCheckpoint

\* The hash of an event after a hash is a hash.
LEMMA HashTyped ==
  ASSUME NEW h \in Hashes, NEW e \in Events
  PROVE  ChainHash(h, e) \in Hashes
BY DEF ChainHash, Hashes

\* What LatestRows offers is a number and a hash.
LEMMA LatestTyped ==
  ASSUME chain \subseteq ChainRow
  PROVE  LatestRows \subseteq [seq : Nat, hash : Hashes]
<1>1. Genesis \in Hashes
  BY DEF Genesis, Hashes
<1> QED
  BY <1>1 DEF LatestRows, NoRow, ChainRow

\* A row in hand says at which number the chain ends.
LEMMA LatestBounds ==
  ASSUME chain \subseteq ChainRow, NEW l \in LatestRows, NEW r \in chain
  PROVE  /\ r.seq <= l.seq
         /\ \E q \in chain : q.seq = l.seq /\ q.hash = l.hash
BY DEF LatestRows, ChainRow, NoRow

\* With no row at all the latest is NoRow.
LEMMA LatestOfNone ==
  ASSUME chain = {}, NEW l \in LatestRows
  PROVE  l.seq = 0 /\ l.hash = Genesis
BY DEF LatestRows, NoRow

\* The initial state satisfies the invariant.
LEMMA AuditInit == Init => IInv
<1> SUFFICES ASSUME Init PROVE IInv
  OBVIOUS
<1>1. TypeOK
  BY IdleTyped, AuditConstantsOK DEF Init, TypeOK
<1>2. LockInv /\ LatestInv /\ EventsInv /\ WindowInv
  BY AuditConstantsOK DEF Init, LockInv, LatestInv, EventsInv, WindowInv, IdleWriter, Appending
<1>3. ChainCounted /\ ChainIntact /\ CheckpointsMatchChain
  BY DEF Init, ChainCounted, ChainIntact, IntegrityWalk, CheckpointsMatchChain
<1> QED
  BY <1>1, <1>2, <1>3 DEF IInv

-----------------------------------------------------------------------------
(* Steps that change neither the chain nor the checkpoints                  *)

\* What the invariant says of the tables alone survives such a step.
LEMMA TablesKept ==
  ASSUME ChainCounted, ChainIntact, CheckpointsMatchChain,
         UNCHANGED <<chain, checkpoints>>, events \subseteq events'
  PROVE  ChainCounted' /\ ChainIntact' /\ CheckpointsMatchChain'
<1>1. ChainCounted' /\ CheckpointsMatchChain'
  BY DEF ChainCounted, CheckpointsMatchChain, Matches
<1>2. ChainIntact'
  BY DEF ChainIntact, IntegrityWalk, ChainHash, Genesis
<1> QED
  BY <1>1, <1>2

\* A handler that leaves the lock and the tables alone and stops appending, or
\* goes on appending the same event, keeps the parts about handlers.
LEMMA WriterMoves ==
  ASSUME IInv, NEW w \in Writers, NEW x \in Writer,
         writer' = [writer EXCEPT ![w] = x],
         UNCHANGED <<events, chain, lock>>,
         x.step \in {"latest", "insert"} <=> lock = w,
         x.step = "insert" => x.latest \in LatestRows,
         x.step \in Appending => writer[w].step \in Appending /\ x.event = writer[w].event,
         x.step = "checkpoint" => Matches(x.window)
  PROVE  LockInv' /\ LatestInv' /\ EventsInv' /\ WindowInv'
<1> USE DEF IInv, TypeOK
<1>1. \A v \in Writers : writer'[v] = IF v = w THEN x ELSE writer[v]
  OBVIOUS
<1>2. LockInv'
  BY <1>1 DEF LockInv
<1>3. LatestInv'
  BY <1>1 DEF LatestInv, LatestRows
<1>4. EventsInv'
  BY <1>1 DEF EventsInv
<1>5. WindowInv'
  BY <1>1 DEF WindowInv, Matches
<1> QED
  BY <1>2, <1>3, <1>4, <1>5

\* SetPlan touches only the plan.
LEMMA SetPlanKeeps ==
  ASSUME IInv, NEW p \in {"free", "enterprise"}, SetPlan(p)
  PROVE  IInv'
<1>1. TypeOK'
  BY DEF IInv, TypeOK, SetPlan
<1>2. LockInv' /\ LatestInv' /\ EventsInv' /\ WindowInv'
  <2>1. LockInv' /\ LatestInv'
    BY DEF IInv, SetPlan, LockInv, LatestInv, LatestRows
  <2>2. EventsInv'
    BY DEF IInv, SetPlan, EventsInv
  <2>3. WindowInv'
    BY DEF IInv, SetPlan, WindowInv, Matches
  <2> QED
    BY <2>1, <2>2, <2>3
<1>3. ChainCounted' /\ ChainIntact' /\ CheckpointsMatchChain'
  BY TablesKept DEF IInv, SetPlan
<1> QED
  BY <1>1, <1>2, <1>3 DEF IInv

\* A new event is nobody else's and not in the chain yet.
LEMMA WriteEventKeeps ==
  ASSUME IInv, NEW w \in Writers, NEW e \in Events, WriteEvent(w, e)
  PROVE  IInv'
<1> DEFINE x == [IdleWriter EXCEPT !.step = "plan", !.event = e]
<1>1. x \in Writer
  BY IdleTyped DEF Writer, Steps
<1>2. TypeOK'
  BY <1>1 DEF IInv, TypeOK, WriteEvent
<1>3. /\ x.step = "plan" /\ x.event = e
      /\ \A v \in Writers : writer'[v] = IF v = w THEN x ELSE writer[v]
  BY DEF IInv, TypeOK, WriteEvent, IdleWriter
<1>4. LockInv' /\ LatestInv' /\ WindowInv'
  BY <1>3 DEF IInv, WriteEvent, LockInv, LatestInv, LatestRows, WindowInv, Matches
<1>5. \A r \in chain : r.event # e
  BY DEF IInv, ChainIntact, IntegrityWalk, WriteEvent
<1>6. EventsInv'
  <2>1. ASSUME NEW v \in Writers, writer'[v].step \in Appending
        PROVE  /\ writer'[v].event \in events'
               /\ \A r \in chain' : r.event # writer'[v].event
    BY <1>3, <1>5, <2>1 DEF IInv, EventsInv, WriteEvent
  <2>2. ASSUME NEW v \in Writers, NEW u \in Writers,
               writer'[v].step \in Appending, writer'[u].step \in Appending,
               writer'[v].event = writer'[u].event
        PROVE  v = u
    BY <1>3, <2>2 DEF IInv, EventsInv, WriteEvent
  <2> QED
    BY <2>1, <2>2 DEF EventsInv
<1>7. ChainCounted' /\ ChainIntact' /\ CheckpointsMatchChain'
  BY TablesKept DEF IInv, WriteEvent
<1> QED
  BY <1>2, <1>4, <1>6, <1>7 DEF IInv

\* Reading the plan keeps the event or ends the append.
LEMMA ReadPlanKeeps ==
  ASSUME IInv, NEW w \in Writers, ReadPlan(w)
  PROVE  IInv'
<1> DEFINE x == IF plan = "enterprise"
                  THEN [IdleWriter EXCEPT !.step = "lock", !.event = writer[w].event]
                  ELSE IdleWriter
<1>1. x \in Writer
  BY IdleTyped DEF IInv, TypeOK, Writer, Steps
<1>2. TypeOK'
  BY <1>1 DEF IInv, TypeOK, ReadPlan
<1>3. x.step \in {"lock", "idle"} /\ (x.step = "lock" => x.event = writer[w].event)
  BY DEF IdleWriter
<1>4. lock # w
  BY DEF IInv, LockInv, ReadPlan
<1>5. LockInv' /\ LatestInv' /\ EventsInv' /\ WindowInv'
  BY <1>1, <1>3, <1>4, WriterMoves DEF ReadPlan, Appending
<1>6. ChainCounted' /\ ChainIntact' /\ CheckpointsMatchChain'
  BY TablesKept DEF IInv, ReadPlan
<1> QED
  BY <1>2, <1>5, <1>6 DEF IInv

\* The lock goes to one handler when nobody holds it.
LEMMA TakeChainLockKeeps ==
  ASSUME IInv, NEW w \in Writers, TakeChainLock(w)
  PROVE  IInv'
<1> DEFINE x == [writer[w] EXCEPT !.step = "latest"]
<1>1. x \in Writer
  BY DEF IInv, TypeOK, Writer, Steps
<1>2. TypeOK'
  BY <1>1 DEF IInv, TypeOK, TakeChainLock
<1>3. /\ x.step = "latest" /\ x.event = writer[w].event
      /\ \A v \in Writers : writer'[v] = IF v = w THEN x ELSE writer[v]
  BY DEF IInv, TypeOK, TakeChainLock, Writer
<1>4. LockInv'
  BY <1>3, AuditConstantsOK DEF IInv, TakeChainLock, LockInv
<1>5. LatestInv' /\ WindowInv'
  <2>1. LatestInv'
    BY <1>3 DEF IInv, TakeChainLock, LatestInv, LatestRows
  <2>2. WindowInv'
    BY <1>3 DEF IInv, TakeChainLock, WindowInv, Matches
  <2> QED
    BY <2>1, <2>2
<1>6. EventsInv'
  BY <1>3 DEF IInv, TakeChainLock, EventsInv, Appending
<1>7. ChainCounted' /\ ChainIntact' /\ CheckpointsMatchChain'
  BY TablesKept DEF IInv, TakeChainLock
<1> QED
  BY <1>2, <1>4, <1>5, <1>6, <1>7 DEF IInv

\* The latest row is read by the holder of the lock.
LEMMA ReadLatestKeeps ==
  ASSUME IInv, NEW w \in Writers, ReadLatest(w)
  PROVE  IInv'
<1>1. PICK row \in LatestRows :
        writer' = [writer EXCEPT ![w] =
                     [IdleWriter EXCEPT !.step = "insert", !.event = writer[w].event,
                                        !.latest = row]]
  BY DEF ReadLatest
<1> DEFINE x == [IdleWriter EXCEPT !.step = "insert", !.event = writer[w].event,
                                   !.latest = row]
<1>2. row \in [seq : Nat, hash : Hashes]
  BY LatestTyped DEF IInv, TypeOK
<1>3. x \in Writer
  BY IdleTyped, <1>2 DEF IInv, TypeOK, Writer, Steps
<1>4. TypeOK'
  BY <1>1, <1>3 DEF IInv, TypeOK, ReadLatest
<1>5. x.step = "insert" /\ x.event = writer[w].event /\ x.latest = row
  BY DEF IdleWriter
<1>6. lock = w
  BY DEF IInv, LockInv, ReadLatest
<1>7. LockInv' /\ LatestInv' /\ EventsInv' /\ WindowInv'
  BY <1>1, <1>3, <1>5, <1>6, WriterMoves DEF ReadLatest, Appending
<1>8. ChainCounted' /\ ChainIntact' /\ CheckpointsMatchChain'
  BY TablesKept DEF IInv, ReadLatest
<1> QED
  BY <1>4, <1>7, <1>8 DEF IInv

-----------------------------------------------------------------------------
(* Steps that change the chain or the checkpoints                           *)

\* The row the holder of the lock inserts: the next number, linked to the
\* latest row, not refused by the indexes.
LEMMA RowFits ==
  ASSUME IInv, NEW w \in Writers, writer[w].step = "insert"
  PROVE  LET row == NextRow(writer[w].event, writer[w].latest)
         IN  /\ row \in ChainRow
             /\ row.event = writer[w].event /\ row.event \in events
             /\ row.hash = ChainHash(row.prev, row.event)
             /\ Unique(row)
             /\ \A r \in chain : r.seq < row.seq
             /\ \A n \in 1..row.seq : n = row.seq \/ \E r \in chain : r.seq = n
             /\ IF row.seq = 1 THEN row.prev = Genesis
                 ELSE \E q \in chain : q.seq + 1 = row.seq /\ q.hash = row.prev
<1> DEFINE l == writer[w].latest
           row == NextRow(writer[w].event, l)
<1>1. l \in LatestRows /\ l \in [seq : Nat, hash : Hashes]
  BY LatestTyped DEF IInv, LatestInv, TypeOK
<1>2. /\ writer[w].event \in events /\ writer[w].event \in Events
      /\ \A r \in chain : r.event # writer[w].event
  BY DEF IInv, EventsInv, Appending, TypeOK
<1>3. /\ row.seq = l.seq + 1 /\ row.event = writer[w].event /\ row.prev = l.hash
      /\ row.hash = ChainHash(row.prev, row.event)
  BY DEF NextRow
<1>4. row \in ChainRow
  BY <1>1, <1>2, HashTyped DEF NextRow, ChainRow
<1>5. \A r \in chain : r.seq \in Nat /\ r.seq < row.seq
  BY <1>1, <1>3, LatestBounds DEF IInv, TypeOK, ChainRow
<1>6. Unique(row)
  BY <1>2, <1>3, <1>5 DEF Unique
<1>7. CASE chain = {}
  <2>1. l.seq = 0 /\ l.hash = Genesis
    BY <1>1, <1>7, LatestOfNone
  <2> QED
    BY <1>2, <1>3, <1>4, <1>5, <1>6, <2>1
<1>8. CASE chain # {}
  <2>1. PICK q \in chain : q.seq = l.seq /\ q.hash = l.hash
    BY <1>1, <1>8, LatestBounds DEF IInv, TypeOK
  <2>2. q.seq \in Nat \ {0}
    BY DEF IInv, TypeOK, ChainRow
  <2>3. \A n \in 1..row.seq : n = row.seq \/ n \in 1..q.seq
    BY <1>3, <2>1, <2>2
  <2>4. \A n \in 1..row.seq : n = row.seq \/ \E r \in chain : r.seq = n
    BY <2>3 DEF IInv, ChainCounted
  <2> QED
    BY <1>2, <1>3, <1>4, <1>5, <1>6, <2>1, <2>2, <2>4
<1> QED
  BY <1>7, <1>8

\* A checkpoint that matches still does when a row past all others is added.
LEMMA MatchesKept ==
  ASSUME TypeOK, NEW c \in Checkpoint, Matches(c), NEW row \in ChainRow,
         \A r \in chain : r.seq < row.seq, chain' = chain \cup {row}
  PROVE  Matches(c)'
<1>1. c.first \in Nat /\ c.last \in Nat /\ c.last \in c.first..c.last
  BY DEF Checkpoint, Matches
<1>2. c.last < row.seq
  BY <1>1 DEF Matches
<1>3. {r \in chain' : c.first <= r.seq /\ r.seq <= c.last}
        = {r \in chain : c.first <= r.seq /\ r.seq <= c.last}
  BY <1>1, <1>2 DEF ChainRow
<1> QED
  BY <1>3 DEF Matches

\* The insert keeps the chain intact and everything that is said about it.
LEMMA InsertChainRowKeeps ==
  ASSUME IInv, NEW w \in Writers, InsertChainRow(w)
  PROVE  IInv'
<1> DEFINE row == NextRow(writer[w].event, writer[w].latest)
<1>1. /\ row \in ChainRow
      /\ row.event = writer[w].event /\ row.event \in events
      /\ row.hash = ChainHash(row.prev, row.event)
      /\ Unique(row)
      /\ \A r \in chain : r.seq < row.seq
      /\ \A n \in 1..row.seq : n = row.seq \/ \E r \in chain : r.seq = n
      /\ IF row.seq = 1 THEN row.prev = Genesis
          ELSE \E q \in chain : q.seq + 1 = row.seq /\ q.hash = row.prev
  BY RowFits DEF InsertChainRow
<1>2. chain' = chain \cup {row}
  BY <1>1 DEF InsertChainRow
<1> HIDE DEF row
<1>3. \A v \in Writers : writer'[v] = IF v = w THEN IdleWriter ELSE writer[v]
  BY DEF IInv, TypeOK, InsertChainRow
<1>4. IdleWriter.step = "idle"
  BY DEF IdleWriter
<1>5. TypeOK'
  BY <1>1, <1>2, IdleTyped DEF IInv, TypeOK, InsertChainRow
<1>6. \A v \in Writers : writer[v].step \in {"latest", "insert"} => v = w
  BY DEF IInv, LockInv, InsertChainRow
<1>7. LockInv' /\ LatestInv'
  BY <1>3, <1>4, <1>6, AuditConstantsOK DEF InsertChainRow, LockInv, LatestInv
<1>8. EventsInv'
  <2>1. ASSUME NEW v \in Writers, writer'[v].step \in Appending
        PROVE  /\ v # w /\ writer'[v] = writer[v]
               /\ writer[v].event # row.event
    BY <1>1, <1>3, <1>4, <2>1 DEF IInv, EventsInv, Appending, InsertChainRow
  <2> QED
    BY <1>2, <2>1 DEF IInv, EventsInv, InsertChainRow
<1>9. WindowInv'
  <2>1. ASSUME NEW v \in Writers, writer'[v].step = "checkpoint"
        PROVE  Matches(writer[v].window)'
    <3>1. writer'[v] = writer[v] /\ writer[v].step = "checkpoint"
      BY <1>3, <1>4, <2>1
    <3>2. PICK c : c = writer[v].window
      OBVIOUS
    <3>3. Matches(c) /\ c \in Checkpoint \cup {NoCheckpoint}
      BY <3>1, <3>2 DEF IInv, WindowInv, TypeOK, Writer
    <3>4. ~Matches(NoCheckpoint)
      BY DEF IInv, TypeOK, ChainRow, Matches, NoCheckpoint
    <3>5. Matches(c)'
      BY <1>1, <1>2, <3>3, <3>4, MatchesKept DEF IInv
    <3> QED
      BY <3>1, <3>2, <3>5 DEF Matches
  <2> QED
    BY <2>1 DEF WindowInv
<1>10. ChainCounted'
  <2>1. ASSUME NEW r \in chain', NEW n \in 1..r.seq
        PROVE  \E q \in chain' : q.seq = n
    BY <1>1, <1>2, <2>1 DEF IInv, ChainCounted
  <2> QED
    BY <2>1 DEF ChainCounted
<1>11. ChainIntact'
  <2>1. IntegrityWalk'
    BY <1>1, <1>2 DEF IInv, ChainIntact, IntegrityWalk, InsertChainRow, ChainHash
  <2>2. \A q, r \in chain' : q.seq = r.seq \/ q.event = r.event => q = r
    BY <1>1, <1>2 DEF IInv, ChainIntact, Unique
  <2>3. \A r \in chain' :
          IF r.seq = 1 THEN r.prev = Genesis
                       ELSE \E q \in chain' : q.seq + 1 = r.seq /\ q.hash = r.prev
    BY <1>1, <1>2 DEF IInv, ChainIntact
  <2> QED
    BY <2>1, <2>2, <2>3 DEF ChainIntact, Genesis
<1>12. CheckpointsMatchChain'
  <2>1. ASSUME NEW c \in checkpoints' PROVE Matches(c)'
    <3>1. c \in checkpoints /\ c \in Checkpoint /\ Matches(c)
      BY DEF IInv, TypeOK, InsertChainRow, CheckpointsMatchChain
    <3> QED
      BY <1>1, <1>2, <3>1, MatchesKept DEF IInv
  <2> QED
    BY <2>1 DEF CheckpointsMatchChain
<1> QED
  BY <1>5, <1>7, <1>8, <1>9, <1>10, <1>11, <1>12 DEF IInv

\* Reading the last checkpoint.
LEMMA BeginCheckpointKeeps ==
  ASSUME IInv, NEW w \in Writers, BeginCheckpoint(w)
  PROVE  IInv'
<1>1. PICK start \in StartSeq :
        writer' = [writer EXCEPT ![w] = [IdleWriter EXCEPT !.step = "window",
                                                           !.start = start]]
  BY DEF BeginCheckpoint
<1> DEFINE x == [IdleWriter EXCEPT !.step = "window", !.start = start]
<1>2. start \in Nat
  BY DEF IInv, TypeOK, StartSeq, Ends, Checkpoint
<1>3. x \in Writer /\ x.step = "window"
  BY IdleTyped, <1>2 DEF Writer, Steps, IdleWriter
<1>4. TypeOK'
  BY <1>1, <1>3 DEF IInv, TypeOK, BeginCheckpoint
<1>5. lock # w
  BY DEF IInv, LockInv, BeginCheckpoint
<1>6. LockInv' /\ LatestInv' /\ EventsInv' /\ WindowInv'
  BY <1>1, <1>3, <1>5, WriterMoves DEF BeginCheckpoint, Appending
<1>7. ChainCounted' /\ ChainIntact' /\ CheckpointsMatchChain'
  BY TablesKept DEF IInv, BeginCheckpoint
<1> QED
  BY <1>4, <1>6, <1>7 DEF IInv

\* The rows past a number, up to the latest, make a checkpoint that matches.
LEMMA WindowMatches ==
  ASSUME IInv, NEW start \in Nat, NEW lo \in chain, NEW hi \in chain, lo.seq >= start,
         \A r \in chain : r.seq >= start => lo.seq <= r.seq /\ r.seq <= hi.seq
  PROVE  LET c == Window({r \in chain : r.seq >= start}, lo, hi)
         IN  c \in Checkpoint /\ Matches(c)
<1> DEFINE rows == {r \in chain : r.seq >= start}
           c == Window(rows, lo, hi)
<1>1. /\ c.first = lo.seq /\ c.last = hi.seq /\ c.root = {r.hash : r \in rows}
      /\ \A r \in chain : r.seq \in Nat \ {0} /\ r.hash \in Hashes
  BY DEF Window, IInv, TypeOK, ChainRow
<1>2. c \in Checkpoint
  BY <1>1 DEF Window, Checkpoint
<1>3. c.first <= c.last
  BY <1>1
<1>4. \A n \in c.first..c.last : \E r \in chain : r.seq = n
  <2>1. ASSUME NEW n \in c.first..c.last
        PROVE  n \in 1..hi.seq
    <3>1. lo.seq \in Nat \ {0} /\ hi.seq \in Nat /\ n \in lo.seq..hi.seq
      BY <1>1, <2>1
    <3> QED
      BY <3>1
  <2> QED
    BY <2>1 DEF IInv, ChainCounted
<1>5. {r \in chain : c.first <= r.seq /\ r.seq <= c.last} = rows
  <2>1. ASSUME NEW r \in chain
        PROVE  (lo.seq <= r.seq /\ r.seq <= hi.seq) <=> r.seq >= start
    <3>1. r.seq \in Nat /\ lo.seq \in Nat /\ hi.seq \in Nat
      BY <1>1
    <3>2. r.seq >= start => lo.seq <= r.seq /\ r.seq <= hi.seq
      OBVIOUS
    <3> QED
      BY <3>1, <3>2
  <2> HIDE DEF c
  <2>2. c.first = lo.seq /\ c.last = hi.seq
    BY <1>1
  <2> QED
    BY <2>1, <2>2
<1> QED
  BY <1>1, <1>2, <1>3, <1>4, <1>5 DEF Matches

\* A window read matches the chain at that moment.
LEMMA ReadWindowKeeps ==
  ASSUME IInv, NEW w \in Writers, ReadWindow(w)
  PROVE  IInv'
<1> DEFINE rows == {r \in chain : r.seq >= writer[w].start}
<1>1. PICK x : /\ writer' = [writer EXCEPT ![w] = x]
               /\ \/ x = IdleWriter
                  \/ \E lo, hi \in rows :
                       /\ \A r \in rows : lo.seq <= r.seq /\ r.seq <= hi.seq
                       /\ x = [IdleWriter EXCEPT !.step = "checkpoint",
                                                 !.window = Window(rows, lo, hi)]
  BY DEF ReadWindow
<1>2. writer[w].start \in Nat
  BY DEF IInv, TypeOK, Writer
<1>3. /\ x \in Writer /\ x.step \in {"idle", "checkpoint"}
      /\ x.step = "checkpoint" => Matches(x.window)
  <2>1. CASE x = IdleWriter
    BY <2>1, IdleTyped DEF IdleWriter
  <2>2. ASSUME NEW lo \in rows, NEW hi \in rows,
               \A r \in rows : lo.seq <= r.seq /\ r.seq <= hi.seq,
               x = [IdleWriter EXCEPT !.step = "checkpoint",
                                      !.window = Window(rows, lo, hi)]
        PROVE  /\ x \in Writer /\ x.step = "checkpoint" /\ Matches(x.window)
    <3>1. Window(rows, lo, hi) \in Checkpoint /\ Matches(Window(rows, lo, hi))
      BY <1>2, <2>2, WindowMatches
    <3> QED
      BY <2>2, <3>1, IdleTyped DEF Writer, Steps, IdleWriter
  <2> QED
    BY <1>1, <2>1, <2>2
<1>4. TypeOK'
  BY <1>1, <1>3 DEF IInv, TypeOK, ReadWindow
<1>5. lock # w
  BY DEF IInv, LockInv, ReadWindow
<1>6. LockInv' /\ LatestInv' /\ EventsInv' /\ WindowInv'
  BY <1>1, <1>3, <1>5, WriterMoves DEF ReadWindow, Appending
<1>7. ChainCounted' /\ ChainIntact' /\ CheckpointsMatchChain'
  BY TablesKept DEF IInv, ReadWindow
<1> QED
  BY <1>4, <1>6, <1>7 DEF IInv

\* The checkpoint inserted is the one that matched when it was read.
LEMMA InsertCheckpointKeeps ==
  ASSUME IInv, NEW w \in Writers, InsertCheckpoint(w)
  PROVE  IInv'
<1> DEFINE c == writer[w].window
           x == [IdleWriter EXCEPT !.step = "audit"]
<1>1. Matches(c)
  BY DEF IInv, WindowInv, InsertCheckpoint
<1>2. c \in Checkpoint
  <2>1. c \in Checkpoint \cup {NoCheckpoint}
    BY DEF IInv, TypeOK, Writer
  <2>2. ~Matches(NoCheckpoint)
    BY DEF IInv, TypeOK, ChainRow, Matches, NoCheckpoint
  <2> QED
    BY <1>1, <2>1, <2>2
<1>3. x \in Writer /\ x.step = "audit"
  BY IdleTyped DEF Writer, Steps, IdleWriter
<1>4. TypeOK'
  BY <1>2, <1>3 DEF IInv, TypeOK, InsertCheckpoint
<1>5. lock # w
  BY DEF IInv, LockInv, InsertCheckpoint
<1>6. LockInv' /\ LatestInv' /\ EventsInv' /\ WindowInv'
  BY <1>3, <1>5, WriterMoves DEF InsertCheckpoint, Appending
<1>7. ChainCounted' /\ ChainIntact'
  BY DEF IInv, InsertCheckpoint, ChainCounted, ChainIntact, IntegrityWalk, ChainHash, Genesis
<1>8. CheckpointsMatchChain'
  BY <1>1 DEF IInv, InsertCheckpoint, CheckpointsMatchChain, Matches
<1> QED
  BY <1>4, <1>6, <1>7, <1>8 DEF IInv

\* A handler that dies gives the lock back and leaves the tables alone.
LEMMA WriterDiesKeeps ==
  ASSUME IInv, NEW w \in Writers, WriterDies(w)
  PROVE  IInv'
<1>1. \A v \in Writers : writer'[v] = IF v = w THEN IdleWriter ELSE writer[v]
  BY DEF IInv, TypeOK, WriterDies
<1>2. IdleWriter.step = "idle"
  BY DEF IdleWriter
<1>3. TypeOK'
  BY IdleTyped, AuditConstantsOK DEF IInv, TypeOK, WriterDies
<1>4. LockInv'
  BY <1>1, <1>2, AuditConstantsOK DEF IInv, LockInv, WriterDies
<1>5. LatestInv'
  BY <1>1, <1>2 DEF IInv, LatestInv, LatestRows, WriterDies
<1>6. EventsInv'
  BY <1>1, <1>2 DEF IInv, EventsInv, Appending, WriterDies
<1>7. WindowInv'
  BY <1>1, <1>2 DEF IInv, WindowInv, Matches, WriterDies
<1>8. ChainCounted' /\ ChainIntact' /\ CheckpointsMatchChain'
  BY TablesKept DEF IInv, WriterDies
<1> QED
  BY <1>3, <1>4, <1>5, <1>6, <1>7, <1>8 DEF IInv

-----------------------------------------------------------------------------
(* The invariant, and the properties that follow                            *)

\* Every step keeps the invariant.
LEMMA AuditStep == IInv /\ [Next]_vars => IInv'
<1> SUFFICES ASSUME IInv, [Next]_vars PROVE IInv'
  OBVIOUS
<1>1. ASSUME NEW p \in {"free", "enterprise"}, SetPlan(p) PROVE IInv'
  BY <1>1, SetPlanKeeps
<1>2. ASSUME NEW w \in Writers, NEW e \in Events, WriteEvent(w, e) PROVE IInv'
  BY <1>2, WriteEventKeeps
<1>3. ASSUME NEW w \in Writers, WriterStep(w) PROVE IInv'
  BY <1>3, ReadPlanKeeps, TakeChainLockKeeps, ReadLatestKeeps, InsertChainRowKeeps,
     ReadWindowKeeps, InsertCheckpointKeeps DEF WriterStep
<1>4. ASSUME NEW w \in Writers, BeginCheckpoint(w) \/ WriterDies(w) PROVE IInv'
  BY <1>4, BeginCheckpointKeeps, WriterDiesKeeps
<1>5. CASE UNCHANGED vars
  <2>1. TypeOK' /\ LockInv' /\ EventsInv'
    BY <1>5 DEF vars, IInv, TypeOK, LockInv, EventsInv
  <2>2. LatestInv'
    BY <1>5 DEF vars, IInv, LatestInv, LatestRows
  <2>3. WindowInv'
    BY <1>5 DEF vars, IInv, WindowInv, Matches
  <2>4. ChainCounted' /\ ChainIntact' /\ CheckpointsMatchChain'
    BY <1>5, TablesKept DEF vars, IInv
  <2> QED
    BY <2>1, <2>2, <2>3, <2>4 DEF IInv
<1> QED
  BY <1>1, <1>2, <1>3, <1>4, <1>5 DEF Next

\* The invariant holds in every reachable state.
LEMMA AuditInvariant == Spec => []IInv
  BY AuditInit, AuditStep, PTL DEF Spec

\* Every row, event and checkpoint of the audit trail is well typed.
THEOREM AuditTypeCorrect == Spec => []TypeOK
<1>1. IInv => TypeOK
  BY DEF IInv
<1> QED
  BY <1>1, AuditInvariant, PTL

\* The chain is numbered without gap, linked and recomputable, however many
\* appends run at the same time.
THEOREM ChainAlwaysIntact == Spec => []ChainIntact
<1>1. IInv => ChainIntact
  BY DEF IInv
<1> QED
  BY <1>1, AuditInvariant, PTL

\* The root of a checkpoint is over exactly the rows it names, at any later time.
THEOREM CheckpointsAlwaysMatch == Spec => []CheckpointsMatchChain
<1>1. IInv => CheckpointsMatchChain
  BY DEF IInv
<1> QED
  BY <1>1, AuditInvariant, PTL

\* An append that reached the lock ends in the chain or with its handler: what
\* InsertChainRow inserts is never refused.
LEMMA AppendLands ==
  ASSUME IInv, [Next]_vars, NEW w \in Writers,
         writer[w].step \in {"lock", "latest", "insert"}, writer'[w] = IdleWriter
  PROVE  deaths' > deaths \/ \E r \in chain' : r.event = writer[w].event
<1>1. IdleWriter.step = "idle"
  BY DEF IdleWriter
<1>2. CASE UNCHANGED vars
  BY <1>1, <1>2 DEF vars
<1>4. CASE InsertChainRow(w)
  BY <1>4, RowFits DEF InsertChainRow, Unique
<1>5. CASE WriterDies(w)
  BY <1>5 DEF WriterDies, IInv, TypeOK
<1>6. CASE \E p \in {"free", "enterprise"} : SetPlan(p)
  BY <1>1, <1>6 DEF SetPlan
<1>7. ASSUME NEW v \in Writers, (\E e \in Events : WriteEvent(v, e)) \/ BeginCheckpoint(v)
      PROVE  FALSE
  BY <1>1, <1>7 DEF IInv, TypeOK, WriteEvent, BeginCheckpoint
<1>8. ASSUME NEW v \in Writers,
             ReadPlan(v) \/ TakeChainLock(v) \/ ReadLatest(v) \/ ReadWindow(v)
               \/ InsertCheckpoint(v)
      PROVE  FALSE
  <2>1. CASE ReadPlan(v)
    BY <1>1, <2>1 DEF IInv, TypeOK, ReadPlan
  <2>2. CASE TakeChainLock(v)
    BY <1>1, <2>2 DEF IInv, TypeOK, Writer, TakeChainLock
  <2>3. CASE ReadLatest(v)
    BY <1>1, <2>3 DEF IInv, TypeOK, ReadLatest, IdleWriter
  <2>4. CASE ReadWindow(v)
    BY <1>1, <2>4 DEF IInv, TypeOK, ReadWindow
  <2>5. CASE InsertCheckpoint(v)
    BY <1>1, <2>5 DEF IInv, TypeOK, InsertCheckpoint
  <2> QED
    BY <1>8, <2>1, <2>2, <2>3, <2>4, <2>5
<1>9. ASSUME NEW v \in Writers, v # w, InsertChainRow(v) \/ WriterDies(v)
      PROVE  FALSE
  BY <1>1, <1>9 DEF IInv, TypeOK, InsertChainRow, WriterDies
<1> QED
  BY <1>2, <1>4, <1>5, <1>6, <1>7, <1>8, <1>9 DEF Next, WriterStep

\* No append is lost to a unique index: the lock makes the indexes redundant.
THEOREM AppendsAlwaysLand == Spec => AppendsLand
<1>1. IInv /\ [Next]_vars =>
        [\A w \in Writers :
           writer[w].step \in {"lock", "latest", "insert"} /\ writer'[w] = IdleWriter =>
             deaths' > deaths \/ \E r \in chain' : r.event = writer[w].event]_vars
  BY AppendLands
<1> QED
  BY <1>1, AuditInvariant, PTL DEF Spec, AppendsLand

-----------------------------------------------------------------------------
(* The tree of a manifest                                                  *)

\* There is no step: the leaves of a manifest are what they are.
MerkleSpec == MerkleInit /\ [][FALSE]_leafSet

-----------------------------------------------------------------------------
(* Recursion.  What holds of all numbers but some has a least exception.    *)

\* A set of numbers has a least one.
LEMMA LeastOf == ASSUME NEW S \in SUBSET Nat, S # {} PROVE \E i \in S : \A j \in S : i <= j
<1> DEFINE R == {ss \in Nat \X Nat : ss[1] < ss[2]}
<1>1. IsWellFoundedOn(R, Nat)
  BY NatLessThanWellFounded DEF OpToRel
<1>2. PICK i \in S : \A j \in S : <<j, i>> \notin R
  BY <1>1, WFMin
<1>3. \A j \in S : ~(j < i)
  BY <1>2
<1> QED
  BY <1>3

\* A set of numbers that has zero and, with a number, the next one, up to N.
LEMMA UpTo ==
  ASSUME NEW N \in Nat, NEW G, 0 \in G, \A n \in 0..(N - 1) : n \in G => n + 1 \in G
  PROVE  \A n \in 0..N : n \in G
<1>1. SUFFICES ASSUME {n \in 0..N : n \notin G} # {} PROVE FALSE
  OBVIOUS
<1>2. {n \in 0..N : n \notin G} \in SUBSET Nat
  OBVIOUS
<1>3. PICK m \in {n \in 0..N : n \notin G} : \A j \in {n \in 0..N : n \notin G} : m <= j
  BY <1>1, <1>2, LeastOf
<1>4. m \in 0..N /\ m \notin G /\ m # 0
  BY <1>3
<1>5. m - 1 \in 0..(N - 1) /\ (m - 1) + 1 = m
  BY <1>4
<1>6. m - 1 \in G
  BY <1>3, <1>5
<1> QED
  BY <1>4, <1>5, <1>6

\* A level that gives way to the next one, unless it has one node.
UpLevel(level) == IF Len(level) > 1 THEN NextLevel(level) ELSE level
UpClimb(s) ==
  IF Len(s.level) > 1
  THEN [level |-> NextLevel(s.level), proof |-> s.proof \o StepsAt(s.level, s.at),
        at |-> HalfUp(s.at)]
  ELSE s
WalkOn(node, step) == IF step.position = "left" THEN Node(step.sibling, node)
                                                ELSE Node(node, step.sibling)

\* the steps of the three recursions
Turn(kind, p, n, v) == CASE kind = "levels" -> UpLevel(v)
                         [] kind = "climb"  -> UpClimb(v)
                         [] kind = "walk"   -> WalkOn(v, p[n])

Solves(f, a, kind, p, N) == f = [n \in 0..N |-> IF n = 0 THEN a ELSE Turn(kind, p, n, f[n - 1])]

\* What is defined by recursion in such a way is there.
LEMMA RecursionExists ==
  ASSUME NEW a, NEW kind, NEW p, NEW N \in Nat
  PROVE  \E f : Solves(f, a, kind, p, N)
<1> DEFINE Exists(k) == \E f : f = [n \in 0..k |-> IF n = 0 THEN a ELSE Turn(kind, p, n, f[n - 1])]
           G == {k \in Nat : Exists(k)}
<1>1. 0 \in G
  <2>1. PICK f : f = [n \in 0..0 |-> a]
    OBVIOUS
  <2>2. f = [n \in 0..0 |-> IF n = 0 THEN a ELSE Turn(kind, p, n, f[n - 1])]
    BY <2>1
  <2> QED
    BY <2>2
<1>2. ASSUME NEW k \in 0..(N - 1), k \in G PROVE k + 1 \in G
  <2>1. PICK f : f = [n \in 0..k |-> IF n = 0 THEN a ELSE Turn(kind, p, n, f[n - 1])]
    BY <1>2
  <2>2. PICK g : g = [n \in 0..(k + 1) |-> IF n = k + 1 THEN Turn(kind, p, k + 1, f[k]) ELSE f[n]]
    OBVIOUS
  <2>3. \A n \in 0..(k + 1) : g[n] = IF n = 0 THEN a ELSE Turn(kind, p, n, g[n - 1])
    <3>1. SUFFICES ASSUME NEW n \in 0..(k + 1)
                   PROVE  g[n] = IF n = 0 THEN a ELSE Turn(kind, p, n, g[n - 1])
      OBVIOUS
    <3>2. CASE n = k + 1
      <4>1. g[n] = Turn(kind, p, k + 1, f[k]) /\ n # 0 /\ n - 1 = k /\ k \in 0..(k + 1) /\ k # k + 1
        BY <2>2, <3>2
      <4>2. g[k] = f[k]
        BY <2>2, <4>1
      <4> QED
        BY <4>1, <4>2
    <3>3. CASE n # k + 1 /\ n # 0
      <4>1. /\ n \in 0..k /\ n - 1 \in 0..(k + 1) /\ n - 1 # k + 1
        BY <3>3
      <4>2. g[n] = f[n] /\ g[n - 1] = f[n - 1]
        BY <2>2, <3>3, <4>1
      <4>3. f[n] = Turn(kind, p, n, f[n - 1])
        BY <2>1, <3>3, <4>1
      <4> QED
        BY <3>3, <4>2, <4>3
    <3>4. CASE n = 0
      <4>1. 0 \in 0..k /\ 0 # k + 1
        OBVIOUS
      <4>2. g[0] = f[0]
        BY <2>2, <3>4, <4>1
      <4>3. f[0] = a
        BY <2>1, <4>1
      <4> QED
        BY <3>4, <4>2, <4>3
    <3> QED
      BY <3>2, <3>3, <3>4
  <2>4. g = [n \in 0..(k + 1) |-> IF n = 0 THEN a ELSE Turn(kind, p, n, g[n - 1])]
    <3>1. g = [n \in 0..(k + 1) |-> g[n]]
      BY <2>2
    <3> QED
      BY <2>3, <3>1
  <2> QED
    BY <1>2, <2>4
<1> HIDE DEF G
<1>3. \A k \in 0..N : k \in G
  BY <1>1, <1>2, UpTo
<1>4. N \in G
  BY <1>3
<1> QED
  BY <1>4 DEF G, Solves

\* The levels of a tree.
LEMMA LevelsAre ==
  ASSUME NEW S, NEW N \in Nat, N = Cardinality(S)
  PROVE  /\ Levels(S)[0] = SortedLeaves(S)
         /\ \A n \in 1..N : Levels(S)[n] = UpLevel(Levels(S)[n - 1])
<1> DEFINE Is(f) == f = [n \in 0..N |-> IF n = 0 THEN SortedLeaves(S)
                         ELSE LET below == f[n - 1]
                              IN  IF Len(below) > 1 THEN NextLevel(below) ELSE below]
<1>1. \E f : Is(f)
  <2>1. PICK f : Solves(f, SortedLeaves(S), "levels", 0, N)
    BY RecursionExists
  <2>2. \A n : Turn("levels", 0, n, f[n - 1]) = UpLevel(f[n - 1])
    BY DEF Turn
  <2>3. Is(f)
    BY <2>1, <2>2 DEF UpLevel, Solves
  <2> QED
    BY <2>3
<1>2. Levels(S) = CHOOSE f : Is(f)
  BY DEF Levels
<1>3. Is(Levels(S))
  BY <1>1, <1>2
<1>4. PICK l : l = Levels(S)
  OBVIOUS
<1>5. \A n \in 0..N : l[n] = IF n = 0 THEN SortedLeaves(S) ELSE UpLevel(l[n - 1])
  BY <1>3, <1>4 DEF UpLevel
<1> QED
  BY <1>4, <1>5


\* The growing proof of a leaf.
LEMMA ClimbIs ==
  ASSUME NEW S, NEW x, NEW N \in Nat, N = Cardinality(S)
  PROVE  /\ Climb(S, x)[0] = [level |-> SortedLeaves(S), proof |-> <<>>,
               at |-> CHOOSE i \in DOMAIN SortedLeaves(S) : SortedLeaves(S)[i] = Leaf(x)]
         /\ \A n \in 1..N : Climb(S, x)[n] = UpClimb(Climb(S, x)[n - 1])
<1> DEFINE start == [level |-> SortedLeaves(S), proof |-> <<>>,
                     at |-> CHOOSE i \in DOMAIN SortedLeaves(S) : SortedLeaves(S)[i] = Leaf(x)]
           Is(f) == f = [n \in 0..N |-> IF n = 0 THEN start
                         ELSE LET s == f[n - 1]
                              IN  IF Len(s.level) > 1
                                  THEN [level |-> NextLevel(s.level),
                                        proof |-> s.proof \o StepsAt(s.level, s.at),
                                        at    |-> HalfUp(s.at)]
                                  ELSE s]
<1>1. \E f : Is(f)
  <2>1. PICK f : Solves(f, start, "climb", 0, N)
    BY RecursionExists
  <2>2. \A n : Turn("climb", 0, n, f[n - 1]) = UpClimb(f[n - 1])
    BY DEF Turn
  <2>3. f = [n \in 0..N |-> IF n = 0 THEN start ELSE UpClimb(f[n - 1])]
    BY <2>1, <2>2 DEF Solves
  <2>4. Is(f)
    BY <2>3 DEF UpClimb
  <2> QED
    BY <2>4
<1>2. Climb(S, x) = CHOOSE f : Is(f)
  BY DEF Climb
<1>3. Is(Climb(S, x))
  BY <1>1, <1>2
<1>4. PICK c : c = Climb(S, x)
  OBVIOUS
<1>5. \A n \in 0..N : c[n] = IF n = 0 THEN start ELSE UpClimb(c[n - 1])
  BY <1>3, <1>4 DEF UpClimb
<1> QED
  BY <1>4, <1>5

\* The nodes that a proof leads to.
LEMMA WalkIs ==
  ASSUME NEW leaf, NEW p, NEW N \in Nat, N = Len(p)
  PROVE  /\ Ascent(leaf, p)[0] = leaf
         /\ \A n \in 1..N : Ascent(leaf, p)[n] = WalkOn(Ascent(leaf, p)[n - 1], p[n])
<1> DEFINE Is(f) == f = [n \in 0..N |-> IF n = 0 THEN leaf
                         ELSE IF p[n].position = "left" THEN Node(p[n].sibling, f[n - 1])
                                                        ELSE Node(f[n - 1], p[n].sibling)]
<1>1. \E f : Is(f)
  <2>1. PICK f : Solves(f, leaf, "walk", p, N)
    BY RecursionExists
  <2>2. \A n : Turn("walk", p, n, f[n - 1]) = WalkOn(f[n - 1], p[n])
    BY DEF Turn
  <2>3. f = [n \in 0..N |-> IF n = 0 THEN leaf ELSE WalkOn(f[n - 1], p[n])]
    BY <2>1, <2>2 DEF Solves
  <2>4. Is(f)
    BY <2>3 DEF WalkOn
  <2> QED
    BY <2>4
<1>2. Ascent(leaf, p) = CHOOSE f : Is(f)
  BY DEF Ascent
<1>3. Is(Ascent(leaf, p))
  BY <1>1, <1>2
<1>4. PICK w : w = Ascent(leaf, p)
  OBVIOUS
<1>5. \A n \in 0..N : w[n] = IF n = 0 THEN leaf ELSE WalkOn(w[n - 1], p[n])
  BY <1>3, <1>4 DEF WalkOn
<1> QED
  BY <1>4, <1>5

-----------------------------------------------------------------------------
(* Leaves and levels                                                        *)

\* Leaves and nodes can be told from each other, and are what they are made of.
LEMMA NodesDiffer ==
  /\ \A x, y : Leaf(x) = Leaf(y) => x = y
  /\ \A l, r, k, s : Node(l, r) = Node(k, s) => l = k /\ r = s
  /\ \A x, l, r : Leaf(x) # Node(l, r)
<1>1. \A x, y : Leaf(x) = Leaf(y) => x = y
  BY DEF Leaf
<1>2. \A l, r, k, s : Node(l, r) = Node(k, s) => l = k /\ r = s
  BY DEF Node
<1>3. ASSUME NEW x, NEW l, NEW r, Leaf(x) = Node(l, r) PROVE FALSE
  <2>1. Len(<<x>>) = 1 /\ Len(<<l, r>>) = 2
    OBVIOUS
  <2> QED
    BY <1>3, <2>1 DEF Leaf, Node
<1> QED
  BY <1>1, <1>2, <1>3

\* Every member of a finite set of numbers has a place of its own in its order.
LEMMA Ranked ==
  ASSUME NEW S \in SUBSET Nat, IsFiniteSet(S), NEW N \in Nat, N = Cardinality(S)
  PROVE  /\ \A x \in S : Rank(S, x) \in 1..N
         /\ \A i \in 1..N : \E x \in S : Rank(S, x) = i
         /\ \A x, y \in S : Rank(S, x) = Rank(S, y) => x = y
<1> DEFINE To(x) == {y \in S : y <= x}
<1>1. \A x \in S : /\ IsFiniteSet(To(x)) /\ Cardinality(To(x)) \in Nat
                   /\ Cardinality(To(x)) <= N /\ Rank(S, x) = Cardinality(To(x))
  BY FS_Subset, FS_CardinalityType DEF Rank
<1>2. \A x \in S : Rank(S, x) \in 1..N
  <2>1. SUFFICES ASSUME NEW x \in S PROVE Rank(S, x) \in 1..N
    OBVIOUS
  <2>2. To(x) # {}
    OBVIOUS
  <2>3. Cardinality(To(x)) # 0
    BY <1>1, <2>2, FS_EmptySet
  <2>4. PICK c \in Nat : c = Cardinality(To(x))
    BY <1>1
  <2>5. c <= N /\ c # 0 /\ Rank(S, x) = c
    BY <1>1, <2>3, <2>4
  <2> QED
    BY <2>5
<1>3. ASSUME NEW x \in S, NEW y \in S, x < y PROVE Rank(S, x) # Rank(S, y)
  <2>1. To(x) \in SUBSET To(y)
    <3>1. SUFFICES ASSUME NEW z \in To(x) PROVE z \in To(y)
      OBVIOUS
    <3>2. z \in S /\ z \in Nat /\ x \in Nat /\ y \in Nat /\ z <= x
      OBVIOUS
    <3>3. z <= y
      BY <1>3, <3>2
    <3> QED
      BY <3>2, <3>3
  <2>2. y \in To(y) /\ y \notin To(x)
    BY <1>3
  <2>3. Cardinality(To(y)) # Cardinality(To(x))
    BY <1>1, <2>1, <2>2, FS_Subset
  <2> QED
    BY <1>1, <2>3
<1>4. \A x, y \in S : Rank(S, x) = Rank(S, y) => x = y
  <2>1. \A x, y \in S : x < y \/ y < x \/ x = y
    OBVIOUS
  <2> QED
    BY <1>3, <2>1
<1>5. PICK r : r = [x \in S |-> Rank(S, x)]
  OBVIOUS
<1>6. r \in [S -> 1..N]
  BY <1>2, <1>5
<1>7. r \in Injection(S, 1..N)
  BY <1>4, <1>5, <1>6, Fun_IsInj
<1>8. IsFiniteSet(1..N) /\ Cardinality(1..N) = N
  BY FS_Interval
<1>9. r \in Surjection(S, 1..N)
  BY <1>7, <1>8, FS_Injection
<1>10. \A i \in 1..N : \E x \in S : r[x] = i
  BY <1>9 DEF Surjection
<1> QED
  BY <1>2, <1>4, <1>5, <1>10


\* The leaves in their order are those of the set.
LEMMA SortedAre ==
  ASSUME NEW S \in SUBSET Nat, IsFiniteSet(S), NEW N \in Nat, N = Cardinality(S)
  PROVE  /\ SortedLeaves(S) = [i \in 1..N |-> SortedLeaves(S)[i]]
         /\ \A i \in 1..N : \E x \in S : SortedLeaves(S)[i] = Leaf(x)
         /\ \A x \in S : \E i \in 1..N : SortedLeaves(S)[i] = Leaf(x)
<1> DEFINE Nth(i) == CHOOSE x \in S : Rank(S, x) = i
<1>1. PICK s : s = SortedLeaves(S)
  OBVIOUS
<1>2. s = [i \in 1..N |-> Leaf(Nth(i))]
  BY <1>1 DEF SortedLeaves
<1>3. \A i \in 1..N : Nth(i) \in S /\ Rank(S, Nth(i)) = i
  BY Ranked
<1>4. ASSUME NEW x \in S PROVE s[Rank(S, x)] = Leaf(x) /\ Rank(S, x) \in 1..N
  <2>1. PICK i : i = Rank(S, x)
    OBVIOUS
  <2>2. i \in 1..N
    BY <2>1, Ranked
  <2>3. Nth(i) \in S /\ Rank(S, Nth(i)) = i
    BY <1>3, <2>2
  <2>4. Nth(i) = x
    BY <2>1, <2>3, Ranked
  <2>5. s[i] = Leaf(Nth(i))
    BY <1>2, <2>2
  <2> QED
    BY <2>1, <2>2, <2>4, <2>5
<1>5. ASSUME NEW i \in 1..N PROVE \E x \in S : s[i] = Leaf(x)
  BY <1>2, <1>3
<1>6. s = [i \in 1..N |-> s[i]]
  BY <1>2
<1> QED
  BY <1>1, <1>4, <1>5, <1>6

\* a level with n nodes
IsLevel(level, n) == level = [i \in 1..n |-> level[i]]

\* The length of a level.
LEMMA LevelLength ==
  ASSUME NEW level, NEW n \in Nat, IsLevel(level, n)
  PROVE  Len(level) = n /\ DOMAIN level = 1..n /\ level \in Seq({level[i] : i \in 1..n})
<1>1. PICK T : T = {level[i] : i \in 1..n}
  OBVIOUS
<1>2. level \in [1..n -> T]
  BY <1>1 DEF IsLevel
<1>3. level \in Seq(T) /\ Len(level) = n
  BY <1>2
<1> QED
  BY <1>1, <1>2, <1>3

\* Half of a number, rounded up.
LEMMA Halves ==
  ASSUME NEW n \in Nat
  PROVE  /\ HalfUp(n) \in Nat
         /\ n % 2 = 0 => n \div 2 \in Nat /\ HalfUp(n) = n \div 2 /\ n = 2 * (n \div 2)
         /\ n % 2 # 0 => n \div 2 \in Nat /\ HalfUp(n) = (n \div 2) + 1 /\ n = 2 * (n \div 2) + 1
                         /\ n % 2 = 1
BY DEF HalfUp

\* The nodes of the next level: pairs, and the odd one.
LEMMA NextLevelIs ==
  ASSUME NEW level, NEW n \in Nat, IsLevel(level, n), n > 0
  PROVE  /\ IsLevel(NextLevel(level), HalfUp(n))
         /\ \A i \in 1..HalfUp(n) :
              /\ 2 * i - 1 \in 1..n
              /\ 2 * i <= n => NextLevel(level)[i] = Node(level[2 * i - 1], level[2 * i])
              /\ 2 * i > n => NextLevel(level)[i] = level[2 * i - 1] /\ 2 * i - 1 = n
<1>1. PICK next : next = NextLevel(level)
  OBVIOUS
<1>2. PICK p : p = Pairs(level)
  OBVIOUS
<1>3. PICK h : h = n \div 2
  OBVIOUS
<1>4. /\ h \in Nat
      /\ n % 2 = 0 => HalfUp(n) = h /\ n = 2 * h
      /\ n % 2 # 0 => HalfUp(n) = h + 1 /\ n = 2 * h + 1
  BY <1>3, Halves
<1>5. Len(level) = n
  BY LevelLength
<1>6. p = [i \in 1..h |-> Node(level[2 * i - 1], level[2 * i])]
  BY <1>2, <1>3, <1>5 DEF Pairs
<1>7. CASE n % 2 = 0
  <2>1. next = p
    BY <1>1, <1>2, <1>5, <1>7 DEF NextLevel
  <2>2. IsLevel(next, HalfUp(n))
    BY <1>4, <1>6, <1>7, <2>1 DEF IsLevel
  <2>3. ASSUME NEW i \in 1..HalfUp(n)
        PROVE  /\ 2 * i - 1 \in 1..n /\ 2 * i <= n
               /\ next[i] = Node(level[2 * i - 1], level[2 * i])
    <3>1. i \in 1..h
      BY <1>4, <1>7
    <3>2. 2 * i - 1 \in 1..n /\ 2 * i <= n
      BY <1>4, <1>7, <3>1
    <3>3. next[i] = Node(level[2 * i - 1], level[2 * i])
      BY <1>6, <2>1, <3>1
    <3> QED
      BY <3>2, <3>3
  <2>4. \A i \in 1..HalfUp(n) : ~(2 * i > n)
    BY <1>4, <2>3
  <2> QED
    BY <1>1, <2>2, <2>3, <2>4
<1>8. CASE n % 2 # 0
  <2>1. PICK e : e = Last(level)
    OBVIOUS
  <2>2. e = level[n]
    BY <1>5, <2>1 DEF Last
  <2>3. PICK T : T = {p[i] : i \in 1..h} \cup {e}
    OBVIOUS
  <2>4. p \in [1..h -> T] /\ e \in T
    BY <1>6, <2>3
  <2>5. p \in Seq(T) /\ Len(p) = h
    BY <1>4, <2>4
  <2>6. next = Append(p, e)
    BY <1>1, <1>2, <1>5, <1>8, <2>1 DEF NextLevel
  <2>7. /\ next \in Seq(T) /\ Len(next) = h + 1 /\ next[h + 1] = e
        /\ \A i \in 1..h : next[i] = p[i]
    BY <1>4, <2>4, <2>5, <2>6, AppendProperties
  <2>8. next \in [1..(h + 1) -> T]
    BY <2>7, LenProperties
  <2>9. IsLevel(next, HalfUp(n))
    BY <1>4, <1>8, <2>8 DEF IsLevel
  <2>10. ASSUME NEW i \in 1..HalfUp(n)
         PROVE  /\ 2 * i - 1 \in 1..n
                /\ 2 * i <= n => next[i] = Node(level[2 * i - 1], level[2 * i])
                /\ 2 * i > n => next[i] = level[2 * i - 1] /\ 2 * i - 1 = n
    <3>1. CASE i = h + 1
      <4>1. 2 * i - 1 = n /\ n \in 1..n /\ ~(2 * i <= n)
        BY <1>4, <1>8, <3>1
      <4>2. next[i] = level[2 * i - 1]
        BY <2>2, <2>7, <3>1, <4>1
      <4> QED
        BY <4>1, <4>2
    <3>2. CASE i # h + 1
      <4>1. i \in 1..h
        BY <1>4, <1>8, <3>2
      <4>2. 2 * i - 1 \in 1..n /\ 2 * i <= n /\ ~(2 * i > n)
        BY <1>4, <1>8, <4>1
      <4>3. next[i] = Node(level[2 * i - 1], level[2 * i])
        BY <1>6, <2>7, <4>1
      <4> QED
        BY <4>2, <4>3
    <3> QED
      BY <3>1, <3>2
  <2> QED
    BY <1>1, <2>9, <2>10
<1> QED
  BY <1>7, <1>8

\* Every level of a tree has nodes; after as many rounds as there are leaves one.
LEMMA LevelsShrink ==
  ASSUME NEW S \in SUBSET Nat, IsFiniteSet(S), NEW N \in Nat, N = Cardinality(S), N > 0
  PROVE  \A n \in 0..N : \E a \in Nat : /\ a > 0 /\ IsLevel(Levels(S)[n], a)
                                        /\ a = 1 \/ a <= N - n
<1> DEFINE Shrunk(n) == \E a \in Nat : /\ a > 0 /\ IsLevel(Levels(S)[n], a)
                                       /\ a = 1 \/ a <= N - n
           G == {n \in 0..N : Shrunk(n)}
<1>1. 0 \in G
  <2>1. Levels(S)[0] = SortedLeaves(S)
    BY LevelsAre
  <2>2. IsLevel(SortedLeaves(S), N)
    BY SortedAre DEF IsLevel
  <2>3. IsLevel(Levels(S)[0], N) /\ N <= N - 0
    BY <2>1, <2>2
  <2>4. Shrunk(0)
    BY <2>3
  <2> QED
    BY <2>4
<1>2. ASSUME NEW n \in 0..(N - 1), n \in G PROVE n + 1 \in G
  <2>1. PICK l : l = Levels(S)[n]
    OBVIOUS
  <2>2. PICK m : m = Levels(S)[n + 1]
    OBVIOUS
  <2>3. PICK a \in Nat : a > 0 /\ IsLevel(l, a) /\ (a = 1 \/ a <= N - n)
    BY <1>2, <2>1
  <2>4. n + 1 \in 1..N /\ (n + 1) - 1 = n
    BY <1>2
  <2>5. m = UpLevel(l)
    BY <2>1, <2>2, <2>4, LevelsAre
  <2>6. Len(l) = a
    BY <2>3, LevelLength
  <2>7. CASE a = 1
    <3>1. m = l
      BY <2>5, <2>6, <2>7 DEF UpLevel
    <3>2. Shrunk(n + 1)
      BY <2>2, <2>3, <2>7, <3>1
    <3> QED
      BY <2>4, <3>2
  <2>8. CASE a # 1
    <3>1. m = NextLevel(l)
      BY <2>3, <2>5, <2>6, <2>8 DEF UpLevel
    <3>2. IsLevel(m, HalfUp(a))
      BY <2>3, <3>1, NextLevelIs
    <3>3. HalfUp(a) \in Nat /\ HalfUp(a) > 0 /\ HalfUp(a) <= a - 1
      BY <2>3, <2>8 DEF HalfUp
    <3>4. HalfUp(a) <= N - (n + 1)
      BY <2>3, <2>8, <3>3
    <3>5. Shrunk(n + 1)
      BY <2>2, <3>2, <3>3, <3>4
    <3> QED
      BY <2>4, <3>5
  <2> QED
    BY <2>7, <2>8
<1> HIDE DEF G
<1>3. \A n \in 0..N : n \in G
  BY <1>1, <1>2, UpTo
<1> QED
  BY <1>3 DEF G

-----------------------------------------------------------------------------
(* The leaves that a node stands for                                        *)

\* a way down from a node to a leaf
Path(d, k, node, x) ==
  /\ d[0] = node /\ d[k] = Leaf(x)
  /\ \A j \in 0..(k - 1) : \E l, r : d[j] = Node(l, r) /\ d[j + 1] \in {l, r}
Under(x, node) == \E k \in Nat : \E d : Path(d, k, node, x)

\* Under a leaf there is that leaf only.
LEMMA UnderLeaf == ASSUME NEW x, NEW y PROVE Under(x, Leaf(y)) <=> x = y
<1>1. ASSUME Under(x, Leaf(y)) PROVE x = y
  <2>0. PICK k \in Nat : \E d : Path(d, k, Leaf(y), x)
    BY <1>1 DEF Under
  <2>1. PICK d : Path(d, k, Leaf(y), x)
    BY <2>0
  <2>2. CASE k = 0
    BY <2>1, <2>2, NodesDiffer DEF Path
  <2>3. CASE k # 0
    <3>1. 0 \in 0..(k - 1)
      BY <2>3
    <3>2. PICK l, r : d[0] = Node(l, r)
      BY <2>1, <3>1 DEF Path
    <3>3. d[0] = Leaf(y)
      BY <2>1 DEF Path
    <3>4. Leaf(y) = Node(l, r)
      BY <3>2, <3>3
    <3> QED
      BY <3>4, NodesDiffer
  <2> QED
    BY <2>2, <2>3
<1>2. ASSUME x = y PROVE Under(x, Leaf(y))
  <2>1. PICK d : d = [j \in {0} |-> Leaf(y)]
    OBVIOUS
  <2>2. Path(d, 0, Leaf(y), x)
    BY <1>2, <2>1 DEF Path
  <2> QED
    BY <2>2 DEF Under
<1> QED
  BY <1>1, <1>2

\* Under a node there is what is under its children.
LEMMA UnderNode ==
  ASSUME NEW x, NEW l, NEW r
  PROVE  Under(x, Node(l, r)) <=> Under(x, l) \/ Under(x, r)
<1>1. ASSUME Under(x, Node(l, r)) PROVE Under(x, l) \/ Under(x, r)
  <2>0. PICK k \in Nat : \E d : Path(d, k, Node(l, r), x)
    BY <1>1 DEF Under
  <2>1. PICK d : Path(d, k, Node(l, r), x)
    BY <2>0
  <2>2. k # 0
    <3>1. SUFFICES ASSUME k = 0 PROVE FALSE
      OBVIOUS
    <3> QED
      BY <2>1, <3>1, NodesDiffer DEF Path
  <2>3. 0 \in 0..(k - 1) /\ k - 1 \in Nat /\ 0 + 1 = 1
    BY <2>2
  <2>4. PICK ll, rr : d[0] = Node(ll, rr) /\ d[0 + 1] \in {ll, rr}
    BY <2>1, <2>3 DEF Path
  <2>5. d[1] \in {l, r}
    <3>1. d[0] = Node(l, r)
      BY <2>1 DEF Path
    <3>2. Node(ll, rr) = Node(l, r)
      BY <2>4, <3>1
    <3>3. ll = l /\ rr = r
      BY <3>2, NodesDiffer
    <3> QED
      BY <2>3, <2>4, <3>3
  <2>6. PICK e : e = [j \in 0..(k - 1) |-> d[j + 1]]
    OBVIOUS
  <2>7. e[0] = d[1] /\ e[k - 1] = d[k]
    BY <2>2, <2>3, <2>6
  <2>8. \A j \in 0..((k - 1) - 1) : \E a, b : e[j] = Node(a, b) /\ e[j + 1] \in {a, b}
    <3>1. SUFFICES ASSUME NEW j \in 0..((k - 1) - 1)
                   PROVE  \E a, b : e[j] = Node(a, b) /\ e[j + 1] \in {a, b}
      OBVIOUS
    <3>2. j + 1 \in 0..(k - 1) /\ j \in 0..(k - 1)
      BY <2>3
    <3>3. PICK a, b : d[j + 1] = Node(a, b) /\ d[(j + 1) + 1] \in {a, b}
      BY <2>1, <3>2 DEF Path
    <3>4. e[j] = d[j + 1] /\ e[j + 1] = d[(j + 1) + 1]
      BY <2>6, <3>2
    <3> QED
      BY <3>3, <3>4
  <2>9. Path(e, k - 1, d[1], x)
    BY <2>1, <2>7, <2>8 DEF Path
  <2>10. Under(x, d[1])
    BY <2>3, <2>9 DEF Under
  <2> QED
    BY <2>5, <2>10
<1>2. ASSUME NEW c \in {l, r}, Under(x, c) PROVE Under(x, Node(l, r))
  <2>0. PICK k \in Nat : \E d : Path(d, k, c, x)
    BY <1>2 DEF Under
  <2>1. PICK d : Path(d, k, c, x)
    BY <2>0
  <2>2. PICK e : e = [j \in 0..(k + 1) |-> IF j = 0 THEN Node(l, r) ELSE d[j - 1]]
    OBVIOUS
  <2>3. e[0] = Node(l, r) /\ e[1] = d[0] /\ e[k + 1] = d[k]
    BY <2>2
  <2>4. \A j \in 0..((k + 1) - 1) : \E a, b : e[j] = Node(a, b) /\ e[j + 1] \in {a, b}
    <3>1. SUFFICES ASSUME NEW j \in 0..((k + 1) - 1)
                   PROVE  \E a, b : e[j] = Node(a, b) /\ e[j + 1] \in {a, b}
      OBVIOUS
    <3>2. CASE j = 0
      <4>1. e[j] = Node(l, r) /\ e[j + 1] = c
        BY <2>1, <2>3, <3>2 DEF Path
      <4> QED
        BY <4>1
    <3>3. CASE j # 0
      <4>1. j - 1 \in 0..(k - 1) /\ (j - 1) + 1 = j /\ (j + 1) - 1 = j /\ j \in 0..(k + 1)
            /\ j + 1 \in 0..(k + 1) /\ j + 1 # 0
        BY <3>3
      <4>2. PICK a, b : d[j - 1] = Node(a, b) /\ d[(j - 1) + 1] \in {a, b}
        BY <2>1, <4>1 DEF Path
      <4>3. e[j] = d[j - 1] /\ e[j + 1] = d[j]
        BY <2>2, <3>3, <4>1
      <4> QED
        BY <4>1, <4>2, <4>3
    <3> QED
      BY <3>2, <3>3
  <2>5. Path(e, k + 1, Node(l, r), x)
    BY <2>1, <2>3, <2>4 DEF Path
  <2> QED
    BY <2>5 DEF Under
<1> QED
  BY <1>1, <1>2

\* Every level of a tree stands for the leaves of its set, and for no others.
LEMMA LevelsStandForAll ==
  ASSUME NEW S \in SUBSET Nat, IsFiniteSet(S), NEW N \in Nat, N = Cardinality(S), N > 0
  PROVE  \A n \in 0..N : \A x :
           x \in S <=> \E i \in DOMAIN Levels(S)[n] : Under(x, Levels(S)[n][i])
<1> DEFINE Stands(n) == \A x : x \in S <=> \E i \in DOMAIN Levels(S)[n] : Under(x, Levels(S)[n][i])
           G == {n \in 0..N : Stands(n)}
<1>1. 0 \in G
  <2>1. PICK l : l = Levels(S)[0]
    OBVIOUS
  <2>2. l = SortedLeaves(S)
    BY <2>1, LevelsAre
  <2>3. DOMAIN l = 1..N
    BY <2>2, SortedAre
  <2>4. /\ \A i \in 1..N : \E x \in S : l[i] = Leaf(x)
        /\ \A x \in S : \E i \in 1..N : l[i] = Leaf(x)
    BY <2>2, SortedAre
  <2>5. ASSUME NEW x \in S PROVE \E i \in 1..N : Under(x, l[i])
    <3>1. PICK i \in 1..N : l[i] = Leaf(x)
      BY <2>4
    <3> QED
      BY <3>1, UnderLeaf
  <2>6. ASSUME NEW x, NEW i \in 1..N, Under(x, l[i]) PROVE x \in S
    <3>1. PICK y \in S : l[i] = Leaf(y)
      BY <2>4
    <3> QED
      BY <2>6, <3>1, UnderLeaf
  <2>7. \A x : x \in S <=> \E i \in DOMAIN l : Under(x, l[i])
    BY <2>3, <2>5, <2>6
  <2>8. Stands(0)
    BY <2>1, <2>7
  <2> QED
    BY <2>8
<1>2. ASSUME NEW n \in 0..(N - 1), n \in G PROVE n + 1 \in G
  <2>1. PICK l : l = Levels(S)[n]
    OBVIOUS
  <2>2. PICK m : m = Levels(S)[n + 1]
    OBVIOUS
  <2>3. PICK a \in Nat : a > 0 /\ IsLevel(l, a)
    BY <1>2, <2>1, LevelsShrink
  <2>4. n + 1 \in 1..N /\ (n + 1) - 1 = n
    BY <1>2
  <2>5. m = UpLevel(l)
    BY <2>1, <2>2, <2>4, LevelsAre
  <2>6. Len(l) = a /\ DOMAIN l = 1..a
    BY <2>3, LevelLength
  <2>7. \A x : x \in S <=> \E i \in 1..a : Under(x, l[i])
    BY <1>2, <2>1, <2>6
  <2>8. SUFFICES \A x : x \in S <=> \E i \in DOMAIN m : Under(x, m[i])
    <3>1. ASSUME \A x : x \in S <=> \E i \in DOMAIN m : Under(x, m[i]) PROVE Stands(n + 1)
      BY <2>2, <3>1
    <3> QED
      BY <2>4, <3>1
  <2>9. CASE a = 1
    <3>1. m = l
      BY <2>5, <2>6, <2>9 DEF UpLevel
    <3> QED
      BY <2>6, <2>7, <3>1
  <2>10. CASE a # 1
    <3>1. m = NextLevel(l)
      BY <2>3, <2>5, <2>6, <2>10 DEF UpLevel
    <3>2. PICK h : h = HalfUp(a)
      OBVIOUS
    <3>3. /\ IsLevel(m, h)
          /\ \A i \in 1..h : /\ 2 * i - 1 \in 1..a
                             /\ 2 * i <= a => m[i] = Node(l[2 * i - 1], l[2 * i])
                             /\ 2 * i > a => m[i] = l[2 * i - 1] /\ 2 * i - 1 = a
      BY <2>3, <3>1, <3>2, NextLevelIs
    <3>4. /\ h \in Nat
          /\ \A i \in 1..a : /\ HalfUp(i) \in 1..h
                             /\ i = 2 * HalfUp(i) - 1 \/ i = 2 * HalfUp(i)
      BY <2>3, <3>2 DEF HalfUp
    <3>5. DOMAIN m = 1..h
      BY <3>3 DEF IsLevel
    <3>6. ASSUME NEW x, NEW i \in 1..a, Under(x, l[i]) PROVE \E j \in 1..h : Under(x, m[j])
      <4>1. PICK j \in 1..h : i = 2 * j - 1 \/ i = 2 * j
        BY <3>4
      <4>2. CASE 2 * j <= a
        <5>1. m[j] = Node(l[2 * j - 1], l[2 * j])
          BY <3>3, <4>2
        <5>2. Under(x, l[2 * j - 1]) \/ Under(x, l[2 * j])
          BY <3>6, <4>1
        <5> QED
          BY <5>1, <5>2, UnderNode
      <4>3. CASE ~(2 * j <= a)
        <5>1. 2 * j > a /\ i # 2 * j
          BY <2>3, <4>3
        <5> QED
          BY <3>3, <3>6, <4>1, <5>1
      <4> QED
        BY <4>2, <4>3
    <3>7. ASSUME NEW x, NEW j \in 1..h, Under(x, m[j]) PROVE \E i \in 1..a : Under(x, l[i])
      <4>1. 2 * j - 1 \in 1..a
        BY <3>3
      <4>2. CASE 2 * j <= a
        <5>1. m[j] = Node(l[2 * j - 1], l[2 * j]) /\ 2 * j \in 1..a
          BY <2>3, <3>3, <4>2
        <5>2. Under(x, l[2 * j - 1]) \/ Under(x, l[2 * j])
          BY <3>7, <5>1, UnderNode
        <5> QED
          BY <4>1, <5>1, <5>2
      <4>3. CASE ~(2 * j <= a)
        <5>1. 2 * j > a
          BY <2>3, <4>3
        <5> QED
          BY <3>3, <3>7, <4>1, <5>1
      <4> QED
        BY <4>2, <4>3
    <3> QED
      BY <2>7, <3>5, <3>6, <3>7
  <2> QED
    BY <2>9, <2>10
<1> HIDE DEF G
<1>3. \A n \in 0..N : n \in G
  BY <1>1, <1>2, UpTo
<1> QED
  BY <1>3 DEF G

\* The last level is its root alone, and the root stands for the leaves of its set.
LEMMA RootStandsForAll ==
  ASSUME NEW S \in SUBSET Nat, IsFiniteSet(S), S # {}
  PROVE  /\ Cardinality(S) \in Nat /\ Cardinality(S) > 0
         /\ DOMAIN Levels(S)[Cardinality(S)] = 1..1
         /\ \A x : x \in S <=> Under(x, Root(S))
<1>1. PICK N \in Nat : N = Cardinality(S)
  BY FS_CardinalityType
<1>2. N # 0
  BY <1>1, FS_EmptySet
<1>3. N > 0 /\ N \in 0..N
  BY <1>2
<1>4. PICK l : l = Levels(S)[N]
  OBVIOUS
<1>5. PICK a \in Nat : a > 0 /\ IsLevel(l, a) /\ (a = 1 \/ a <= N - N)
  BY <1>1, <1>3, <1>4, LevelsShrink
<1>6. a = 1
  BY <1>5
<1>7. DOMAIN l = 1..1
  BY <1>5, <1>6, LevelLength
<1>8. \A x : x \in S <=> \E i \in DOMAIN l : Under(x, l[i])
  BY <1>1, <1>3, <1>4, LevelsStandForAll
<1>9. 1..1 = {1} /\ Root(S) = l[1]
  BY <1>1, <1>4 DEF Root
<1>10. \A x : x \in S <=> Under(x, Root(S))
  BY <1>7, <1>8, <1>9
<1> QED
  BY <1>1, <1>3, <1>4, <1>7, <1>10

\* Sets with the same root are the same.
LEMMA RootsDiffer ==
  ASSUME NEW S \in SUBSET Nat, IsFiniteSet(S), S # {},
         NEW T \in SUBSET Nat, IsFiniteSet(T), T # {}, Root(S) = Root(T)
  PROVE  S = T
<1>1. \A x : x \in S <=> Under(x, Root(S))
  BY RootStandsForAll
<1>2. \A x : x \in T <=> Under(x, Root(T))
  BY RootStandsForAll
<1> QED
  BY <1>1, <1>2

-----------------------------------------------------------------------------
(* Proofs of leaves                                                         *)

\* A longer proof leads where the proof leads, and one step further.
LEMMA WalkGrows ==
  ASSUME NEW leaf, NEW T, NEW p \in Seq(T), NEW st \in T
  PROVE  Ascent(leaf, Append(p, st))[Len(Append(p, st))] = WalkOn(Ascent(leaf, p)[Len(p)], st)
<1>1. PICK q \in Seq(T) : q = Append(p, st)
  BY AppendProperties
<1>2. PICK N \in Nat : N = Len(p)
  OBVIOUS
<1>3. Len(q) = N + 1 /\ q[N + 1] = st /\ \A n \in 1..N : q[n] = p[n]
  BY <1>1, <1>2, AppendProperties
<1>4. PICK v : v = Ascent(leaf, p)
  OBVIOUS
<1>5. PICK w : w = Ascent(leaf, q)
  OBVIOUS
<1>6. v[0] = leaf /\ \A n \in 1..N : v[n] = WalkOn(v[n - 1], p[n])
  BY <1>2, <1>4, WalkIs
<1>7. N + 1 \in Nat /\ N + 1 = Len(q)
  BY <1>3
<1>8. w[0] = leaf /\ \A n \in 1..(N + 1) : w[n] = WalkOn(w[n - 1], q[n])
  <2>1. PICK M \in Nat : M = N + 1
    OBVIOUS
  <2>2. w[0] = leaf /\ \A n \in 1..M : w[n] = WalkOn(w[n - 1], q[n])
    BY <1>3, <1>5, <2>1, WalkIs
  <2> QED
    BY <2>1, <2>2
<1> DEFINE G == {n \in 0..N : w[n] = v[n]}
<1>9. 0 \in G
  BY <1>6, <1>8
<1>10. ASSUME NEW n \in 0..(N - 1), n \in G PROVE n + 1 \in G
  <2>1. n + 1 \in 1..N /\ n + 1 \in 1..(N + 1) /\ (n + 1) - 1 = n
    OBVIOUS
  <2>2. w[n] = v[n] /\ q[n + 1] = p[n + 1]
    BY <1>3, <1>10, <2>1
  <2>3. w[n + 1] = WalkOn(w[n], q[n + 1])
    BY <1>8, <2>1
  <2>4. v[n + 1] = WalkOn(v[n], p[n + 1])
    BY <1>6, <2>1
  <2>5. w[n + 1] = v[n + 1]
    BY <2>2, <2>3, <2>4
  <2> QED
    BY <2>1, <2>5
<1> HIDE DEF G
<1>11. \A n \in 0..N : n \in G
  BY <1>9, <1>10, UpTo
<1>12. w[N] = v[N]
  BY <1>11 DEF G
<1>13. N + 1 \in 1..(N + 1) /\ (N + 1) - 1 = N
  OBVIOUS
<1>14. w[N + 1] = WalkOn(w[N], q[N + 1])
  BY <1>8, <1>13
<1> QED
  BY <1>1, <1>2, <1>3, <1>4, <1>5, <1>12, <1>14

\* A proof proves one leaf only: two leaves never lead to the same node.
LEMMA WalksDiffer ==
  ASSUME NEW p, NEW N \in Nat, N = Len(p), NEW x, NEW y,
         Ascent(Leaf(x), p)[N] = Ascent(Leaf(y), p)[N]
  PROVE  x = y
<1>1. SUFFICES ASSUME x # y PROVE FALSE
  OBVIOUS
<1>2. PICK v : v = Ascent(Leaf(x), p)
  OBVIOUS
<1>3. PICK w : w = Ascent(Leaf(y), p)
  OBVIOUS
<1>4. v[0] = Leaf(x) /\ \A n \in 1..N : v[n] = WalkOn(v[n - 1], p[n])
  BY <1>2, WalkIs
<1>5. w[0] = Leaf(y) /\ \A n \in 1..N : w[n] = WalkOn(w[n - 1], p[n])
  BY <1>3, WalkIs
<1> DEFINE G == {n \in 0..N : v[n] # w[n]}
<1>6. 0 \in G
  BY <1>1, <1>4, <1>5, NodesDiffer
<1>7. ASSUME NEW n \in 0..(N - 1), n \in G PROVE n + 1 \in G
  <2>1. n + 1 \in 1..N /\ (n + 1) - 1 = n
    OBVIOUS
  <2>2. v[n + 1] = WalkOn(v[n], p[n + 1])
    BY <1>4, <2>1
  <2>3. w[n + 1] = WalkOn(w[n], p[n + 1])
    BY <1>5, <2>1
  <2>4. v[n] # w[n]
    BY <1>7
  <2>5. v[n + 1] # w[n + 1]
    BY <2>2, <2>3, <2>4, NodesDiffer DEF WalkOn
  <2> QED
    BY <2>1, <2>5
<1> HIDE DEF G
<1>8. \A n \in 0..N : n \in G
  BY <1>6, <1>7, UpTo
<1>9. v[N] # w[N]
  BY <1>8 DEF G
<1> QED
  BY <1>2, <1>3, <1>9

\* The proof so far leads from the leaf to the node that it has reached.
LeadsTo(s, level, leaf) ==
  /\ s = [level |-> level, proof |-> s.proof, at |-> s.at]
  /\ s.at \in DOMAIN level
  /\ \E T : s.proof \in Seq(T)
  /\ Ascent(leaf, s.proof)[Len(s.proof)] = level[s.at]

\* The steps that a level adds lead to the next level.
LEMMA StepsLeadOn ==
  ASSUME NEW s, NEW level, NEW leaf, NEW a \in Nat, a > 1, IsLevel(level, a),
         LeadsTo(s, level, leaf)
  PROVE  LeadsTo([level |-> NextLevel(level), proof |-> s.proof \o StepsAt(level, s.at),
                  at |-> HalfUp(s.at)], NextLevel(level), leaf)
<1>1. Len(level) = a /\ DOMAIN level = 1..a
  BY LevelLength
<1>2. PICK i \in 1..a : i = s.at
  BY <1>1 DEF LeadsTo
<1>3. PICK p : p = s.proof
  OBVIOUS
<1>4. PICK T : p \in Seq(T)
  BY <1>3 DEF LeadsTo
<1>5. Ascent(leaf, p)[Len(p)] = level[i]
  BY <1>2, <1>3 DEF LeadsTo
<1>6. PICK h : h = HalfUp(a)
  OBVIOUS
<1>7. PICK m : m = NextLevel(level)
  OBVIOUS
<1>8. /\ IsLevel(m, h)
      /\ \A j \in 1..h : /\ 2 * j - 1 \in 1..a
                         /\ 2 * j <= a => m[j] = Node(level[2 * j - 1], level[2 * j])
                         /\ 2 * j > a => m[j] = level[2 * j - 1] /\ 2 * j - 1 = a
  BY <1>6, <1>7, NextLevelIs
<1>9. DOMAIN m = 1..h
  BY <1>8 DEF IsLevel
<1>10. PICK j \in 1..h : j = HalfUp(i)
  BY <1>6 DEF HalfUp
<1>11. /\ i % 2 = 1 => i = 2 * j - 1
       /\ i % 2 # 1 => i = 2 * j
       /\ a % 2 = 1 \/ a % 2 = 0
  BY <1>10 DEF HalfUp
<1>12. SUFFICES /\ \E U : p \o StepsAt(level, i) \in Seq(U)
                /\ Ascent(leaf, p \o StepsAt(level, i))[Len(p \o StepsAt(level, i))] = m[j]
  BY <1>2, <1>3, <1>7, <1>9, <1>10 DEF LeadsTo
<1>13. ASSUME NEW st, StepsAt(level, i) = <<st>>, m[j] = WalkOn(level[i], st)
       PROVE  /\ \E U : p \o StepsAt(level, i) \in Seq(U)
              /\ Ascent(leaf, p \o StepsAt(level, i))[Len(p \o StepsAt(level, i))] = m[j]
  <2>1. PICK U : U = T \cup {st}
    OBVIOUS
  <2>2. p \in Seq(U) /\ st \in U
    BY <1>4, <2>1
  <2>3. p \o <<st>> = Append(p, st)
    BY <2>2
  <2>4. Append(p, st) \in Seq(U)
    BY <2>2
  <2>5. Ascent(leaf, Append(p, st))[Len(Append(p, st))] = WalkOn(Ascent(leaf, p)[Len(p)], st)
    BY <2>2, WalkGrows
  <2> QED
    BY <1>5, <1>13, <2>3, <2>4, <2>5
<1>14. CASE i = a /\ a % 2 = 1
  <2>1. StepsAt(level, i) = <<>>
    BY <1>1, <1>14 DEF StepsAt
  <2>2. p \o <<>> = p
    BY <1>4
  <2>3. 2 * j > a /\ 2 * j - 1 = i
    BY <1>11, <1>14
  <2>4. m[j] = level[i]
    BY <1>8, <2>3
  <2> QED
    BY <1>4, <1>5, <2>1, <2>2, <2>4
<1>15. CASE i < a /\ i % 2 = 1
  <2>1. ~(i = a /\ a % 2 = 1)
    BY <1>15
  <2>2. StepsAt(level, i) = <<Step(level[i + 1], "right")>>
    BY <1>1, <1>15, <2>1 DEF StepsAt
  <2>3. 2 * j - 1 = i /\ 2 * j = i + 1 /\ 2 * j <= a
    BY <1>11, <1>15
  <2>4. m[j] = Node(level[i], level[i + 1])
    BY <1>8, <2>3
  <2>5. WalkOn(level[i], Step(level[i + 1], "right")) = Node(level[i], level[i + 1])
    BY DEF WalkOn, Step
  <2> QED
    BY <1>13, <2>2, <2>4, <2>5
<1>16. CASE ~(i = a /\ a % 2 = 1) /\ ~(i < a /\ i % 2 = 1)
  <2>1. StepsAt(level, i) = <<Step(level[i - 1], "left")>>
    BY <1>1, <1>16 DEF StepsAt
  <2>2. 2 * j = i /\ 2 * j - 1 = i - 1 /\ 2 * j <= a
    BY <1>11, <1>16
  <2>3. m[j] = Node(level[i - 1], level[i])
    BY <1>8, <2>2
  <2>4. WalkOn(level[i], Step(level[i - 1], "left")) = Node(level[i - 1], level[i])
    BY DEF WalkOn, Step
  <2> QED
    BY <1>13, <2>1, <2>3, <2>4
<1> QED
  BY <1>14, <1>15, <1>16

\* The proof of a leaf leads to the root.
LEMMA ProofLeadsToRoot ==
  ASSUME NEW S \in SUBSET Nat, IsFiniteSet(S), NEW x \in S
  PROVE  /\ Len(Proof(S, x)) \in Nat
         /\ Ascent(Leaf(x), Proof(S, x))[Len(Proof(S, x))] = Root(S)
<1>1. PICK N \in Nat : N = Cardinality(S)
  BY RootStandsForAll
<1>2. N > 0 /\ DOMAIN Levels(S)[N] = 1..1
  BY <1>1, RootStandsForAll
<1> DEFINE G == {n \in 0..N : LeadsTo(Climb(S, x)[n], Levels(S)[n], Leaf(x))}
<1>3. 0 \in G
  <2>1. PICK l : l = SortedLeaves(S)
    OBVIOUS
  <2>2. Levels(S)[0] = l
    BY <1>1, <2>1, LevelsAre
  <2>3. DOMAIN l = 1..N /\ \E i \in 1..N : l[i] = Leaf(x)
    BY <1>1, <2>1, SortedAre
  <2>4. PICK i : i = CHOOSE j \in DOMAIN l : l[j] = Leaf(x)
    OBVIOUS
  <2>5. i \in DOMAIN l /\ l[i] = Leaf(x)
    BY <2>3, <2>4
  <2>6. PICK s : s = [level |-> l, proof |-> <<>>, at |-> i]
    OBVIOUS
  <2>7. Climb(S, x)[0] = s
    BY <1>1, <2>1, <2>4, <2>6, ClimbIs
  <2>8. s.proof = <<>> /\ s.at = i /\ s.level = l
    BY <2>6
  <2>9. <<>> \in Seq({}) /\ Len(<<>>) = 0
    OBVIOUS
  <2>10. Ascent(Leaf(x), <<>>)[0] = Leaf(x)
    BY <2>9, WalkIs
  <2>11. LeadsTo(s, l, Leaf(x))
    BY <2>5, <2>6, <2>8, <2>9, <2>10 DEF LeadsTo
  <2> QED
    BY <2>2, <2>7, <2>11
<1>4. ASSUME NEW n \in 0..(N - 1), n \in G PROVE n + 1 \in G
  <2>1. PICK l : l = Levels(S)[n]
    OBVIOUS
  <2>2. PICK s : s = Climb(S, x)[n]
    OBVIOUS
  <2>3. LeadsTo(s, l, Leaf(x))
    BY <1>4, <2>1, <2>2
  <2>4. PICK a \in Nat : a > 0 /\ IsLevel(l, a)
    BY <1>1, <1>2, <2>1, LevelsShrink
  <2>5. Len(l) = a
    BY <2>4, LevelLength
  <2>6. n + 1 \in 1..N /\ n + 1 \in 0..N /\ (n + 1) - 1 = n
    OBVIOUS
  <2>7. Levels(S)[n + 1] = UpLevel(l) /\ Climb(S, x)[n + 1] = UpClimb(s)
    <3>1. \A k \in 1..N : Levels(S)[k] = UpLevel(Levels(S)[k - 1])
      BY <1>1, LevelsAre
    <3>2. \A k \in 1..N : Climb(S, x)[k] = UpClimb(Climb(S, x)[k - 1])
      BY <1>1, ClimbIs
    <3>3. Levels(S)[n + 1] = UpLevel(Levels(S)[(n + 1) - 1])
      BY <2>6, <3>1
    <3>4. Climb(S, x)[n + 1] = UpClimb(Climb(S, x)[(n + 1) - 1])
      BY <2>6, <3>2
    <3> QED
      BY <2>1, <2>2, <2>6, <3>3, <3>4
  <2>8. s.level = l
    BY <2>3 DEF LeadsTo
  <2>9. LeadsTo(UpClimb(s), UpLevel(l), Leaf(x))
    <3>1. CASE a > 1
      <4>1. UpLevel(l) = NextLevel(l)
        BY <2>5, <3>1 DEF UpLevel
      <4>2. UpClimb(s) = [level |-> NextLevel(l), proof |-> s.proof \o StepsAt(l, s.at),
                          at |-> HalfUp(s.at)]
        BY <2>5, <2>8, <3>1 DEF UpClimb
      <4> QED
        BY <2>3, <2>4, <3>1, <4>1, <4>2, StepsLeadOn
    <3>2. CASE ~(a > 1)
      <4>1. UpLevel(l) = l /\ UpClimb(s) = s
        BY <2>5, <2>8, <3>2 DEF UpLevel, UpClimb
      <4> QED
        BY <2>3, <4>1
    <3> QED
      BY <3>1, <3>2
  <2> QED
    BY <2>6, <2>7, <2>9
<1> HIDE DEF G
<1>5. \A n \in 0..N : n \in G
  BY <1>3, <1>4, UpTo
<1>6. N \in 0..N
  BY <1>2
<1>7. PICK s : s = Climb(S, x)[N]
  OBVIOUS
<1>8. LeadsTo(s, Levels(S)[N], Leaf(x))
  BY <1>5, <1>6, <1>7 DEF G
<1>9. PICK p : p = s.proof
  OBVIOUS
<1>10. PICK T : p \in Seq(T)
  BY <1>8, <1>9 DEF LeadsTo
<1>11. Len(p) \in Nat
  BY <1>10
<1>12. s.at \in 1..1
  BY <1>2, <1>8 DEF LeadsTo
<1>13. s.at = 1
  BY <1>12
<1>14. Ascent(Leaf(x), p)[Len(p)] = Levels(S)[N][1]
  BY <1>8, <1>9, <1>13 DEF LeadsTo
<1>15. Proof(S, x) = p /\ Root(S) = Levels(S)[N][1]
  BY <1>1, <1>7, <1>9 DEF Proof, Root
<1> QED
  BY <1>11, <1>14, <1>15

\* The proof of a leaf verifies against the root of its set, and with no other
\* leaf and no other root.
LEMMA ProofsAreOfOne ==
  ASSUME NEW S \in SUBSET Nat, IsFiniteSet(S), NEW x \in S
  PROVE  /\ Verifies(Leaf(x), Proof(S, x), Root(S))
         /\ \A y : Verifies(Leaf(y), Proof(S, x), Root(S)) => y = x
         /\ \A T \in SUBSET Nat : IsFiniteSet(T) /\ T # {} /\ T # S
              => ~Verifies(Leaf(x), Proof(S, x), Root(T))
<1>1. PICK p : p = Proof(S, x)
  OBVIOUS
<1>2. Len(p) \in Nat /\ Ascent(Leaf(x), p)[Len(p)] = Root(S)
  BY <1>1, ProofLeadsToRoot
<1>3. \A leaf, root : Verifies(leaf, p, root) <=> Ascent(leaf, p)[Len(p)] = root
  BY DEF Verifies
<1>4. ASSUME NEW y, Verifies(Leaf(y), p, Root(S)) PROVE y = x
  <2>1. Ascent(Leaf(y), p)[Len(p)] = Ascent(Leaf(x), p)[Len(p)]
    BY <1>2, <1>3, <1>4
  <2> QED
    BY <1>2, <2>1, WalksDiffer
<1>5. ASSUME NEW T \in SUBSET Nat, IsFiniteSet(T), T # {}, Verifies(Leaf(x), p, Root(T))
      PROVE  T = S
  <2>1. Root(S) = Root(T)
    BY <1>2, <1>3, <1>5
  <2> QED
    BY <1>5, <2>1, RootsDiffer
<1> QED
  BY <1>1, <1>2, <1>3, <1>4, <1>5

\* A manifest has leaves, and a finite number of them.
LEMMA LeavesAreFinite ==
  ASSUME MerkleInit
  PROVE  /\ leafSet \in SUBSET (1..MaxLeaves) /\ leafSet \in SUBSET Nat /\ leafSet # {}
         /\ IsFiniteSet(leafSet)
<1>1. leafSet \in SUBSET (1..MaxLeaves) /\ leafSet # {}
  BY DEF MerkleInit
<1>2. IsFiniteSet(1..MaxLeaves)
  BY FS_Interval, MerkleAssumption
<1>3. IsFiniteSet(leafSet)
  BY <1>1, <1>2, FS_Subset
<1> QED
  BY <1>1, <1>3, MerkleAssumption

\* Every proof verifies, whatever the number of leaves: with its leaf and the root
\* of its tree, with no other leaf, and with the root of no tree that has a leaf
\* more or less.
THEOREM ProofsAlwaysVerify == MerkleSpec => []ProofsVerify
<1>1. ASSUME MerkleInit PROVE ProofsVerify
  <2>1. leafSet \in SUBSET (1..MaxLeaves) /\ leafSet \in SUBSET Nat /\ IsFiniteSet(leafSet)
    BY <1>1, LeavesAreFinite
  <2>2. SUFFICES ASSUME NEW x \in leafSet, NEW y \in 1..MaxLeaves
                 PROVE  LET proof == Proof(leafSet, x)
                            other == IF y \in leafSet THEN leafSet \ {y} ELSE leafSet \cup {y}
                        IN  /\ Verifies(Leaf(x), proof, Root(leafSet))
                            /\ Verifies(Leaf(y), proof, Root(leafSet)) => y = x
                            /\ other # {} => ~Verifies(Leaf(x), proof, Root(other))
    <3>1. \A x \in leafSet : Verifies(Leaf(x), Proof(leafSet, x), Root(leafSet))
      BY <2>1, ProofsAreOfOne
    <3> QED
      BY <3>1 DEF ProofsVerify
  <2>3. PICK other : other = IF y \in leafSet THEN leafSet \ {y} ELSE leafSet \cup {y}
    OBVIOUS
  <2>4. y \in Nat /\ other \in SUBSET Nat /\ other # leafSet
    BY <2>1, <2>3, MerkleAssumption
  <2>5. IsFiniteSet(other)
    <3>1. IsFiniteSet(leafSet \ {y}) /\ IsFiniteSet(leafSet \cup {y})
      BY <2>1, FS_RemoveElement, FS_AddElement
    <3> QED
      BY <2>3, <3>1
  <2>6. /\ Verifies(Leaf(x), Proof(leafSet, x), Root(leafSet))
        /\ Verifies(Leaf(y), Proof(leafSet, x), Root(leafSet)) => y = x
        /\ other # {} => ~Verifies(Leaf(x), Proof(leafSet, x), Root(other))
    BY <2>1, <2>4, <2>5, ProofsAreOfOne
  <2> QED
    BY <2>3, <2>6
<1>2. ProofsVerify /\ [FALSE]_leafSet => ProofsVerify'
  <2>1. SUFFICES ASSUME ProofsVerify, leafSet' = leafSet PROVE ProofsVerify'
    OBVIOUS
  <2> QED
    BY <2>1 DEF ProofsVerify
<1> QED
  BY <1>1, <1>2, PTL DEF MerkleSpec
=============================================================================
