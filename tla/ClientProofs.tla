---------------------------- MODULE ClientProofs ----------------------------
(***************************************************************************)
(* What holds of the other programs people use, whatever they press while  *)
(* calls, hashes and writes are under way: the page of the verifier, the   *)
(* command line and the packages it keeps, and three parts of the desktop's*)
(* window, the detail of an attestation, the form of a new one and the     *)
(* tables.                                                                 *)
(***************************************************************************)
EXTENDS VerifierPage, CliKeys, DetailPanel, AttestationForm, EvidencePackage, ListViews,
        SequenceTheorems, FiniteSetTheorems, FunctionTheorems, TLAPS

-----------------------------------------------------------------------------
(* The page of the verifier                                                 *)

VerifierSpec == NoWork /\ VerifierInit /\ [][VerifierNext]_<<work, verifierVars>>

\* what each call works on
HasInput(t) ==
  /\ t.step = "hash file" => t.item \in Files
  /\ t.step = "hash passage" => t.item \in Passages
InputTask == {t \in VerifierTask : HasInput(t)}

\* a call begun for the input that the page shows
Current(t, steps) == t # None /\ t.step \in steps /\ ~t.old
HashSteps == {"hash file", "hash passage"}

\* until the hash of the input arrives, the page has neither hash nor verdict
HashPending(t) ==
  Current(t, HashSteps) =>
    /\ t.step = "hash file" => mode \in {"file", "image"} /\ t.item = chosen
    /\ t.step = "hash passage" => mode = "passage" /\ t.item = passage
    /\ ~crossed => hash = None /\ candidates = {} /\ verdict = None

\* what is looked up is what the page shows
ShownIsAsked(t) ==
  Current(t, {"lookup"}) /\ ~crossed =>
    /\ hash # None /\ verdict = None
    /\ t.asked = IF mode = "passage" THEN candidates ELSE {hash}
    /\ t.kind = KindOf(mode)

PendingOK == \A h \in Handlers : HashPending(work[h])
AskedOK == \A h \in Handlers : ShownIsAsked(work[h])
OneHashes ==
  \A h, o \in Handlers : Current(work[h], HashSteps) /\ Current(work[o], HashSteps) => h = o
OneAsks ==
  /\ \A h \in Handlers : At(h, "lookup") => submitting
  /\ \A h, o \in Handlers : At(h, "lookup") /\ At(o, "lookup") => h = o

\* the hash on the page is that of the file, image or passage beside it
HashIsOfShown ==
  ~crossed =>
    /\ mode \in {"file", "image"} /\ hash # None => hash = chosen
    /\ mode = "passage" /\ hash # None => hash \in candidates
    /\ mode # "passage" => candidates = {}
    /\ candidates # {} => passage # None /\ candidates = WindowsOf[passage]
    /\ mode # "passage" => passage = None

VerifierInv ==
  /\ WorkIn(InputTask) /\ VerifierTypeOK
  /\ PendingOK /\ AskedOK /\ OneHashes /\ OneAsks
  /\ HashIsOfShown /\ VerdictIsOfShown

\* The page starts empty.
LEMMA VerifierInitOK == NoWork /\ VerifierInit => VerifierInv
<1> SUFFICES ASSUME NoWork, VerifierInit PROVE VerifierInv
  OBVIOUS
<1>1. /\ work = [h \in Handlers |-> None] /\ mode = "file" /\ chosen = None /\ passage = None
      /\ hash = None /\ candidates = {} /\ verdict = None
  BY DEF NoWork, VerifierInit
<1>2. WorkIn(InputTask)
  BY <1>1 DEF WorkIn
<1>3. VerifierTypeOK
  BY DEF VerifierInit, VerifierTypeOK, Modes
<1>4. PendingOK /\ AskedOK /\ OneHashes /\ OneAsks
  BY <1>1 DEF PendingOK, HashPending, AskedOK, ShownIsAsked, OneHashes, OneAsks, Current, At
<1>5. HashIsOfShown /\ VerdictIsOfShown
  BY <1>1 DEF HashIsOfShown, VerdictIsOfShown
<1> QED
  BY <1>2, <1>3, <1>4, <1>5 DEF VerifierInv

\* What is known of a task under way.
LEMMA TaskHasInput == ASSUME VerifierInv, NEW h \in Handlers, work[h] # None
  PROVE  work[h] \in InputTask /\ work[h] \in VerifierTask /\ HasInput(work[h])
BY DEF VerifierInv, WorkIn, InputTask

\* A call ends.  Either it leaves hash, candidates and verdict alone, or no other call
\* under way is of the input that is shown, or the page is crossed.
LEMMA CallEnds ==
  ASSUME VerifierInv, NEW h \in Handlers, work[h] # None, work' = [work EXCEPT ![h] = None],
         UNCHANGED <<mode, chosen, passage>>, VerifierTypeOK', ~crossed' => ~crossed,
         ~crossed' => \/ UNCHANGED <<hash, candidates, verdict>>
                      \/ \A o \in Handlers \ {h} : ~Current(work[o], HashSteps)
                                                   /\ ~Current(work[o], {"lookup"}),
         At(h, "lookup") \/ submitting' = submitting,
         HashIsOfShown', VerdictIsOfShown'
  PROVE  VerifierInv'
<1>1. WorkIn(InputTask)' /\ work'[h] = None /\ \A o \in Handlers \ {h} : work'[o] = work[o]
  BY DEF VerifierInv, WorkIn
<1>2. PendingOK' /\ AskedOK'
  <2> SUFFICES ASSUME NEW o \in Handlers PROVE HashPending(work[o])' /\ ShownIsAsked(work[o])'
    BY DEF PendingOK, AskedOK
  <2>1. CASE o = h
    BY <1>1, <2>1 DEF HashPending, ShownIsAsked, Current
  <2>2. CASE o # h
    <3>1. HashPending(work[o]) /\ ShownIsAsked(work[o]) /\ work'[o] = work[o]
      BY <1>1, <2>2 DEF VerifierInv, PendingOK, AskedOK
    <3> QED
      BY <2>2, <3>1 DEF HashPending, ShownIsAsked, Current
  <2> QED
    BY <2>1, <2>2
<1>3. OneHashes'
  BY <1>1 DEF VerifierInv, OneHashes, Current
<1>4. OneAsks'
  BY <1>1 DEF VerifierInv, OneAsks, At
<1> QED
  BY <1>1, <1>2, <1>3, <1>4 DEF VerifierInv

\* a call that is of the input shown, and ends with a hash, is the only one of it
LEMMA AloneWithHash ==
  ASSUME VerifierInv, NEW h \in Handlers, Current(work[h], HashSteps), ~crossed
  PROVE  \A o \in Handlers \ {h} : ~Current(work[o], HashSteps) /\ ~Current(work[o], {"lookup"})
<1>1. hash = None
  BY DEF VerifierInv, PendingOK, HashPending
<1>2. \A o \in Handlers : ~Current(work[o], {"lookup"})
  BY <1>1 DEF VerifierInv, AskedOK, ShownIsAsked
<1> QED
  BY <1>2 DEF VerifierInv, OneHashes

\* While the page is not crossed, the current lookup is the only current task.
LEMMA AloneWithAnswer ==
  ASSUME VerifierInv, NEW h \in Handlers, Current(work[h], {"lookup"}), ~crossed
  PROVE  \A o \in Handlers \ {h} : ~Current(work[o], HashSteps) /\ ~Current(work[o], {"lookup"})
<1>1. hash # None
  BY DEF VerifierInv, AskedOK, ShownIsAsked
<1>2. \A o \in Handlers : ~Current(work[o], HashSteps)
  BY <1>1 DEF VerifierInv, PendingOK, HashPending
<1>3. \A o \in Handlers \ {h} : ~Current(work[o], {"lookup"})
  BY DEF VerifierInv, OneAsks, Current, At
<1> QED
  BY <1>2, <1>3

\* The hash of a file is shown; that of a file chosen before crosses the page.
LEMMA FileHashedOK == ASSUME VerifierInv, NEW h \in Handlers, FileHashed(h) PROVE VerifierInv'
<1>1. PICK t : t = work[h]
  OBVIOUS
<1>2. /\ t # None /\ t.step = "hash file" /\ hash' = t.item /\ crossed' = (crossed \/ t.old)
      /\ hashing' = hashing \ {"hash file"} /\ work' = [work EXCEPT ![h] = None]
      /\ UNCHANGED <<access, page, mode, chosen, passage, submitting, candidates, verdict>>
  BY <1>1 DEF FileHashed, Hashed, At, Finish, Continue
<1>3. t \in VerifierTask /\ t.item \in Files /\ t.old \in BOOLEAN
  BY <1>1, <1>2, TaskHasInput DEF HasInput, VerifierTask
<1>4. VerifierTypeOK'
  BY <1>2, <1>3 DEF VerifierInv, VerifierTypeOK, Digests
<1>5. ASSUME ~crossed' PROVE /\ Current(t, HashSteps) /\ ~crossed
                             /\ hash' = chosen /\ candidates' = {} /\ verdict' = None
                             /\ mode \in {"file", "image"}
  <2>1. Current(t, HashSteps) /\ ~crossed
    BY <1>2, <1>5 DEF Current, HashSteps
  <2>2. HashPending(t)
    BY <1>1 DEF VerifierInv, PendingOK
  <2> QED
    BY <1>2, <2>1, <2>2 DEF HashPending
<1>6. HashIsOfShown' /\ VerdictIsOfShown'
  BY <1>2, <1>5 DEF VerifierInv, HashIsOfShown, VerdictIsOfShown
<1> QED
  BY <1>1, <1>2, <1>4, <1>5, <1>6, CallEnds, AloneWithHash

\* A hash of a passage is shown; that of a passage entered before crosses the page.
LEMMA PassageHashedOK == ASSUME VerifierInv, NEW h \in Handlers, PassageHashed(h) PROVE VerifierInv'
<1>1. PICK t : t = work[h]
  OBVIOUS
<1>2. /\ t # None /\ t.step = "hash passage" /\ candidates' = WindowsOf[t.item]
      /\ candidates' = {} => hash' = hash
      /\ candidates' # {} => hash' \in candidates'
      /\ crossed' = (crossed \/ t.old)
      /\ hashing' = hashing \ {"hash passage"} /\ work' = [work EXCEPT ![h] = None]
      /\ UNCHANGED <<access, page, mode, chosen, passage, submitting, verdict>>
  BY <1>1 DEF PassageHashed, Hashed, At, Finish, Continue
<1>3. t \in VerifierTask /\ t.item \in Passages /\ t.old \in BOOLEAN
  BY <1>1, <1>2, TaskHasInput DEF HasInput, VerifierTask
<1>4. candidates' \subseteq Digests
  BY <1>2, <1>3, VerifierConstantsOK
<1>5. VerifierTypeOK'
  BY <1>2, <1>3, <1>4 DEF VerifierInv, VerifierTypeOK
<1>6. ASSUME ~crossed' PROVE /\ Current(t, HashSteps) /\ ~crossed /\ hash = None
                             /\ t.item = passage /\ verdict' = None /\ mode = "passage"
  <2>1. Current(t, HashSteps) /\ ~crossed
    BY <1>2, <1>6 DEF Current, HashSteps
  <2>2. HashPending(t)
    BY <1>1 DEF VerifierInv, PendingOK
  <2> QED
    BY <1>2, <2>1, <2>2 DEF HashPending
<1>7. passage # None \/ crossed'
  BY <1>3, <1>6, VerifierAssumption
<1>8. HashIsOfShown' /\ VerdictIsOfShown'
  BY <1>2, <1>6, <1>7 DEF HashIsOfShown, VerdictIsOfShown
<1> QED
  BY <1>1, <1>2, <1>5, <1>6, <1>8, CallEnds, AloneWithHash

\* A call ends, and the page says what it said.
LEMMA NothingLearnt ==
  ASSUME VerifierInv, NEW h \in Handlers, work[h] # None, work' = [work EXCEPT ![h] = None],
         UNCHANGED <<inputVars, verdict, crossed>>, VerifierTypeOK',
         At(h, "lookup") \/ submitting' = submitting
  PROVE  VerifierInv'
<1>1. UNCHANGED <<mode, chosen, passage, hash, candidates, verdict, crossed>>
  BY DEF inputVars
<1>2. HashIsOfShown'
  BY <1>1 DEF VerifierInv, HashIsOfShown
<1>3. VerdictIsOfShown'
  BY <1>1 DEF VerifierInv, VerdictIsOfShown, TrueVerdict
<1>4. UNCHANGED <<mode, chosen, passage>> /\ UNCHANGED <<hash, candidates, verdict>>
  BY <1>1
<1>5. ~crossed' => ~crossed
  BY <1>1
<1> QED
  BY <1>2, <1>3, <1>4, <1>5, CallEnds

\* A hash or lookup that fails, and the answer about access, show no verdict.
LEMMA OtherEndsOK ==
  ASSUME VerifierInv, NEW h \in Handlers, HashFails(h) \/ LookupFails(h) \/ AccessKnown(h)
  PROVE  VerifierInv'
<1>1. /\ work[h] # None /\ work' = [work EXCEPT ![h] = None]
      /\ UNCHANGED <<inputVars, verdict, crossed>>
      /\ At(h, "lookup") \/ submitting' = submitting
  BY DEF HashFails, LookupFails, AccessKnown, Hashed, At, Finish, Continue, inputVars
<1>2. VerifierTypeOK'
  BY DEF HashFails, LookupFails, AccessKnown, Hashed, inputVars, VerifierInv, VerifierTypeOK
<1> QED
  BY <1>1, <1>2, NothingLearnt

\* A verdict is shown; one on input shown before crosses the page.
LEMMA LookedUpOK == ASSUME VerifierInv, NEW h \in Handlers, LookedUp(h) PROVE VerifierInv'
<1>1. PICK t : t = work[h]
  OBVIOUS
<1>2. /\ t # None /\ t.step = "lookup" /\ verdict' = LookUp(t.asked, t.kind)
      /\ crossed' = (crossed \/ t.old) /\ submitting' = FALSE
      /\ work' = [work EXCEPT ![h] = None] /\ At(h, "lookup")
      /\ UNCHANGED <<access, page, mode, chosen, passage, hash, candidates, hashing>>
  BY <1>1 DEF LookedUp, At, Finish, Continue, inputVars
<1>3. t \in VerifierTask /\ t.old \in BOOLEAN
  BY <1>1, <1>2, TaskHasInput DEF VerifierTask
<1>4. VerifierTypeOK'
  BY <1>2, <1>3 DEF VerifierInv, VerifierTypeOK, Verdicts, LookUp
<1>5. ASSUME ~crossed' PROVE /\ Current(t, {"lookup"}) /\ ~crossed /\ hash # None
                             /\ t.asked = IF mode = "passage" THEN candidates ELSE {hash}
                             /\ t.kind = KindOf(mode)
  <2>1. Current(t, {"lookup"}) /\ ~crossed
    BY <1>2, <1>5 DEF Current
  <2>2. ShownIsAsked(t)
    BY <1>1 DEF VerifierInv, AskedOK
  <2> QED
    BY <2>1, <2>2 DEF ShownIsAsked
<1>6. HashIsOfShown'
  BY <1>2, <1>3 DEF VerifierInv, HashIsOfShown
<1>7. ASSUME ~crossed' PROVE LookUp(t.asked, t.kind) = TrueVerdict
  <2>1. mode \in Modes
    BY DEF VerifierInv, VerifierTypeOK
  <2>2. HashIsOfShown
    BY DEF VerifierInv
  <2>3. CASE mode \in {"file", "image"}
    <3>1. hash = chosen /\ t.asked = {chosen}
      BY <1>5, <1>7, <2>2, <2>3 DEF HashIsOfShown
    <3>2. CASE mode = "file"
      BY <1>5, <1>7, <3>1, <3>2 DEF LookUp, TrueVerdict, LeavesOf, KindOf
    <3>3. CASE mode = "image"
      BY <1>5, <1>7, <3>1, <3>3 DEF LookUp, TrueVerdict, LeavesOf, KindOf
    <3> QED
      BY <2>3, <3>2, <3>3
  <2>4. CASE mode = "passage"
    <3>1. t.asked = WindowsOf[passage] /\ passage # None /\ t.kind = "content"
      BY <1>5, <1>7, <2>2, <2>4 DEF HashIsOfShown, KindOf
    <3> QED
      BY <2>4, <3>1 DEF LookUp, TrueVerdict, LeavesOf
  <2>5. CASE mode = "paste"
    <3>1. t.asked = {hash} /\ t.kind = "any"
      BY <1>5, <1>7, <2>5 DEF KindOf
    <3>2. {hash} \cap LeavesOf("any") # {} <=> \E k \in Kinds : hash \in Leaves[k]
      BY DEF LeavesOf
    <3> QED
      BY <2>5, <3>1, <3>2 DEF LookUp, TrueVerdict
  <2> QED
    BY <2>1, <2>3, <2>4, <2>5 DEF Modes
<1>8. VerdictIsOfShown'
  <2> SUFFICES ASSUME ~crossed' PROVE verdict' = TrueVerdict'
    BY DEF VerdictIsOfShown
  <2>1. TrueVerdict' = TrueVerdict
    BY <1>2 DEF TrueVerdict
  <2> QED
    BY <1>2, <1>7, <2>1
<1> QED
  BY <1>1, <1>2, <1>4, <1>5, <1>6, <1>8, CallEnds, AloneWithAnswer

\* The input changes: every call under way is old from now on, but for one that h begins.
LEMMA AgedWork ==
  ASSUME VerifierInv, NEW h \in Handlers
  PROVE  /\ Aged(work) \in [Handlers -> InputTask \cup {None}]
         /\ Aged(work)[h] = None <=> work[h] = None
         /\ Aged(work)[h] # None => Aged(work)[h].old /\ Aged(work)[h].step = work[h].step
<1>1. ASSUME NEW o \in Handlers, work[o] # None
      PROVE  LET t == [work[o] EXCEPT !.old = TRUE]
             IN  t \in InputTask /\ t # None /\ t.old /\ t.step = work[o].step
  <2>1. PICK t : t = [work[o] EXCEPT !.old = TRUE]
    OBVIOUS
  <2>2. work[o] \in VerifierTask /\ HasInput(work[o])
    BY <1>1, TaskHasInput
  <2>3. t \in VerifierTask /\ t.old /\ t.step = work[o].step /\ t.item = work[o].item
    BY <2>1, <2>2 DEF VerifierTask
  <2>4. t \in InputTask /\ t # None
    BY <2>2, <2>3, VerifierAssumption DEF InputTask, HasInput
  <2> QED
    BY <2>1, <2>3, <2>4
<1> QED
  BY <1>1 DEF Aged

\* New input clears hash and verdict, and makes what is under way old.
LEMMA InputClears ==
  ASSUME VerifierInv, NEW h \in Handlers, NEW task \in InputTask \cup {None},
         IF task = None THEN work' = Aged(work)
                        ELSE work[h] = None /\ work' = [Aged(work) EXCEPT ![h] = task],
         task # None => task.step \in HashSteps /\ HashPending(task)',
         VerifierTypeOK', UNCHANGED submitting, hash' = None, verdict' = None,
         HashIsOfShown'
  PROVE  VerifierInv'
<1>1. WorkIn(InputTask)'
  BY AgedWork DEF WorkIn
<1>2. \A o \in Handlers : task = None \/ o # h => work'[o] = Aged(work)[o]
  BY AgedWork
<1>3. task # None => work'[h] = task
  BY AgedWork
<1>4. \A o \in Handlers : Current(work'[o], HashSteps) \/ Current(work'[o], {"lookup"}) =>
                            o = h /\ task # None
  BY <1>2, AgedWork DEF Current
<1>5. PendingOK'
  <2> SUFFICES ASSUME NEW o \in Handlers, Current(work'[o], HashSteps)
               PROVE  HashPending(work[o])'
    BY DEF PendingOK, HashPending
  <2> QED
    BY <1>3, <1>4
<1>6. AskedOK'
  <2> SUFFICES ASSUME NEW o \in Handlers, Current(work'[o], {"lookup"})
               PROVE  FALSE
    BY DEF AskedOK, ShownIsAsked
  <2> QED
    BY <1>3, <1>4 DEF Current, HashSteps
<1>7. OneHashes'
  BY <1>4 DEF OneHashes
<1>8. \A o \in Handlers : At(o, "lookup")' => At(o, "lookup")
  BY <1>2, <1>3, AgedWork DEF At, HashSteps
<1>9. OneAsks'
  BY <1>8 DEF VerifierInv, OneAsks
<1>10. VerdictIsOfShown'
  BY DEF VerdictIsOfShown
<1> QED
  BY <1>1, <1>5, <1>6, <1>7, <1>9, <1>10 DEF VerifierInv

\* Another mode is new input.
LEMMA ChooseModeOK == ASSUME VerifierInv, NEW m \in Modes, ChooseMode(m) PROVE VerifierInv'
<1>1. CASE Handlers = {}
  <2>1. UNCHANGED work
    BY <1>1 DEF ChooseMode, Aged, VerifierInv, WorkIn
  <2> QED
    BY <1>1, <2>1 DEF ChooseMode, VerifierInv, VerifierTypeOK, HashIsOfShown, VerdictIsOfShown,
                      PendingOK, AskedOK, OneHashes, OneAsks, WorkIn
<1>2. ASSUME NEW h \in Handlers PROVE VerifierInv'
  <2>1. VerifierTypeOK'
    BY DEF ChooseMode, VerifierInv, VerifierTypeOK
  <2>2. HashIsOfShown'
    BY DEF ChooseMode, VerifierInv, HashIsOfShown
  <2>3. /\ work' = Aged(work) /\ UNCHANGED submitting /\ hash' = None /\ verdict' = None
    BY DEF ChooseMode
  <2> QED
    BY <2>1, <2>2, <2>3, InputClears
<1> QED
  BY <1>1, <1>2

\* Another file is new input, whose hash begins.
LEMMA SelectFileOK ==
  ASSUME VerifierInv, NEW h \in Handlers, NEW f \in Files \cup {None}, SelectFile(h, f)
  PROVE  VerifierInv'
<1>1. /\ mode \in {"file", "image"} /\ work[h] = None /\ chosen' = f /\ passage' = None
      /\ candidates' = {} /\ crossed' = FALSE /\ hash' = None /\ verdict' = None
      /\ UNCHANGED <<access, page, mode, submitting>>
  BY DEF SelectFile, ClearForFile, Fresh
<1>2. VerifierTypeOK'
  BY <1>1 DEF SelectFile, ClearForFile, VerifierInv, VerifierTypeOK
<1>3. HashIsOfShown'
  BY <1>1 DEF HashIsOfShown
<1>4. CASE f = None \/ (mode = "image" /\ f \notin Images)
  <2>1. work' = [Aged(work) EXCEPT ![h] = @]
    BY <1>4 DEF SelectFile, ClearForFile, Fresh
  <2>2. work' = Aged(work)
    BY <2>1, AgedWork
  <2> QED
    BY <1>1, <1>2, <1>3, <2>2, InputClears
<1>5. CASE ~(f = None \/ (mode = "image" /\ f \notin Images))
  <2>1. PICK task : task = Task("hash file", f, {}, None)
    OBVIOUS
  <2>2. task = [step |-> "hash file", item |-> f, asked |-> {}, kind |-> None, old |-> FALSE]
    BY <2>1 DEF Task
  <2>3. task \in VerifierTask /\ f \in Files
    BY <1>5, <2>2 DEF VerifierTask
  <2>4. task \in InputTask /\ task # None
    BY <2>2, <2>3, VerifierAssumption DEF InputTask, HasInput
  <2>5. work' = [Aged(work) EXCEPT ![h] = task]
    BY <1>5, <2>1, <2>4 DEF SelectFile, ClearForFile, Fresh
  <2>6. task.step \in HashSteps /\ HashPending(task)'
    BY <1>1, <2>2 DEF HashPending, HashSteps
  <2> QED
    BY <1>1, <1>2, <1>3, <2>4, <2>5, <2>6, InputClears
<1> QED
  BY <1>4, <1>5

\* Another passage is new input, whose hash begins.
LEMMA EnterPassageOK ==
  ASSUME VerifierInv, NEW h \in Handlers, NEW p \in Passages \cup {None}, EnterPassage(h, p)
  PROVE  VerifierInv'
<1>1. /\ mode = "passage" /\ work[h] = None /\ passage' = p
      /\ candidates' = {} /\ crossed' = FALSE /\ hash' = None /\ verdict' = None
      /\ UNCHANGED <<access, page, mode, chosen, submitting>>
  BY DEF EnterPassage, Fresh
<1>2. VerifierTypeOK'
  BY <1>1 DEF EnterPassage, VerifierInv, VerifierTypeOK
<1>3. HashIsOfShown'
  BY <1>1 DEF HashIsOfShown
<1>4. CASE p = None
  <2>1. work' = [Aged(work) EXCEPT ![h] = @]
    BY <1>4 DEF EnterPassage, Fresh
  <2>2. work' = Aged(work)
    BY <2>1, AgedWork
  <2> QED
    BY <1>1, <1>2, <1>3, <2>2, InputClears
<1>5. CASE p # None
  <2>1. PICK task : task = Task("hash passage", p, {}, None)
    OBVIOUS
  <2>2. task = [step |-> "hash passage", item |-> p, asked |-> {}, kind |-> None, old |-> FALSE]
    BY <2>1 DEF Task
  <2>3. task \in VerifierTask /\ p \in Passages
    BY <1>5, <2>2 DEF VerifierTask
  <2>4. task \in InputTask /\ task # None
    BY <2>2, <2>3, VerifierAssumption DEF InputTask, HasInput
  <2>5. work' = [Aged(work) EXCEPT ![h] = task]
    BY <1>5, <2>1, <2>4 DEF EnterPassage, Fresh
  <2>6. task.step \in HashSteps /\ HashPending(task)'
    BY <1>1, <2>2 DEF HashPending, HashSteps
  <2> QED
    BY <1>1, <1>2, <1>3, <2>4, <2>5, <2>6, InputClears
<1> QED
  BY <1>4, <1>5

\* A pasted hash is its own input.
LEMMA PasteHashOK == ASSUME VerifierInv, NEW d \in Digests, PasteHash(d) PROVE VerifierInv'
<1>1. /\ mode = "paste" /\ hash' = d /\ work' = Aged(work)
      /\ crossed' = (crossed \/ verdict # None)
      /\ UNCHANGED <<access, page, mode, chosen, passage, candidates, hashing, submitting, verdict>>
  BY DEF PasteHash
<1>2. VerifierTypeOK'
  BY <1>1 DEF VerifierInv, VerifierTypeOK
<1>3. WorkIn(InputTask)'
  BY <1>1, AgedWork DEF WorkIn, Aged
<1>4. \A o \in Handlers : ~Current(work'[o], HashSteps) /\ ~Current(work'[o], {"lookup"})
  BY <1>1, AgedWork DEF Current
<1>5. PendingOK' /\ AskedOK' /\ OneHashes'
  BY <1>4 DEF PendingOK, HashPending, AskedOK, ShownIsAsked, OneHashes
<1>6. OneAsks'
  BY <1>1, AgedWork DEF VerifierInv, OneAsks, At
<1>7. HashIsOfShown' /\ VerdictIsOfShown'
  BY <1>1 DEF VerifierInv, HashIsOfShown, VerdictIsOfShown
<1> QED
  BY <1>2, <1>3, <1>5, <1>6, <1>7 DEF VerifierInv

\* A candidate of a passage is picked as the hash to look up.
LEMMA PickCandidateOK ==
  ASSUME VerifierInv, NEW d \in Digests, PickCandidate(d) PROVE VerifierInv'
<1>1. /\ mode = "passage" /\ d \in candidates /\ hash' = d
      /\ UNCHANGED <<work, access, page, mode, chosen, passage, candidates, hashing, submitting,
                     verdict, crossed>>
  BY DEF PickCandidate
<1>2. WorkIn(InputTask)' /\ VerifierTypeOK' /\ OneHashes' /\ OneAsks'
  BY <1>1 DEF VerifierInv, WorkIn, VerifierTypeOK, OneHashes, OneAsks, At
<1>3. PendingOK'
  BY <1>1 DEF VerifierInv, PendingOK, HashPending
<1>4. d # None
  BY VerifierAssumption
<1>5. AskedOK'
  BY <1>1, <1>4 DEF VerifierInv, AskedOK, ShownIsAsked
<1>6. HashIsOfShown'
  BY <1>1 DEF VerifierInv, HashIsOfShown
<1>7. TrueVerdict' = TrueVerdict
  BY <1>1 DEF TrueVerdict
<1>8. VerdictIsOfShown'
  BY <1>1, <1>7 DEF VerifierInv, VerdictIsOfShown
<1> QED
  BY <1>2, <1>3, <1>5, <1>6, <1>8 DEF VerifierInv

\* The page asks whether its reader has access.
LEMMA LoadOK == ASSUME VerifierInv, NEW h \in Handlers, Load(h) PROVE VerifierInv'
<1>1. PICK task : task = Task("load", None, {}, None)
  OBVIOUS
<1>2. /\ task = [step |-> "load", item |-> None, asked |-> {}, kind |-> None, old |-> FALSE]
      /\ work[h] = None /\ work' = [work EXCEPT ![h] = task] /\ UNCHANGED verifierVars
  BY <1>1 DEF Task, Load, Begin
<1>3. task \in VerifierTask
  BY <1>2 DEF VerifierTask
<1>4. task \in InputTask /\ task.step = "load"
  BY <1>2, <1>3 DEF InputTask, HasInput
<1>5. /\ UNCHANGED <<mode, chosen, passage, hash, candidates, verdict, crossed, submitting>>
      /\ VerifierTypeOK'
  BY <1>2 DEF VerifierInv, VerifierTypeOK, verifierVars, inputVars
<1>6. WorkIn(InputTask)' /\ work'[h] = task /\ \A o \in Handlers \ {h} : work'[o] = work[o]
  BY <1>2, <1>4 DEF VerifierInv, WorkIn
<1>7. PendingOK'
  BY <1>4, <1>5, <1>6 DEF VerifierInv, PendingOK, HashPending, Current, HashSteps
<1>8. AskedOK'
  BY <1>4, <1>5, <1>6 DEF VerifierInv, AskedOK, ShownIsAsked, Current
<1>9. OneHashes' /\ OneAsks'
  BY <1>4, <1>5, <1>6 DEF VerifierInv, OneHashes, OneAsks, Current, HashSteps, At
<1>10. HashIsOfShown'
  BY <1>5 DEF VerifierInv, HashIsOfShown
<1>11. TrueVerdict' = TrueVerdict
  BY <1>5 DEF TrueVerdict
<1>12. VerdictIsOfShown'
  BY <1>5, <1>11 DEF VerifierInv, VerdictIsOfShown
<1> QED
  BY <1>5, <1>6, <1>7, <1>8, <1>9, <1>10, <1>12 DEF VerifierInv

\* A lookup is sent for the hash shown.
LEMMA SubmitOK == ASSUME VerifierInv, NEW h \in Handlers, Submit(h) PROVE VerifierInv'
<1>1. PICK asks, task : /\ asks = IF mode = "passage" THEN candidates ELSE {hash}
                        /\ task = Task("lookup", None, asks, KindOf(mode))
  OBVIOUS
<1>2. /\ task = [step |-> "lookup", item |-> None, asked |-> asks, kind |-> KindOf(mode),
                 old |-> FALSE]
      /\ work[h] = None /\ work' = [work EXCEPT ![h] = task]
      /\ hash # None /\ ~submitting /\ submitting' = TRUE /\ verdict' = None
      /\ UNCHANGED <<access, page, mode, chosen, passage, hash, candidates, hashing, crossed>>
  BY <1>1 DEF Task, Submit, Begin, inputVars
<1>3. VerifierTypeOK'
  BY <1>2 DEF VerifierInv, VerifierTypeOK
<1>4. asks \subseteq Digests
  BY <1>1, <1>2 DEF VerifierInv, VerifierTypeOK
<1>5. KindOf(mode) \in Kinds \cup {"any", None}
  BY DEF KindOf, Kinds, VerifierInv, VerifierTypeOK, Modes
<1>6. task \in InputTask
  <2>1. task \in VerifierTask
    BY <1>2, <1>4, <1>5 DEF VerifierTask
  <2> QED
    BY <1>2, <2>1 DEF InputTask, HasInput
<1>7. WorkIn(InputTask)' /\ work'[h] = task /\ \A o \in Handlers \ {h} : work'[o] = work[o]
  BY <1>2, <1>6 DEF VerifierInv, WorkIn
<1>8. \A o \in Handlers : ~At(o, "lookup")
  BY <1>2 DEF VerifierInv, OneAsks
<1>a. task.step = "lookup" /\ task # None
  BY <1>2, <1>6, VerifierAssumption DEF InputTask
<1>b. ~Current(task, HashSteps)
  BY <1>a DEF Current, HashSteps
<1>9. PendingOK'
  <2> SUFFICES ASSUME NEW o \in Handlers, o # h PROVE HashPending(work[o])'
    BY <1>7, <1>b DEF PendingOK, HashPending
  <2>1. HashPending(work[o]) /\ work'[o] = work[o]
    BY <1>7 DEF VerifierInv, PendingOK
  <2> QED
    BY <1>2, <2>1 DEF HashPending
<1>10. AskedOK'
  <2> SUFFICES ASSUME NEW o \in Handlers PROVE ShownIsAsked(work[o])'
    BY DEF AskedOK
  <2>1. CASE o = h
    BY <1>1, <1>2, <1>7, <2>1 DEF ShownIsAsked, Current
  <2>2. CASE o # h
    BY <1>7, <1>8, <2>2 DEF ShownIsAsked, Current, At
  <2> QED
    BY <2>1, <2>2
<1>11. OneHashes'
  BY <1>7, <1>b DEF VerifierInv, OneHashes
<1>12. OneAsks'
  BY <1>2, <1>7, <1>8 DEF OneAsks, At
<1>13. HashIsOfShown' /\ VerdictIsOfShown'
  BY <1>2 DEF VerifierInv, HashIsOfShown, VerdictIsOfShown
<1> QED
  BY <1>3, <1>7, <1>9, <1>10, <1>11, <1>12, <1>13 DEF VerifierInv

\* access is given and taken back, and the page asks for it
LEMMA AccessOK ==
  ASSUME VerifierInv, VerifierTypeOK',
         UNCHANGED <<work, mode, chosen, passage, hash, candidates, verdict, crossed, submitting>>
  PROVE  VerifierInv'
<1>2. WorkIn(InputTask)' /\ OneHashes' /\ OneAsks'
  BY DEF VerifierInv, WorkIn, OneHashes, OneAsks, At
<1>5. PendingOK' /\ AskedOK'
  <2> SUFFICES ASSUME NEW h \in Handlers PROVE HashPending(work[h])' /\ ShownIsAsked(work[h])'
    BY DEF PendingOK, AskedOK
  <2>1. HashPending(work[h]) /\ ShownIsAsked(work[h]) /\ work'[h] = work[h]
    BY DEF VerifierInv, PendingOK, AskedOK
  <2>2. HashPending(work[h])'
    BY <2>1 DEF HashPending, Current, HashSteps
  <2>3. ShownIsAsked(work[h])'
    BY <2>1 DEF ShownIsAsked, Current
  <2> QED
    BY <2>2, <2>3
<1>3. TrueVerdict' = TrueVerdict
  BY DEF TrueVerdict
<1>4. HashIsOfShown' /\ VerdictIsOfShown'
  BY <1>3 DEF VerifierInv, HashIsOfShown, VerdictIsOfShown
<1> QED
  BY <1>2, <1>4, <1>5 DEF VerifierInv

\* Every step of the page keeps the invariant.
LEMMA VerifierStepOK ==
  VerifierInv /\ [VerifierNext]_<<work, verifierVars>> => VerifierInv'
<1> SUFFICES ASSUME VerifierInv, [VerifierNext]_<<work, verifierVars>> PROVE VerifierInv'
  OBVIOUS
<1>1. CASE SetAccess \/ RequestAccess \/ Reload \/ UNCHANGED <<work, verifierVars>>
  <2>1. VerifierTypeOK'
    BY <1>1 DEF SetAccess, RequestAccess, Reload, VerifierInv, VerifierTypeOK, verifierVars,
                inputVars
  <2>2. UNCHANGED <<work, mode, chosen, passage, hash, candidates, verdict, crossed, submitting>>
    BY <1>1 DEF SetAccess, RequestAccess, Reload, verifierVars, inputVars
  <2> QED
    BY <2>1, <2>2, AccessOK
<1>2. CASE \E m \in Modes : ChooseMode(m)
  BY <1>2, ChooseModeOK
<1>3. CASE \E d \in Digests : PasteHash(d) \/ PickCandidate(d)
  BY <1>3, PasteHashOK, PickCandidateOK
<1>4. ASSUME NEW h \in Handlers, \/ Load(h) \/ AccessKnown(h)
                                 \/ FileHashed(h) \/ PassageHashed(h) \/ HashFails(h)
                                 \/ Submit(h) \/ LookedUp(h) \/ LookupFails(h)
      PROVE  VerifierInv'
  BY <1>4, LoadOK, OtherEndsOK, FileHashedOK, PassageHashedOK, SubmitOK, LookedUpOK
<1>5. ASSUME NEW h \in Handlers, \/ \E f \in Files \cup {None} : SelectFile(h, f)
                                 \/ \E p \in Passages \cup {None} : EnterPassage(h, p)
      PROVE  VerifierInv'
  BY <1>5, SelectFileOK, EnterPassageOK
<1> QED
  BY <1>1, <1>2, <1>3, <1>4, <1>5 DEF VerifierNext

\* What the page shows and the calls under way have their types.
THEOREM VerifierIsTyped == VerifierSpec => [](VerifierTypeOK /\ WorkIn(VerifierTask))
<1>1. VerifierInv => VerifierTypeOK /\ WorkIn(VerifierTask)
  BY DEF VerifierInv, WorkIn, InputTask
<1> QED
  BY <1>1, VerifierInitOK, VerifierStepOK, PTL DEF VerifierSpec

\* Whatever is chosen, typed and pasted while hashes and lookups are under way, the verdict
\* on the page is true of what is shown beside it, unless the page is crossed.
THEOREM VerdictsAreOfShown == VerifierSpec => []VerdictIsOfShown
<1>1. VerifierInv => VerdictIsOfShown
  BY DEF VerifierInv
<1> QED
  BY <1>1, VerifierInitOK, VerifierStepOK, PTL DEF VerifierSpec

-----------------------------------------------------------------------------
(* The command line and its config.json                                     *)

CliSpec == NoWork /\ CliInit /\ [][CliNext]_<<work, cliVars>>

\* a key that is good, or was ended otherwise than by the rotation that saves the next
Held(k) == LiveKey(k) \/ k \in withdrawnKeys
Excused(k) == Held(k) \/ Rotating(k) \/ clobbered

\* the key of a config.json, saved or loaded, was made, and for the workspace beside it
Owned(c) ==
  c.key # None => apiKey[c.key] # None /\ (c.byHand \/ apiKey[c.key].site = c.site)
Works(c) == c.key # None /\ ~c.byHand => Excused(c.key)

Saving == {"load", "truncate", "write"}
MakesKey(t) == t.command \in {"create", "rotate"}
Keyed(t) ==
  /\ t.step = "revoke" => t.old \in KeyIds
  /\ t.old # None => t.command = "rotate"
  /\ MakesKey(t) => t.site \in Sites
  /\ MakesKey(t) /\ t.step # "request" => t.key \in KeyIds
KeyedCommand == {t \in Command : Keyed(t)}

\* a key under way is as good as when it was made, and what was loaded as good as the file was
CommandOK(t) ==
  /\ t.key # None => apiKey[t.key] # None
  /\ t.key # None /\ MakesKey(t) => apiKey[t.key].site = t.site /\ Held(t.key)
  /\ t.step \in {"truncate", "write"} => Owned(t.loaded) /\ Works(t.loaded)
CommandsOK == \A h \in Handlers : work[h] # None => CommandOK(work[h])

\* a command that fills config.json has read it last, but for commands that met an empty one
FillsAlone(h) ==
  At(h, "write") /\ ~clobbered =>
    /\ config \in {TornFile, NoConfig}
    /\ \A o \in Handlers \ {h} : ~At(o, "write") /\ (At(o, "truncate") => work[o].loaded = NoConfig)

CliInv ==
  /\ WorkIn(KeyedCommand) /\ CliTypeOK
  /\ CommandsOK
  /\ config # TornFile => Owned(config) /\ Works(config)
  /\ \A h \in Handlers : FillsAlone(h)


\* Initially there are no keys, no config and no commands.
LEMMA CliInitOK == NoWork /\ CliInit => CliInv
<1> SUFFICES ASSUME NoWork, CliInit PROVE CliInv
  OBVIOUS
<1>1. /\ work = [h \in Handlers |-> None] /\ config = NoConfig
      /\ apiKey = [k \in KeyIds |-> None] /\ withdrawnKeys = {} /\ clobbered = FALSE
  BY DEF NoWork, CliInit
<1>2. NoConfig \in Config /\ NoConfig.key = None
  BY DEF NoConfig, Config
<1>3. WorkIn(KeyedCommand) /\ CliTypeOK /\ CommandsOK
  BY <1>1, <1>2 DEF WorkIn, CliTypeOK, CommandsOK
<1>4. Owned(config) /\ Works(config)
  BY <1>1, <1>2 DEF Owned, Works
<1>5. \A h \in Handlers : FillsAlone(h)
  BY <1>1 DEF FillsAlone, At
<1> QED
  BY <1>3, <1>4, <1>5 DEF CliInv

\* What is known of a command under way.
LEMMA TheCommand == ASSUME CliInv, NEW h \in Handlers, work[h] # None
  PROVE  work[h] \in KeyedCommand /\ work[h] \in Command /\ Keyed(work[h]) /\ CommandOK(work[h])
BY DEF CliInv, WorkIn, KeyedCommand, CommandsOK

\* Keys stay made for their workspaces, and are ended only with leave; the command of h
\* goes on with task, or ends.
LEMMA CommandGoes ==
  ASSUME CliInv, CliTypeOK', NEW h \in Handlers, NEW task \in KeyedCommand \cup {None},
         work' = [work EXCEPT ![h] = task],
         \A k \in KeyIds : apiKey[k] # None => apiKey'[k] # None /\ apiKey'[k].site = apiKey[k].site,
         \A k \in KeyIds : Excused(k) =>
           \/ Excused(k)'
           \/ \A o \in Handlers \ {h} : work[o] # None /\ work[o].step \in {"truncate", "write"} =>
                work[o].loaded.key # k,
         \A k \in KeyIds : Held(k) =>
           Held(k)' \/ \A o \in Handlers \ {h} : work[o] # None => work[o].key # k,
         task # None => CommandOK(task)',
         config' # TornFile => Owned(config)' /\ Works(config)',
         \A o \in Handlers : FillsAlone(o)'
  PROVE  CliInv'
<1>1. WorkIn(KeyedCommand)' /\ work'[h] = task /\ \A o \in Handlers \ {h} : work'[o] = work[o]
  BY DEF CliInv, WorkIn
<1>2. ASSUME NEW o \in Handlers \ {h}, work[o] # None
      PROVE  CommandOK(work[o])'
  <2>1. PICK t : t = work[o]
    OBVIOUS
  <2>2. t \in Command /\ CommandOK(t) /\ work'[o] = t
    BY <1>1, <1>2, <2>1, TheCommand
  <2>3. t.key \in KeyIds \cup {None} /\ t.loaded.key \in KeyIds \cup {None}
    BY <2>2 DEF Command, Config
  <2>4. t.key # None => /\ apiKey'[t.key] # None /\ apiKey'[t.key].site = apiKey[t.key].site
                        /\ Held(t.key) => Held(t.key)'
    BY <1>2, <2>1, <2>2, <2>3 DEF CommandOK
  <2>5. t.step \in {"truncate", "write"} => Owned(t.loaded)' /\ Works(t.loaded)'
    <3> SUFFICES ASSUME t.step \in {"truncate", "write"}
                 PROVE  Owned(t.loaded)' /\ Works(t.loaded)'
      OBVIOUS
    <3>1. Owned(t.loaded) /\ Works(t.loaded)
      BY <2>2 DEF CommandOK
    <3>2. t.loaded.key \in KeyIds /\ Excused(t.loaded.key) => Excused(t.loaded.key)'
      BY <1>2, <2>1
    <3> QED
      BY <2>3, <3>1, <3>2 DEF Owned, Works
  <2>6. CommandOK(t)'
    BY <2>2, <2>4, <2>5 DEF CommandOK
  <2> QED
    BY <2>2, <2>6
<1>3. CommandsOK'
  BY <1>1, <1>2 DEF CommandsOK
<1> QED
  BY <1>1, <1>3 DEF CliInv

\* the keys stay as they are, and who rotates goes on with it or ends the rule
LEMMA KeysStay ==
  ASSUME CliInv, UNCHANGED <<apiKey, withdrawnKeys>>, clobbered => clobbered',
         NEW h \in Handlers, NEW task \in KeyedCommand \cup {None},
         work' = [work EXCEPT ![h] = task],
         work[h] # None /\ work[h].old # None /\ work[h].use /\ work[h].step \in Saving =>
           \/ clobbered'
           \/ task # None /\ task.old = work[h].old /\ task.use /\ task.step \in Saving
  PROVE  /\ \A k \in KeyIds : apiKey[k] # None =>
              apiKey'[k] # None /\ apiKey'[k].site = apiKey[k].site
         /\ \A k \in KeyIds : Excused(k) => Excused(k)'
         /\ \A k \in KeyIds : Held(k) => Held(k)'
<1>1. \A k \in KeyIds : (Held(k) <=> Held(k)')
  BY DEF Held, LiveKey
<1>2. work'[h] = task /\ \A o \in Handlers \ {h} : work'[o] = work[o]
  BY DEF CliInv, WorkIn
<1>3. ASSUME NEW k \in KeyIds, Rotating(k), ~clobbered' PROVE Rotating(k)'
  <2>1. PICK o \in Handlers : work[o] # None /\ work[o].old = k /\ work[o].use
                              /\ work[o].step \in Saving
    BY <1>3 DEF Rotating, Saving
  <2>2. CASE o = h
    BY <1>2, <1>3, <2>1, <2>2, CliAssumption DEF Rotating, Saving
  <2>3. CASE o # h
    BY <1>2, <2>1, <2>3 DEF Rotating, Saving
  <2> QED
    BY <2>2, <2>3
<1> QED
  BY <1>1, <1>3 DEF Excused

\* A command that starts holds no key it has made.
LEMMA StartOK ==
  ASSUME CliInv, NEW h \in Handlers,
         NEW task \in Command, work[h] = None, work' = [work EXCEPT ![h] = task],
         UNCHANGED cliVars, task.step \in {"request", "load"},
         MakesKey(task) => task.step = "request" /\ task.key = None /\ task.site \in Sites,
         task.old # None => task.command = "rotate",
         task.key # None => task.key \in KeyIds /\ apiKey[task.key] # None
  PROVE  CliInv'
<1>1. UNCHANGED <<apiKey, config, withdrawnKeys, clobbered>> /\ CliTypeOK'
  BY DEF cliVars, CliInv, CliTypeOK
<1>2. task \in KeyedCommand
  BY DEF KeyedCommand, Keyed
<1>3. /\ \A k \in KeyIds : apiKey[k] # None =>
           apiKey'[k] # None /\ apiKey'[k].site = apiKey[k].site
      /\ \A k \in KeyIds : Excused(k) => Excused(k)'
      /\ \A k \in KeyIds : Held(k) => Held(k)'
  BY <1>1, <1>2, KeysStay
<1>4. CommandOK(task)'
  BY <1>1 DEF CommandOK
<1>6. config' # TornFile => Owned(config)' /\ Works(config)'
  <2> SUFFICES ASSUME config # TornFile PROVE Owned(config)' /\ Works(config)'
    BY <1>1
  <2>1. Owned(config) /\ Works(config) /\ config.key \in KeyIds \cup {None}
    BY DEF CliInv, CliTypeOK, Config
  <2> QED
    BY <1>1, <1>3, <2>1 DEF Owned, Works
<1>7. \A o \in Handlers : FillsAlone(o)'
  <2>1. work'[h] = task /\ \A o \in Handlers \ {h} : work'[o] = work[o]
    BY DEF CliInv, WorkIn
  <2> QED
    BY <1>1, <2>1 DEF CliInv, FillsAlone, At
<1> QED
  BY <1>1, <1>2, <1>3, <1>4, <1>6, <1>7, CommandGoes

\* Logging in or out begins with a request or a load.
LEMMA LoginOK == ASSUME CliInv, NEW h \in Handlers, Login(h) \/ Logout(h) PROVE CliInv'
<1>1. PICK command, step, task :
        /\ (command = "login" /\ step = "request") \/ (command = "logout" /\ step = "load")
        /\ task = [command |-> command, step |-> step, site |-> None, old |-> None,
                   key |-> None, use |-> FALSE, loaded |-> NoConfig]
        /\ work[h] = None /\ work' = [work EXCEPT ![h] = task] /\ UNCHANGED cliVars
  BY DEF Login, Logout, Start, Begin
<1>2. NoConfig \in Config
  BY DEF NoConfig, Config
<1>3. task \in Command
  BY <1>1, <1>2 DEF Command, Commands
<1>4. task.step \in {"request", "load"} /\ ~MakesKey(task) /\ task.key = None /\ task.old = None
  BY <1>1 DEF MakesKey
<1> QED
  BY <1>1, <1>3, <1>4, StartOK

\* Setting a value begins with a load.
LEMMA SetConfigOK ==
  ASSUME CliInv, NEW h \in Handlers, NEW s \in Sites \cup {None}, NEW k \in Made \cup {None},
         SetConfig(h, s, k)
  PROVE  CliInv'
<1>1. PICK task :
        task = [command |-> "set", step |-> "load", site |-> s, old |-> None,
                key |-> k, use |-> FALSE, loaded |-> NoConfig]
  OBVIOUS
<1>2. work[h] = None /\ work' = [work EXCEPT ![h] = task] /\ UNCHANGED cliVars
  BY <1>1 DEF SetConfig, Begin
<1>3. NoConfig \in Config
  BY DEF NoConfig, Config
<1>4. task \in Command
  BY <1>1, <1>3 DEF Command, Commands, Made
<1>5. /\ task.step = "load" /\ ~MakesKey(task) /\ task.key = k /\ task.old = None
      /\ k # None => k \in KeyIds /\ apiKey[k] # None
  BY <1>1 DEF MakesKey, Made
<1> QED
  BY <1>2, <1>4, <1>5, StartOK

\* Creating, rotating or revoking a key begins with a request.
LEMMA KeyCommandOK ==
  ASSUME CliInv, NEW h \in Handlers, NEW s \in Sites, NEW old \in Made \cup {None},
         NEW use \in BOOLEAN, KeyCommand(h, s, old, use)
  PROVE  CliInv'
<1>1. PICK command, task :
        /\ command = IF old = None THEN "create" ELSE "rotate"
        /\ task = [command |-> command, step |-> "request",
                   site |-> s, old |-> old, key |-> None, use |-> use, loaded |-> NoConfig]
  OBVIOUS
<1>2. work[h] = None /\ work' = [work EXCEPT ![h] = task] /\ UNCHANGED cliVars
  BY <1>1 DEF KeyCommand, Begin
<1>3. NoConfig \in Config
  BY DEF NoConfig, Config
<1>4. task \in Command
  BY <1>1, <1>3 DEF Command, Commands, Made
<1>5. task.step = "request" /\ task.key = None /\ task.site \in Sites
      /\ (task.old # None => task.command = "rotate")
  BY <1>1
<1> QED
  BY <1>2, <1>4, <1>5, StartOK

\* what a config.json says stays as true as it was while keys stay excused
LEMMA StaysTrue ==
  ASSUME NEW c \in Config, Owned(c), Works(c),
         \A k \in KeyIds : apiKey[k] # None => apiKey'[k] # None /\ apiKey'[k].site = apiKey[k].site,
         \A k \in KeyIds : Excused(k) => Excused(k)'
  PROVE  Owned(c)' /\ Works(c)'
<1>1. c.key \in KeyIds \cup {None}
  BY DEF Config
<1> QED
  BY <1>1 DEF Owned, Works

\* Neither the keys nor config.json change, and h goes on.
LEMMA FileStays ==
  ASSUME CliInv, UNCHANGED <<apiKey, config, withdrawnKeys>>,
         clobbered => clobbered', clobbered' \in BOOLEAN,
         NEW h \in Handlers, NEW task \in KeyedCommand \cup {None}, work[h] # None,
         work' = [work EXCEPT ![h] = task],
         work[h].old # None /\ work[h].use /\ work[h].step \in Saving =>
           \/ clobbered'
           \/ task # None /\ task.old = work[h].old /\ task.use /\ task.step \in Saving,
         task # None => /\ task.command = work[h].command /\ task.key = work[h].key
                        /\ task.site = work[h].site /\ task.step # "write"
                        /\ task.step = "truncate" => config # TornFile /\ task.loaded = config
  PROVE  CliInv'
<1>1. CliTypeOK'
  BY DEF CliInv, CliTypeOK
<1>2. /\ \A k \in KeyIds : apiKey[k] # None =>
           apiKey'[k] # None /\ apiKey'[k].site = apiKey[k].site
      /\ \A k \in KeyIds : Excused(k) => Excused(k)'
      /\ \A k \in KeyIds : Held(k) => Held(k)'
  BY KeysStay
<1>3. config # TornFile => Owned(config)' /\ Works(config)'
  <2> SUFFICES ASSUME config # TornFile PROVE Owned(config)' /\ Works(config)'
    OBVIOUS
  <2>1. PICK c : c = config
    OBVIOUS
  <2>2. c \in Config /\ Owned(c) /\ Works(c) /\ config' = c
    BY <2>1 DEF CliInv, CliTypeOK
  <2>3. Owned(c)' /\ Works(c)'
    BY <1>2, <2>2, StaysTrue
  <2> QED
    BY <2>2, <2>3
<1>4. task # None => CommandOK(task)'
  <2> SUFFICES ASSUME task # None PROVE CommandOK(task)'
    OBVIOUS
  <2>1. CommandOK(work[h]) /\ work[h] \in Command
    BY TheCommand
  <2>2. task.key \in KeyIds \cup {None}
    BY <2>1 DEF Command
  <2>3. task.key # None => apiKey'[task.key] # None
    BY <1>2, <2>1, <2>2 DEF CommandOK
  <2>4. task.key # None /\ MakesKey(task) => apiKey'[task.key].site = task.site /\ Held(task.key)'
    BY <1>2, <2>1, <2>2 DEF CommandOK, MakesKey
  <2>5. task.step \in {"truncate", "write"} => Owned(task.loaded)' /\ Works(task.loaded)'
    BY <1>3
  <2> QED
    BY <2>3, <2>4, <2>5 DEF CommandOK
<1>5. \A o \in Handlers : FillsAlone(o)'
  <2>1. work'[h] = task /\ \A o \in Handlers \ {h} : work'[o] = work[o]
    BY DEF CliInv, WorkIn
  <2> SUFFICES ASSUME NEW o \in Handlers, At(o, "write")', ~clobbered'
               PROVE  /\ config' \in {TornFile, NoConfig}
                      /\ \A g \in Handlers \ {o} : ~At(g, "write")'
                           /\ (At(g, "truncate")' => work'[g].loaded = NoConfig)
    BY DEF FillsAlone
  <2>2. o # h /\ At(o, "write") /\ ~clobbered
    BY <2>1 DEF At
  <2>3. /\ config \in {TornFile, NoConfig}
        /\ \A g \in Handlers \ {o} : ~At(g, "write")
             /\ (At(g, "truncate") => work[g].loaded = NoConfig)
    BY <2>2 DEF CliInv, FillsAlone
  <2>4. ASSUME NEW g \in Handlers \ {o}
        PROVE  ~At(g, "write")' /\ (At(g, "truncate")' => work'[g].loaded = NoConfig)
    BY <2>1, <2>3 DEF At
  <2> QED
    BY <2>3, <2>4
<1>6. config' # TornFile => Owned(config)' /\ Works(config)'
  BY <1>3
<1> QED
  BY <1>1, <1>2, <1>4, <1>5, <1>6, CommandGoes

\* A login goes on to save the workspace it was given.
LEMMA LoggedInOK == ASSUME CliInv, NEW h \in Handlers, LoggedIn(h) PROVE CliInv'
<1>1. PICK t, task : t = work[h] /\ task = [t EXCEPT !.step = "load"]
  OBVIOUS
<1>2. /\ t # None /\ t.step = "request" /\ t.command = "login"
      /\ work' = [work EXCEPT ![h] = task]
      /\ UNCHANGED <<apiKey, config, withdrawnKeys, clobbered>>
  BY <1>1 DEF LoggedIn, At, Continue, cliVars
<1>3. t \in Command /\ t.old = None
  BY <1>1, <1>2, TheCommand DEF Keyed
<1>4. /\ task \in Command /\ task.step = "load" /\ task.command = t.command /\ task.key = t.key
      /\ task.site = t.site /\ task.old = None
  BY <1>1, <1>3 DEF Command
<1>5. task \in KeyedCommand
  BY <1>2, <1>4 DEF KeyedCommand, Keyed, MakesKey
<1>6. clobbered' \in BOOLEAN
  BY <1>2 DEF CliInv, CliTypeOK
<1> QED
  BY <1>1, <1>2, <1>4, <1>5, <1>6, FileStays DEF Saving

\* A command that is refused or cut leaves the file and the keys; a rotation cut is marked.
LEMMA EndOK == ASSUME CliInv, NEW h \in Handlers, Refused(h) \/ CutCommand(h) PROVE CliInv'
<1>1. CASE Refused(h)
  <2>1. /\ work[h] # None /\ work[h].step \notin Saving /\ work' = [work EXCEPT ![h] = None]
        /\ UNCHANGED <<apiKey, config, withdrawnKeys>> /\ UNCHANGED clobbered
    BY <1>1 DEF Refused, At, Saving, Finish, Continue, cliVars
  <2>2. clobbered' \in BOOLEAN
    BY <2>1 DEF CliInv, CliTypeOK
  <2> QED
    BY <2>1, <2>2, FileStays
<1>2. CASE CutCommand(h)
  <2>1. PICK t : t = work[h]
    OBVIOUS
  <2>2. /\ t # None /\ work' = [work EXCEPT ![h] = None]
        /\ UNCHANGED <<apiKey, config, withdrawnKeys>>
        /\ clobbered' = (clobbered \/ (t.command = "rotate" /\ t.use /\ t.step \in Saving))
    BY <1>2, <2>1 DEF CutCommand, Cut, Finish, Continue, Saving
  <2>3. clobbered' \in BOOLEAN
    BY <2>2
  <2>4. Keyed(t)
    BY <2>1, <2>2, TheCommand
  <2> QED
    BY <2>1, <2>2, <2>3, <2>4, FileStays DEF Keyed
<1> QED
  BY <1>1, <1>2

\* What a command has loaded is as good as the file was.
LEMMA LoadConfigOK == ASSUME CliInv, NEW h \in Handlers, LoadConfig(h) PROVE CliInv'
<1>1. PICK t : t = work[h]
  OBVIOUS
<1>2. /\ t # None /\ t.step = "load" /\ UNCHANGED <<apiKey, config, withdrawnKeys>>
      /\ t \in Command /\ Keyed(t)
  BY <1>1, TheCommand DEF LoadConfig, At
<1>3. CASE config = TornFile
  <2>1. work' = [work EXCEPT ![h] = None] /\ clobbered' = (clobbered \/ t.command = "rotate")
    BY <1>1, <1>3 DEF LoadConfig, Finish, Continue
  <2>2. clobbered' \in BOOLEAN /\ (clobbered => clobbered') /\ (t.old # None => clobbered')
    BY <1>2, <2>1 DEF Keyed
  <2> QED
    BY <1>1, <1>2, <2>1, <2>2, FileStays
<1>4. CASE config # TornFile
  <2>1. PICK task : task = [t EXCEPT !.step = "truncate", !.loaded = config]
    OBVIOUS
  <2>2. work' = [work EXCEPT ![h] = task] /\ UNCHANGED clobbered
    BY <1>1, <1>4, <2>1 DEF LoadConfig, Continue
  <2>3. config \in Config /\ clobbered' \in BOOLEAN
    BY <1>4, <2>2 DEF CliInv, CliTypeOK
  <2>4. /\ task \in Command /\ task.step = "truncate" /\ task.loaded = config
        /\ task.command = t.command /\ task.key = t.key /\ task.site = t.site
        /\ task.old = t.old /\ task.use = t.use
    BY <1>2, <2>1, <2>3 DEF Command
  <2>5. task \in KeyedCommand
    BY <1>2, <2>4 DEF KeyedCommand, Keyed, MakesKey
  <2>6. work[h].use => task # None /\ task.old = work[h].old /\ task.use /\ task.step \in Saving
    BY <1>1, <2>4, CliAssumption DEF Saving
  <2>7. /\ task.command = work[h].command /\ task.key = work[h].key /\ task.site = work[h].site
        /\ task.step # "write" /\ config # TornFile /\ task.loaded = config
    BY <1>1, <1>4, <2>4
  <2>8. clobbered => clobbered'
    BY <2>2
  <2> QED
    BY <1>1, <1>2, <2>2, <2>3, <2>5, <2>6, <2>7, <2>8, FileStays
<1> QED
  BY <1>3, <1>4

\* The file is torn while it is rewritten; saves that meet are marked.
LEMMA TruncateConfigOK == ASSUME CliInv, NEW h \in Handlers, TruncateConfig(h) PROVE CliInv'
<1>1. PICK t, task : t = work[h] /\ task = [t EXCEPT !.step = "write"]
  OBVIOUS
<1>2. /\ t # None /\ t.step = "truncate" /\ work' = [work EXCEPT ![h] = task]
      /\ config' = TornFile /\ UNCHANGED <<apiKey, withdrawnKeys>>
      /\ clobbered' = (clobbered \/ OthersAt(h, "truncate") \cup OthersAt(h, "write") # {})
  BY <1>1 DEF TruncateConfig, At, Continue
<1>3. t \in Command /\ Keyed(t) /\ CommandOK(t) /\ t.loaded \in Config
  BY <1>1, <1>2, TheCommand DEF Command
<1>4. /\ task \in Command /\ task.step = "write" /\ task.command = t.command /\ task.key = t.key
      /\ task.site = t.site /\ task.old = t.old /\ task.use = t.use /\ task.loaded = t.loaded
      /\ task # None
  BY <1>1, <1>3, CliAssumption DEF Command
<1>5. task \in KeyedCommand
  BY <1>2, <1>3, <1>4 DEF KeyedCommand, Keyed, MakesKey
<1>6. CliTypeOK'
  BY <1>2 DEF CliInv, CliTypeOK
<1>7. /\ \A k \in KeyIds : apiKey[k] # None =>
           apiKey'[k] # None /\ apiKey'[k].site = apiKey[k].site
      /\ \A k \in KeyIds : Excused(k) => Excused(k)'
      /\ \A k \in KeyIds : Held(k) => Held(k)'
  <2>1. work[h].use => task # None /\ task.old = work[h].old /\ task.use /\ task.step \in Saving
    BY <1>1, <1>4 DEF Saving
  <2> QED
    BY <1>2, <1>5, <2>1, KeysStay
<1>8. CommandOK(task)'
  <2>1. t.key \in KeyIds \cup {None}
    BY <1>3 DEF Command
  <2>2. Owned(t.loaded)' /\ Works(t.loaded)'
    BY <1>2, <1>3, <1>7, StaysTrue DEF CommandOK
  <2>3. t.key # None => apiKey'[t.key] # None
    BY <1>3, <1>7, <2>1 DEF CommandOK
  <2>4. t.key # None /\ MakesKey(t) => apiKey'[t.key].site = t.site /\ Held(t.key)'
    BY <1>3, <1>7, <2>1 DEF CommandOK
  <2> QED
    BY <1>4, <2>2, <2>3, <2>4 DEF CommandOK, MakesKey
<1>9. \A o \in Handlers : FillsAlone(o)'
  <2>1. work'[h] = task /\ \A o \in Handlers \ {h} : work'[o] = work[o]
    BY <1>2 DEF CliInv, WorkIn
  <2>2. ~clobbered' => \A o \in Handlers \ {h} : ~At(o, "truncate")' /\ ~At(o, "write")'
    BY <1>2, <2>1 DEF OthersAt, At
  <2> QED
    BY <1>2, <1>4, <2>1, <2>2 DEF FillsAlone, At
<1> QED
  BY <1>2, <1>5, <1>6, <1>7, <1>8, <1>9, CommandGoes

\* what a command writes is owned by the workspace it writes, and excused with no other's leave
LEMMA WrittenIsTrue ==
  ASSUME CliInv, NEW t \in Command, Keyed(t), CommandOK(t), t.step = "write"
  PROVE  /\ Changed(t) \in Config /\ Owned(Changed(t)) /\ Works(Changed(t))
         /\ Changed(t).key # None /\ ~Changed(t).byHand /\ MakesKey(t) => Held(Changed(t).key)
         /\ ~MakesKey(t) /\ ~Changed(t).byHand => Changed(t).key = t.loaded.key
<1>1. PICK c : c = t.loaded
  OBVIOUS
<1>2. c \in Config /\ Owned(c) /\ Works(c)
  BY <1>1 DEF Command, CommandOK
<1>3. /\ t.command \in Commands /\ t.key \in KeyIds \cup {None} /\ t.site \in Sites \cup {None}
      /\ t.key # None => apiKey[t.key] # None
      /\ MakesKey(t) => /\ t.key \in KeyIds /\ t.key # None
                        /\ apiKey[t.key].site = t.site /\ Held(t.key)
  BY CliAssumption DEF Command, CommandOK, Keyed
<1>4. PICK d : d = Changed(t)
  OBVIOUS
<1>5. CASE MakesKey(t)
  <2>1. d = [c EXCEPT !.site = t.site, !.key = t.key, !.byHand = FALSE]
    BY <1>1, <1>4, <1>5 DEF Changed, ActiveKeySaved, MakesKey
  <2>2. d \in Config /\ d.site = t.site /\ d.key = t.key /\ ~d.byHand
    BY <1>2, <1>3, <2>1 DEF Config
  <2>3. Owned(d) /\ Works(d) /\ Held(d.key)
    BY <1>3, <1>5, <2>2 DEF Owned, Works, Excused
  <2> QED
    BY <1>4, <1>5, <2>2, <2>3
<1>6. CASE t.command \in {"login", "logout"}
  <2>1. PICK session \in BOOLEAN : d = [c EXCEPT !.session = session]
    BY <1>1, <1>4, <1>6 DEF Changed
  <2>2. d \in Config /\ d.site = c.site /\ d.key = c.key /\ d.byHand = c.byHand
    BY <1>2, <2>1 DEF Config
  <2>3. Owned(d) /\ Works(d)
    BY <1>2, <2>2 DEF Owned, Works
  <2> QED
    BY <1>1, <1>4, <1>6, <2>2, <2>3 DEF MakesKey
<1>7. CASE t.command = "set"
  <2>1. PICK s, k : s = Given(t.site, c.site) /\ k = Given(t.key, c.key)
    OBVIOUS
  <2>2. d = [c EXCEPT !.site = s, !.key = k, !.byHand = TRUE]
    BY <1>1, <1>4, <1>7, <2>1 DEF Changed
  <2>3. s \in Sites \cup {None} /\ k \in KeyIds \cup {None} /\ (k # None => apiKey[k] # None)
    BY <1>2, <1>3, <2>1 DEF Given, Config, Owned
  <2>4. d \in Config /\ d.site = s /\ d.key = k /\ d.byHand
    BY <1>2, <2>2, <2>3 DEF Config
  <2>5. Owned(d) /\ Works(d)
    BY <2>3, <2>4 DEF Owned, Works
  <2> QED
    BY <1>4, <1>7, <2>4, <2>5 DEF MakesKey
<1> QED
  BY <1>3, <1>5, <1>6, <1>7 DEF Commands, MakesKey

\* What is written is what the command loaded, with its own change.
LEMMA WriteConfigOK == ASSUME CliInv, NEW h \in Handlers, WriteConfig(h) PROVE CliInv'
<1>1. PICK t, d : t = work[h] /\ d = Changed(t)
  OBVIOUS
<1>2. /\ t # None /\ t.step = "write" /\ At(h, "write") /\ work' = [work EXCEPT ![h] = None]
      /\ config' = d /\ UNCHANGED <<apiKey, withdrawnKeys, clobbered>>
  BY <1>1 DEF WriteConfig, At, Finish, Continue
<1>3. t \in Command /\ Keyed(t) /\ CommandOK(t) /\ t.loaded \in Config
  BY <1>1, <1>2, TheCommand DEF Command
<1>4. /\ d \in Config /\ Owned(d) /\ Works(d)
      /\ d.key # None /\ ~d.byHand /\ MakesKey(t) => Held(d.key)
  BY <1>1, <1>2, <1>3, WrittenIsTrue
<1>5. CliTypeOK'
  BY <1>2, <1>4 DEF CliInv, CliTypeOK
<1>6. work'[h] = None /\ \A o \in Handlers \ {h} : work'[o] = work[o]
  BY <1>2 DEF CliInv, WorkIn
<1>7. ~clobbered => \A o \in Handlers \ {h} : ~At(o, "write")
                       /\ (At(o, "truncate") => work[o].loaded = NoConfig)
  BY <1>2 DEF CliInv, FillsAlone
<1>8. \A k \in KeyIds : Held(k) <=> Held(k)'
  BY <1>2 DEF Held, LiveKey
<1>9. \A k \in KeyIds : Excused(k) =>
        \/ Excused(k)'
        \/ \A o \in Handlers \ {h} : work[o] # None /\ work[o].step \in {"truncate", "write"} =>
             work[o].loaded.key # k
  <2> SUFFICES ASSUME NEW k \in KeyIds, ~clobbered, NEW o \in Handlers \ {h}, work[o] # None,
                      work[o].step \in {"truncate", "write"}
               PROVE  work[o].loaded.key # k
    BY <1>2 DEF Excused
  <2>1. work[o].loaded = NoConfig
    BY <1>7 DEF At
  <2> QED
    BY <2>1, CliAssumption DEF NoConfig
<1>10. ASSUME NEW k \in KeyIds, Excused(k), ~Excused(k)' PROVE t.old = k
  <2>1. Rotating(k) /\ ~Rotating(k)'
    BY <1>2, <1>8, <1>10 DEF Excused
  <2>2. PICK o \in Handlers : work[o] # None /\ work[o].old = k /\ work[o].use
                              /\ work[o].step \in {"load", "truncate", "write"}
    BY <2>1 DEF Rotating
  <2> QED
    BY <1>1, <1>6, <2>1, <2>2 DEF Rotating
<1>11. Owned(d)' /\ Works(d)'
  <2>1. d.key \in KeyIds \cup {None}
    BY <1>4 DEF Config
  <2>2. Owned(d)'
    BY <1>2, <1>4 DEF Owned
  <2>3. CASE MakesKey(t)
    <3>1. d.key # None /\ ~d.byHand => Held(d.key)'
      BY <1>4, <1>8, <2>1, <2>3
    <3>2. d.key # None /\ ~d.byHand => Excused(d.key)'
      BY <3>1 DEF Excused
    <3> QED
      BY <2>2, <3>2 DEF Works
  <2>4. CASE ~MakesKey(t)
    <3>1. t.old = None
      BY <1>3, <2>4 DEF Keyed, MakesKey
    <3>2. \A k \in KeyIds : Excused(k) => Excused(k)'
      BY <1>10, <3>1, CliAssumption
    <3>3. d.key # None /\ ~d.byHand => Excused(d.key)
      BY <1>4 DEF Works
    <3>4. d.key # None /\ ~d.byHand => Excused(d.key)'
      BY <2>1, <3>2, <3>3
    <3> QED
      BY <2>2, <3>4 DEF Works
  <2> QED
    BY <2>2, <2>3, <2>4
<1>12. \A o \in Handlers : FillsAlone(o)'
  <2> SUFFICES ASSUME NEW o \in Handlers, At(o, "write")', ~clobbered' PROVE FALSE
    BY DEF FillsAlone
  <2>1. o # h /\ At(o, "write")
    BY <1>6 DEF At
  <2> QED
    BY <1>2, <1>7, <2>1
<1>13. /\ \A k \in KeyIds : apiKey[k] # None =>
            apiKey'[k] # None /\ apiKey'[k].site = apiKey[k].site
       /\ config' # TornFile => Owned(config)' /\ Works(config)'
  BY <1>2, <1>11
<1> QED
  BY <1>2, <1>5, <1>8, <1>9, <1>12, <1>13, CommandGoes

\* Rows change or are made, and no config.json: the one key k is now Held, or its rotation
\* goes on, and every other key is as it was.
LEMMA KeyChanges ==
  ASSUME CliInv, NEW k \in KeyIds, NEW new \in KeyRow, apiKey' = [apiKey EXCEPT ![k] = new],
         apiKey[k] # None => new.site = apiKey[k].site,
         withdrawnKeys \subseteq withdrawnKeys', Excused(k) => Excused(k)',
         UNCHANGED clobbered, \A j \in KeyIds : Rotating(j) => Rotating(j)'
  PROVE  /\ \A j \in KeyIds : apiKey[j] # None =>
              apiKey'[j] # None /\ apiKey'[j].site = apiKey[j].site
         /\ \A j \in KeyIds : Excused(j) => Excused(j)'
         /\ \A j \in KeyIds \ {k} : Held(j) => Held(j)'
<1>1. apiKey'[k] = new /\ new # None /\ \A j \in KeyIds \ {k} : apiKey'[j] = apiKey[j]
  BY CliAssumption DEF CliInv, CliTypeOK
<1>2. \A j \in KeyIds : apiKey[j] # None => apiKey'[j] # None /\ apiKey'[j].site = apiKey[j].site
  BY <1>1
<1>3. \A j \in KeyIds \ {k} : Held(j) => Held(j)'
  BY <1>1 DEF Held, LiveKey
<1>4. \A j \in KeyIds : Excused(j) => Excused(j)'
  <2> SUFFICES ASSUME NEW j \in KeyIds \ {k}, Excused(j) PROVE Excused(j)'
    OBVIOUS
  <2>1. Held(j) => Held(j)'
    BY <1>3
  <2>2. Rotating(j) => Rotating(j)'
    OBVIOUS
  <2> QED
    BY <2>1, <2>2 DEF Excused
<1> QED
  BY <1>2, <1>3, <1>4

\* config.json is as true as it was, and the commands that fill it go on
LEMMA FileTrue ==
  ASSUME CliInv, UNCHANGED config,
         \A k \in KeyIds : apiKey[k] # None => apiKey'[k] # None /\ apiKey'[k].site = apiKey[k].site,
         \A k \in KeyIds : Excused(k) => Excused(k)'
  PROVE  config' # TornFile => Owned(config)' /\ Works(config)'
<1> SUFFICES ASSUME config # TornFile PROVE Owned(config)' /\ Works(config)'
  OBVIOUS
<1>1. PICK c : c = config
  OBVIOUS
<1>2. c \in Config /\ Owned(c) /\ Works(c) /\ config' = c
  BY <1>1 DEF CliInv, CliTypeOK
<1>3. Owned(c)' /\ Works(c)'
  BY <1>2, StaysTrue
<1> QED
  BY <1>2, <1>3

\* A command that writes no file does not disturb one that does.
LEMMA FillsStay ==
  ASSUME CliInv, UNCHANGED <<config, clobbered>>, NEW h \in Handlers,
         NEW task \in KeyedCommand \cup {None}, work' = [work EXCEPT ![h] = task],
         task # None => task.step \notin {"truncate", "write"}
  PROVE  \A o \in Handlers : FillsAlone(o)'
<1>1. work'[h] = task /\ \A o \in Handlers \ {h} : work'[o] = work[o]
  BY DEF CliInv, WorkIn
<1>2. ASSUME NEW o \in Handlers, At(o, "write")', ~clobbered
      PROVE  /\ config' \in {TornFile, NoConfig}
             /\ \A g \in Handlers \ {o} : ~At(g, "write")'
                  /\ (At(g, "truncate")' => work'[g].loaded = NoConfig)
  <2>1. o # h /\ At(o, "write")
    BY <1>1, <1>2 DEF At
  <2>2. /\ config \in {TornFile, NoConfig}
        /\ \A g \in Handlers \ {o} : ~At(g, "write")
             /\ (At(g, "truncate") => work[g].loaded = NoConfig)
    BY <1>2, <2>1 DEF CliInv, FillsAlone
  <2> QED
    BY <1>1, <2>2 DEF At
<1> QED
  BY <1>2 DEF FillsAlone

\* the rotations under way go on when a handler that is before them moves
LEMMA RotationsGoOn ==
  ASSUME CliInv, NEW h \in Handlers, NEW task, work' = [work EXCEPT ![h] = task],
         work[h].step \notin Saving
  PROVE  \A k \in KeyIds : Rotating(k) => Rotating(k)'
<1>1. work'[h] = task /\ \A o \in Handlers \ {h} : work'[o] = work[o]
  BY DEF CliInv, WorkIn
<1> QED
  BY <1>1 DEF Rotating, Saving

\* The key a command has made is live.
LEMMA CreateKeyOK ==
  ASSUME CliInv, NEW h \in Handlers, NEW k \in KeyIds, CreateKey(h, k) PROVE CliInv'
<1>1. PICK t, new, step, task :
        /\ t = work[h] /\ new = [site |-> t.site, state |-> "live"]
        /\ step = IF t.old # None THEN "revoke" ELSE AfterKey(t)
        /\ task = IF step = "done" THEN None ELSE [t EXCEPT !.key = k, !.step = step]
  OBVIOUS
<1>2. /\ t # None /\ t.step = "request" /\ MakesKey(t) /\ apiKey[k] = None
      /\ apiKey' = [apiKey EXCEPT ![k] = new]
      /\ UNCHANGED <<config, withdrawnKeys, clobbered>>
  BY <1>1 DEF CreateKey, At, MakesKey
<1>3. t \in Command /\ Keyed(t) /\ CommandOK(t)
  BY <1>1, <1>2, TheCommand
<1>4. step \in {"revoke", "load", "done"} /\ (step = "revoke" <=> t.old # None)
  BY <1>1 DEF AfterKey
<1>5. PICK next : next = [t EXCEPT !.key = k, !.step = step]
  OBVIOUS
<1>6. next.step = step /\ next.key = k /\ next.site = t.site /\ next.old = t.old
      /\ next.command = t.command
  BY <1>3, <1>5 DEF Command
<1>7. work' = [work EXCEPT ![h] = task]
  BY <1>1, <1>5, <1>6 DEF CreateKey, GoOn, Finish, Continue
<1>8. task # None => task = next /\ next \in Command
  <2> SUFFICES ASSUME step # "done" PROVE next \in Command
    BY <1>1, <1>5
  <2> QED
    BY <1>3, <1>4, <1>5 DEF Command
<1>9. task \in KeyedCommand \cup {None}
  <2> SUFFICES ASSUME task # None PROVE next \in KeyedCommand
    BY <1>8
  <2>1. t.old \in KeyIds \cup {None}
    BY <1>3 DEF Command
  <2> QED
    BY <1>2, <1>3, <1>4, <1>6, <1>8, <2>1 DEF KeyedCommand, Keyed, MakesKey
<1>10. new \in KeyRow /\ new # None /\ new.site = t.site /\ LiveKey(k)' /\ apiKey'[k] = new
  <2>1. t.site \in Sites
    BY <1>2, <1>3 DEF Keyed
  <2>2. new \in KeyRow /\ new.site = t.site /\ new.state = "live" /\ new # None
    BY <1>1, <2>1, CliAssumption DEF KeyRow
  <2>3. apiKey'[k] = new
    BY <1>2 DEF CliInv, CliTypeOK
  <2> QED
    BY <2>2, <2>3, CliAssumption DEF LiveKey
<1>11. CliTypeOK'
  BY <1>2, <1>10 DEF CliInv, CliTypeOK
<1>12. Held(k)' /\ Excused(k)'
  BY <1>10 DEF Held, Excused
<1>13. \A j \in KeyIds : Rotating(j) => Rotating(j)'
  BY <1>1, <1>2, <1>7, RotationsGoOn DEF Saving
<1>14. /\ \A j \in KeyIds : apiKey[j] # None =>
            apiKey'[j] # None /\ apiKey'[j].site = apiKey[j].site
       /\ \A j \in KeyIds : Excused(j) => Excused(j)'
       /\ \A j \in KeyIds \ {k} : Held(j) => Held(j)'
  BY <1>2, <1>10, <1>12, <1>13, KeyChanges
<1>15. task # None => CommandOK(task)'
  <2> SUFFICES ASSUME task # None PROVE CommandOK(next)'
    BY <1>8
  <2>1. next.step \notin {"truncate", "write"}
    BY <1>4, <1>6
  <2>2. apiKey'[next.key] # None /\ apiKey'[next.key].site = next.site /\ Held(next.key)'
    BY <1>6, <1>10, <1>12
  <2> QED
    BY <2>1, <2>2 DEF CommandOK
<1>16. config' # TornFile => Owned(config)' /\ Works(config)'
  BY <1>2, <1>14, FileTrue
<1>17. \A o \in Handlers : FillsAlone(o)'
  BY <1>2, <1>4, <1>6, <1>7, <1>8, <1>9, FillsStay
<1>18. \A j \in KeyIds : Held(j) => Held(j)'
  BY <1>12, <1>14
<1> QED
  BY <1>7, <1>9, <1>11, <1>14, <1>15, <1>16, <1>17, <1>18, CommandGoes

\* A rotation ends the key it has replaced.
LEMMA RevokeOldOK == ASSUME CliInv, NEW h \in Handlers, RevokeOld(h) PROVE CliInv'
<1>1. PICK t, k, new, step, task :
        /\ t = work[h] /\ k = t.old /\ new = [apiKey[k] EXCEPT !.state = "revoked"]
        /\ step = AfterKey(t)
        /\ task = IF step = "done" THEN None ELSE [t EXCEPT !.step = step]
  OBVIOUS
<1>2. /\ t # None /\ t.step = "revoke" /\ apiKey[k] # None
      /\ apiKey' = [apiKey EXCEPT ![k].state = "revoked"]
      /\ withdrawnKeys' = (IF t.use /\ ~\E o \in Handlers : work[o] # None /\ work[o].key = k
                             THEN withdrawnKeys ELSE withdrawnKeys \cup {k})
      /\ UNCHANGED <<config, clobbered>>
  BY <1>1 DEF RevokeOld, At, RevokesIn
<1>3. t \in Command /\ Keyed(t) /\ CommandOK(t) /\ k \in KeyIds /\ t.command = "rotate"
      /\ t.use \in BOOLEAN
  BY <1>1, <1>2, CliAssumption, TheCommand DEF Keyed, Command
<1>4. (step = "load" /\ t.use) \/ (step = "done" /\ ~t.use)
  BY <1>1, <1>3 DEF AfterKey
<1>5. PICK next : next = [t EXCEPT !.step = step]
  OBVIOUS
<1>6. next.step = step /\ next.key = t.key /\ next.site = t.site /\ next.old = k
      /\ next.command = t.command /\ next.use = t.use
  BY <1>1, <1>3, <1>5 DEF Command
<1>7. work' = [work EXCEPT ![h] = task]
  BY <1>1, <1>5, <1>6 DEF RevokeOld, GoOn, Finish, Continue
<1>8. task # None => task = next /\ next \in Command
  <2> SUFFICES ASSUME step # "done" PROVE next \in Command
    BY <1>1, <1>5
  <2> QED
    BY <1>3, <1>4, <1>5 DEF Command
<1>9. task \in KeyedCommand \cup {None}
  BY <1>2, <1>3, <1>4, <1>6, <1>8 DEF KeyedCommand, Keyed, MakesKey
<1>10. new \in KeyRow /\ new.site = apiKey[k].site /\ apiKey' = [apiKey EXCEPT ![k] = new]
  <2>1. apiKey[k] \in KeyRow
    BY <1>2, <1>3 DEF CliInv, CliTypeOK
  <2> QED
    BY <1>1, <1>2, <2>1 DEF KeyRow
<1>11. CliTypeOK'
  BY <1>2, <1>3, <1>10 DEF CliInv, CliTypeOK
<1>12. Excused(k)' /\ (t.use \/ k \in withdrawnKeys')
  <2>1. CASE t.use
    <3>1. work'[h] = next /\ next # None
      <4>1. task = next
        BY <1>1, <1>4, <1>5, <2>1
      <4>2. next \in Command
        BY <1>3, <1>4, <1>5, <2>1 DEF Command
      <4> QED
        BY <1>7, <4>1, <4>2, CliAssumption DEF CliInv, WorkIn
    <3>2. Rotating(k)'
      BY <1>4, <1>6, <2>1, <3>1 DEF Rotating
    <3> QED
      BY <2>1, <3>2 DEF Excused
  <2>2. CASE ~t.use
    <3>1. k \in withdrawnKeys'
      BY <1>2, <2>2
    <3> QED
      BY <3>1 DEF Excused, Held
  <2> QED
    BY <2>1, <2>2
<1>13. \A j \in KeyIds : Rotating(j) => Rotating(j)'
  BY <1>1, <1>2, <1>7, RotationsGoOn DEF Saving
<1>14. /\ \A j \in KeyIds : apiKey[j] # None =>
            apiKey'[j] # None /\ apiKey'[j].site = apiKey[j].site
       /\ \A j \in KeyIds : Excused(j) => Excused(j)'
       /\ \A j \in KeyIds \ {k} : Held(j) => Held(j)'
  <2>1. withdrawnKeys \subseteq withdrawnKeys'
    BY <1>2
  <2> QED
    BY <1>2, <1>3, <1>10, <1>12, <1>13, <2>1, KeyChanges
<1>15. (\E o \in Handlers : work[o] # None /\ work[o].key = k) => Held(k)'
  BY <1>2 DEF Held
<1>16. task # None => CommandOK(task)'
  <2> SUFFICES ASSUME task # None PROVE CommandOK(next)'
    BY <1>8
  <2>1. /\ t.key \in KeyIds
        /\ apiKey[t.key] # None /\ apiKey[t.key].site = t.site /\ Held(t.key)
    BY <1>2, <1>3, CliAssumption DEF Keyed, MakesKey, CommandOK
  <2>2. Held(t.key)'
    BY <1>1, <1>2, <1>14, <1>15, <2>1
  <2> QED
    BY <1>4, <1>6, <1>14, <2>1, <2>2, <1>8 DEF CommandOK
<1>17. config' # TornFile => Owned(config)' /\ Works(config)'
  BY <1>2, <1>14, FileTrue
<1>18. \A o \in Handlers : FillsAlone(o)'
  BY <1>2, <1>4, <1>6, <1>7, <1>8, <1>9, FillsStay
<1>19. \A j \in KeyIds : Held(j) =>
         Held(j)' \/ \A o \in Handlers \ {h} : work[o] # None => work[o].key # j
  BY <1>14, <1>15
<1> QED
  BY <1>7, <1>9, <1>11, <1>14, <1>16, <1>17, <1>18, <1>19, CommandGoes

\* A key is revoked by hand or reaches the end of its time: no command moves.
LEMMA KeyEndsOK ==
  ASSUME CliInv, NEW k \in KeyIds, RevokeKey(k) \/ ExpireKey(k) PROVE CliInv'
<1>a. PICK state : state = IF RevokeKey(k) THEN "revoked" ELSE "expired"
  OBVIOUS
<1>b. PICK new : new = [apiKey[k] EXCEPT !.state = state]
  OBVIOUS
<1>1. /\ state \in {"revoked", "expired"} /\ new = [apiKey[k] EXCEPT !.state = state]
      /\ apiKey[k] # None /\ apiKey' = [apiKey EXCEPT ![k].state = state]
      /\ withdrawnKeys' = withdrawnKeys \cup {k}
      /\ UNCHANGED <<work, config, clobbered>>
  <2>1. CASE RevokeKey(k)
    BY <1>a, <1>b, <2>1 DEF RevokeKey
  <2>2. CASE ~RevokeKey(k)
    <3>1. ExpireKey(k) /\ state = "expired"
      BY <1>a, <2>2
    <3> QED
      BY <1>b, <3>1 DEF ExpireKey, LiveKey
  <2> QED
    BY <2>1, <2>2
<1>2. new \in KeyRow /\ new.site = apiKey[k].site /\ apiKey' = [apiKey EXCEPT ![k] = new]
  <2>1. apiKey[k] \in KeyRow
    BY <1>1 DEF CliInv, CliTypeOK
  <2> QED
    BY <1>1, <2>1 DEF KeyRow
<1>3. CliTypeOK'
  BY <1>1, <1>2 DEF CliInv, CliTypeOK
<1>4. Held(k)' /\ Excused(k)'
  BY <1>1 DEF Held, Excused
<1>5. \A j \in KeyIds : Rotating(j) => Rotating(j)'
  BY <1>1 DEF Rotating
<1>6. /\ \A j \in KeyIds : apiKey[j] # None =>
           apiKey'[j] # None /\ apiKey'[j].site = apiKey[j].site
      /\ \A j \in KeyIds : Excused(j) => Excused(j)'
      /\ \A j \in KeyIds : Held(j) => Held(j)'
  <2>1. withdrawnKeys \subseteq withdrawnKeys' /\ UNCHANGED clobbered
    BY <1>1
  <2> QED
    BY <1>2, <1>4, <1>5, <2>1, KeyChanges
<1>7. config' # TornFile => Owned(config)' /\ Works(config)'
  BY <1>1, <1>6, FileTrue
<1>8. ASSUME NEW h \in Handlers PROVE CliInv'
  <2>1. PICK task : task = work[h]
    OBVIOUS
  <2>2. task \in KeyedCommand \cup {None} /\ work' = [work EXCEPT ![h] = task]
    BY <1>1, <2>1 DEF CliInv, WorkIn
  <2>3. \A o \in Handlers : FillsAlone(o)'
    BY <1>1 DEF CliInv, FillsAlone, At
  <2>4. task # None => CommandOK(task)'
    <3> SUFFICES ASSUME task # None PROVE CommandOK(task)'
      OBVIOUS
    <3>1. CommandOK(task) /\ task \in Command
      BY <2>1, TheCommand
    <3>2. task.key \in KeyIds \cup {None} /\ task.loaded \in Config
      BY <3>1 DEF Command
    <3>3. task.step \in {"truncate", "write"} => Owned(task.loaded)' /\ Works(task.loaded)'
      BY <1>6, <3>1, <3>2, StaysTrue DEF CommandOK
    <3>4. task.key # None => apiKey'[task.key] # None
      BY <1>6, <3>1, <3>2 DEF CommandOK
    <3>5. task.key # None /\ MakesKey(task) => apiKey'[task.key].site = task.site /\ Held(task.key)'
      BY <1>6, <3>1, <3>2 DEF CommandOK
    <3> QED
      BY <3>3, <3>4, <3>5 DEF CommandOK
  <2> QED
    BY <1>3, <1>6, <1>7, <2>2, <2>3, <2>4, CommandGoes
<1>9. CASE Handlers = {}
  BY <1>1, <1>3, <1>7, <1>9 DEF CliInv, WorkIn, CommandsOK
<1> QED
  BY <1>8, <1>9

\* A torn file is removed.
LEMMA RemoveConfigOK == ASSUME CliInv, RemoveConfig PROVE CliInv'
<1>1. config' = NoConfig /\ UNCHANGED <<work, apiKey, withdrawnKeys, clobbered>>
  BY DEF RemoveConfig
<1>2. NoConfig \in Config /\ NoConfig.key = None
  BY DEF NoConfig, Config
<1>3. WorkIn(KeyedCommand)' /\ CliTypeOK'
  BY <1>1, <1>2 DEF CliInv, WorkIn, CliTypeOK
<1>4. \A k \in KeyIds : Excused(k) <=> Excused(k)'
  BY <1>1 DEF Excused, Held, LiveKey, Rotating
<1>5. CommandsOK'
  <2> SUFFICES ASSUME NEW h \in Handlers, work[h] # None PROVE CommandOK(work[h])'
    BY <1>1 DEF CommandsOK
  <2>1. PICK t : t = work[h] /\ t = work'[h]
    BY <1>1
  <2>2. CommandOK(t) /\ t \in Command /\ t.loaded \in Config
    BY <2>1, TheCommand DEF Command
  <2>3. t.step \in {"truncate", "write"} => Owned(t.loaded)' /\ Works(t.loaded)'
    BY <1>1, <1>4, <2>2, StaysTrue DEF CommandOK
  <2>4. CommandOK(t)'
    BY <1>1, <2>2, <2>3 DEF CommandOK, Held, LiveKey
  <2> QED
    BY <2>1, <2>4
<1>6. Owned(config)' /\ Works(config)'
  BY <1>1, <1>2 DEF Owned, Works
<1>7. \A h \in Handlers : FillsAlone(h)'
  BY <1>1 DEF CliInv, FillsAlone, At
<1> QED
  BY <1>3, <1>5, <1>6, <1>7 DEF CliInv

\* Every step of the commands keeps the invariant.
LEMMA CliStepOK == CliInv /\ [CliNext]_<<work, cliVars>> => CliInv'
<1> SUFFICES ASSUME CliInv, [CliNext]_<<work, cliVars>> PROVE CliInv'
  OBVIOUS
<1>1. CASE UNCHANGED <<work, cliVars>>
  <2>1. UNCHANGED <<work, apiKey, config, withdrawnKeys, clobbered>>
    BY <1>1 DEF cliVars
  <2>2. \A c \in Config : (Owned(c) /\ Works(c)) => (Owned(c)' /\ Works(c)')
    BY <2>1 DEF Owned, Works, Excused, Held, LiveKey, Rotating
  <2>3. WorkIn(KeyedCommand)' /\ CliTypeOK'
    BY <2>1 DEF CliInv, WorkIn, CliTypeOK
  <2>4. CommandsOK'
    <3> SUFFICES ASSUME NEW h \in Handlers, work[h] # None PROVE CommandOK(work[h])'
      BY <2>1 DEF CommandsOK
    <3>1. PICK t : t = work[h] /\ t = work'[h]
      BY <2>1
    <3>2. CommandOK(t) /\ t.loaded \in Config
      BY <3>1, TheCommand DEF Command
    <3>3. CommandOK(t)'
      BY <2>1, <2>2, <3>2 DEF CommandOK, Held, LiveKey
    <3> QED
      BY <3>1, <3>3
  <2>5. config' # TornFile => Owned(config)' /\ Works(config)'
    <3>1. PICK c : c = config /\ c = config'
      BY <2>1
    <3> QED
      BY <2>2, <3>1 DEF CliInv, CliTypeOK
  <2>6. \A h \in Handlers : FillsAlone(h)'
    BY <2>1 DEF CliInv, FillsAlone, At
  <2> QED
    BY <2>3, <2>4, <2>5, <2>6 DEF CliInv
<1>2. ASSUME NEW h \in Handlers,
             \/ Login(h) \/ Logout(h) \/ LoggedIn(h)
             \/ RevokeOld(h) \/ Refused(h)
             \/ LoadConfig(h) \/ TruncateConfig(h) \/ WriteConfig(h) \/ CutCommand(h)
      PROVE  CliInv'
  BY <1>2, LoginOK, LoggedInOK, RevokeOldOK, EndOK, LoadConfigOK, TruncateConfigOK, WriteConfigOK
<1>3. ASSUME NEW h \in Handlers, NEW s \in Sites \cup {None}, NEW k \in Made \cup {None},
             SetConfig(h, s, k)
      PROVE  CliInv'
  BY <1>3, SetConfigOK
<1>4. ASSUME NEW h \in Handlers, NEW s \in Sites, NEW old \in Made \cup {None},
             NEW use \in BOOLEAN, KeyCommand(h, s, old, use)
      PROVE  CliInv'
  BY <1>4, KeyCommandOK
<1>5. ASSUME NEW h \in Handlers, NEW k \in KeyIds, CreateKey(h, k)
      PROVE  CliInv'
  BY <1>5, CreateKeyOK
<1>6. ASSUME NEW k \in KeyIds, RevokeKey(k) \/ ExpireKey(k)
      PROVE  CliInv'
  BY <1>6, KeyEndsOK
<1>7. CASE RemoveConfig
  BY <1>7, RemoveConfigOK
<1> QED
  BY <1>1, <1>2, <1>3, <1>4, <1>5, <1>6, <1>7 DEF CliNext

\* Rows of keys, config.json and the commands under way have their types.
THEOREM CliIsTyped == CliSpec => [](CliTypeOK /\ WorkIn(Command))
<1>1. CliInv => CliTypeOK /\ WorkIn(Command)
  BY DEF CliInv, WorkIn, KeyedCommand
<1> QED
  BY <1>1, CliInitOK, CliStepOK, PTL DEF CliSpec

\* However many commands save one config.json, and wherever they are cut, the key they saved
\* opens the workspace beside it, or was ended with leave, unless saves met.
THEOREM SavedKeysWork == CliSpec => []SavedKeyWorks
<1>1. CliInv => SavedKeyWorks
  <2> SUFFICES ASSUME CliInv, config # TornFile, config.key # None, ~config.byHand
               PROVE  /\ apiKey[config.key].site = config.site
                      /\ \/ Accepted(config.key, config.site)
                         \/ config.key \in withdrawnKeys
                         \/ Rotating(config.key)
                         \/ clobbered
    BY DEF SavedKeyWorks
  <2>1. Owned(config) /\ Works(config)
    BY DEF CliInv
  <2>2. apiKey[config.key].site = config.site /\ Excused(config.key)
    BY <2>1 DEF Owned, Works
  <2> QED
    BY <2>2 DEF Excused, Held, Accepted
<1> QED
  BY <1>1, CliInitOK, CliStepOK, PTL DEF CliSpec

-----------------------------------------------------------------------------
(* The folder of an evidence package                                       *)

PackageSpec == NoWork /\ PackageInit /\ [][PackageNext]_<<work, packageVars>>

\* the steps each command takes, and what it has at each
HasBundle(t) ==
  /\ CASE t.command = "collect" -> t.step # "missing"
       [] t.command = "bundle"  -> t.step \in {"fetch", "close"}
       [] t.command = "unpack"  -> t.step \in {"unpack", "artifacts", "close"}
  /\ t.step \in {"poll", "manifest", "fetch"} => export[t.filter] # None
  /\ t.step \in {"unpack", "artifacts", "summary"} \/ (t.step = "close" /\ t.command # "bundle")
       => t.bundle \in Fetched
  /\ t.step = "artifacts" => t.todo \subseteq Found(t.bundle.entries)

Unpacked(t) ==
  /\ folder.manifest = t.bundle.of
  /\ \A a \in Found(t.bundle.entries) \ t.todo : folder.artifact[a] = t.bundle.entries[a]

\* what the folder holds while a command is at it that nobody has met
FolderIs(t) ==
  /\ t.command = "collect" /\ t.step \in {"fetch", "unpack"} => folder.manifest = t.filter
  /\ t.command = "collect" /\ t.step = "unpack" => t.bundle.of = t.filter
  /\ t.step \in {"unpack", "artifacts", "summary", "close"} => folder.bundle = t.bundle
  /\ t.command # "bundle" /\ t.step \in {"artifacts", "summary", "close"} => Unpacked(t)
  /\ t.command # "bundle" /\ t.step \in {"summary", "close"} =>
       /\ t.todo = {}
       /\ Absent(t.bundle.entries) # {} => folder.missing = Absent(t.bundle.entries)

PackageCommandsOK ==
  \A h \in Handlers : work[h] # None => HasBundle(work[h]) /\ (h \notin met => FolderIs(work[h]))

PackageInv == PackageTypeOK /\ WorkIn(PackageTask) /\ PackageCommandsOK /\ PackageChecks

\* The bundle of a job and the files it has.
LEMMA FetchedFields == ASSUME NEW b \in Fetched
  PROVE  /\ b.of \in Filters /\ b # None
         /\ Found(b.entries) \subseteq Artifacts /\ Absent(b.entries) \subseteq Artifacts
         /\ \A a \in Found(b.entries) : b.entries[a] \in Sizes
<1>1. PICK named \in SUBSET Artifacts : b.entries \in [named -> Sizes \cup {Missing}]
  BY DEF Fetched, Bundle
<1> QED
  BY <1>1, PackageAssumption DEF Fetched, Found, Absent

\* What is known of a command under way.
LEMMA CommandIsKnown == ASSUME PackageInv, NEW h \in Handlers, work[h] # None
  PROVE  work[h] \in PackageTask /\ HasBundle(work[h]) /\ (h \notin met => FolderIs(work[h]))
BY DEF PackageInv, WorkIn, PackageCommandsOK

\* A job, once it is there, stays.
JobsStay == \A x \in Filters : export[x] # None => export'[x] # None

\* A command keeps what it has while jobs stay.
LEMMA StillHasBundle ==
  ASSUME NEW t \in PackageTask, HasBundle(t), JobsStay PROVE HasBundle(t)'
<1>1. t.filter \in Filters
  BY DEF PackageTask
<1> QED
  BY <1>1 DEF HasBundle, JobsStay, Found

\* A command begins, goes on or ends without writing into the folder.
LEMMA CommandReads ==
  ASSUME PackageInv, NEW h \in Handlers, NEW u \in PackageTask \cup {None},
         work' = [work EXCEPT ![h] = u], UNCHANGED folder, PackageTypeOK', JobsStay,
         met' = met \/ (u = None /\ met' = met \ {h}),
         u # None => HasBundle(u)' /\ (h \notin met => FolderIs(u)), PackageChecks'
  PROVE  PackageInv'
<1>1. work'[h] = u /\ (\A o \in Handlers \ {h} : work'[o] = work[o]) /\ WorkIn(PackageTask)'
  BY DEF PackageInv, WorkIn
<1>2. PackageCommandsOK'
  <2> SUFFICES ASSUME NEW o \in Handlers, work'[o] # None
               PROVE  HasBundle(work[o])' /\ (o \notin met' => FolderIs(work[o])')
    BY DEF PackageCommandsOK
  <2>1. PICK v : v = work'[o]
    OBVIOUS
  <2>2. CASE o = h
    <3>1. HasBundle(v)' /\ (o \notin met' => FolderIs(v)')
      BY <1>1, <2>1, <2>2 DEF FolderIs, Unpacked
    <3> QED
      BY <2>1, <3>1 DEF HasBundle, FolderIs, Unpacked
  <2>3. CASE o # h
    <3>1. v = work[o] /\ v \in PackageTask /\ HasBundle(v) /\ (o \notin met => FolderIs(v))
      BY <1>1, <2>1, <2>3, CommandIsKnown
    <3>2. HasBundle(v)' /\ (o \notin met' => FolderIs(v)')
      BY <2>3, <3>1, StillHasBundle DEF FolderIs, Unpacked
    <3> QED
      BY <2>1, <3>2 DEF HasBundle, FolderIs, Unpacked
  <2> QED
    BY <2>2, <2>3
<1> QED
  BY <1>1, <1>2 DEF PackageInv

\* A command writes into the folder: all others that are under way have met it.
LEMMA CommandWrites ==
  ASSUME PackageInv, NEW h \in Handlers, NEW u \in PackageTask, NEW files \in Folder,
         work' = [work EXCEPT ![h] = u], Writes(h, files), HasBundle(u),
         h \notin met => FolderIs(u)'
  PROVE  PackageInv'
<1>1. work'[h] = u /\ (\A o \in Handlers \ {h} : work'[o] = work[o]) /\ WorkIn(PackageTask)'
  BY DEF PackageInv, WorkIn
<1>2. /\ folder' = files /\ whole' = FALSE /\ export' = export /\ JobsStay
      /\ h \in met' => h \in met
      /\ \A o \in Handlers \ {h} : work[o] # None => o \in met'
  BY DEF Writes, JobsStay
<1>3. PackageTypeOK' /\ PackageChecks'
  BY <1>2 DEF PackageInv, PackageTypeOK, Writes, PackageChecks
<1>4. PackageCommandsOK'
  <2> SUFFICES ASSUME NEW o \in Handlers, work'[o] # None
               PROVE  HasBundle(work[o])' /\ (o \notin met' => FolderIs(work[o])')
    BY DEF PackageCommandsOK
  <2>1. PICK v : v = work'[o]
    OBVIOUS
  <2>2. CASE o = h
    <3>1. HasBundle(v)' /\ (o \notin met' => FolderIs(v)')
      BY <1>1, <1>2, <2>1, <2>2, StillHasBundle DEF Writes
    <3> QED
      BY <2>1, <3>1 DEF HasBundle, FolderIs, Unpacked
  <2>3. CASE o # h
    <3>1. v = work[o] /\ v \in PackageTask /\ HasBundle(v) /\ o \in met'
      BY <1>1, <1>2, <2>1, <2>3, CommandIsKnown
    <3>2. HasBundle(v)'
      BY <1>2, <3>1, StillHasBundle
    <3> QED
      BY <2>1, <3>1, <3>2 DEF HasBundle
  <2> QED
    BY <2>2, <2>3
<1> QED
  BY <1>1, <1>3, <1>4 DEF PackageInv

\* The server moves, and no job is lost.
LEMMA ServerMoves ==
  ASSUME PackageInv, export' \in [Filters -> Job \cup {None}], JobsStay,
         UNCHANGED <<work, folder, met, whole>>
  PROVE  PackageInv'
<1>1. PackageTypeOK' /\ WorkIn(PackageTask)' /\ PackageChecks'
  BY DEF PackageInv, PackageTypeOK, WorkIn, PackageChecks, Checks, MissingListChecks, SummaryChecks
<1>2. PackageCommandsOK'
  <2> SUFFICES ASSUME NEW o \in Handlers, work[o] # None
               PROVE  HasBundle(work[o])' /\ (o \notin met => FolderIs(work[o])')
    BY DEF PackageCommandsOK
  <2>1. PICK v : v = work[o] /\ v \in PackageTask /\ HasBundle(v) /\ (o \notin met => FolderIs(v))
    BY CommandIsKnown
  <2>2. HasBundle(v)' /\ (o \notin met => FolderIs(v)')
    BY <2>1, StillHasBundle DEF FolderIs, Unpacked
  <2> QED
    BY <2>1, <2>2 DEF HasBundle, FolderIs, Unpacked
<1> QED
  BY <1>1, <1>2 DEF PackageInv

\* The worker stores the bundle of a job.
LEMMA BuildOK ==
  ASSUME PackageInv, NEW x \in Filters, NEW entries \in Bundle, Build(x, entries) PROVE PackageInv'
<1>1. export[x] \in Job
  BY DEF Build, PackageInv, PackageTypeOK
<1>2. PICK j : j = [export[x] EXCEPT !.status = "completed", !.bundle = entries]
               /\ export' = [export EXCEPT ![x] = j]
  BY DEF Build, PackageInv, PackageTypeOK
<1>3. j \in Job /\ j # None
  BY <1>1, <1>2, PackageAssumption DEF Job
<1>4. export' \in [Filters -> Job \cup {None}] /\ JobsStay
  BY <1>2, <1>3 DEF PackageInv, PackageTypeOK, JobsStay
<1> QED
  BY <1>4, ServerMoves DEF Build

\* A job fails, or its bundle expires.
LEMMA EndJobOK ==
  ASSUME PackageInv, NEW x \in Filters, NEW status \in {"failed", "expired"}, EndJob(x, status)
  PROVE  PackageInv'
<1>1. export[x] \in Job
  BY DEF EndJob, PackageInv, PackageTypeOK
<1>2. PICK j : j = [export[x] EXCEPT !.status = status, !.bundle = None]
               /\ export' = [export EXCEPT ![x] = j]
  BY DEF EndJob, PackageInv, PackageTypeOK
<1>3. j \in Job /\ j # None
  BY <1>1, <1>2, PackageAssumption DEF Job
<1>4. export' \in [Filters -> Job \cup {None}] /\ JobsStay
  BY <1>2, <1>3 DEF PackageInv, PackageTypeOK, JobsStay
<1> QED
  BY <1>4, ServerMoves DEF EndJob

\* A command begins.
LEMMA CommandBegins ==
  ASSUME PackageInv, NEW h \in Handlers, NEW command \in {"collect", "bundle", "unpack"},
         NEW step \in {"post", "fetch", "unpack"}, NEW x \in Filters,
         NEW fetched \in Fetched \cup {None}, StartPackage(h, command, step, x, fetched),
         UNCHANGED packageVars,
         \/ command = "collect" /\ step = "post"
         \/ command = "bundle" /\ step = "fetch" /\ export[x] # None
         \/ command = "unpack" /\ step = "unpack" /\ fetched \in Fetched /\ folder.bundle = fetched
  PROVE  PackageInv'
<1>1. PICK u : /\ u = [command |-> command, step |-> step, filter |-> x, polls |-> 0,
                       bundle |-> fetched, todo |-> {}]
               /\ work' = [work EXCEPT ![h] = u]
  BY DEF StartPackage, Begin
<1>2. u \in PackageTask
  BY <1>1, PackageConstantsOK DEF PackageTask
<1>3. HasBundle(u) /\ FolderIs(u)
  BY <1>1 DEF HasBundle, FolderIs
<1>4. UNCHANGED <<export, folder, met, whole>> /\ JobsStay
  BY DEF packageVars, JobsStay
<1>5. HasBundle(u)'
  BY <1>2, <1>3, <1>4, StillHasBundle
<1>6. PackageTypeOK' /\ PackageChecks'
  BY <1>4 DEF PackageInv, PackageTypeOK, PackageChecks, Checks, MissingListChecks, SummaryChecks
<1> QED
  BY <1>1, <1>2, <1>3, <1>4, <1>5, <1>6, CommandReads

\* The command that does it all begins.
LEMMA CollectOK ==
  ASSUME PackageInv, NEW h \in Handlers, NEW x \in Filters, Collect(h, x) PROVE PackageInv'
BY CommandBegins DEF Collect

\* A download begins.
LEMMA DownloadBundleOK ==
  ASSUME PackageInv, NEW h \in Handlers, NEW x \in Filters, DownloadBundle(h, x) PROVE PackageInv'
BY CommandBegins DEF DownloadBundle

\* The unpacking of a bundle begins.
LEMMA UnpackOK == ASSUME PackageInv, NEW h \in Handlers, Unpack(h) PROVE PackageInv'
<1>1. folder.bundle \in Fetched /\ folder.bundle.of \in Filters
  BY DEF Unpack, PackageInv, PackageTypeOK, Folder, Fetched
<1> QED
  BY <1>1, CommandBegins DEF Unpack

\* A job is there once it was posted.
LEMMA PostExportOK ==
  ASSUME PackageInv, NEW h \in Handlers, NEW named \in SUBSET Artifacts, PostExport(h, named)
  PROVE  PackageInv'
<1>1. PICK t : t = work[h] /\ t # None /\ t.step = "post"
  BY DEF PostExport, At
<1>2. t \in PackageTask /\ HasBundle(t)
  BY <1>1, CommandIsKnown
<1>3. PICK u : u = [t EXCEPT !.step = "poll"] /\ work' = [work EXCEPT ![h] = u]
  BY <1>1 DEF PostExport, Proceed, Continue
<1>4. /\ u \in PackageTask /\ u.step = "poll" /\ u.command = "collect" /\ u.filter = t.filter
      /\ t.filter \in Filters
  BY <1>1, <1>2, <1>3 DEF PackageTask, HasBundle
<1>5. PICK j \in Job : j.status = "queued" /\ export' = IF export[t.filter] = None
                                THEN [export EXCEPT ![t.filter] = j] ELSE export
  <2>1. [status |-> "queued", named |-> named, bundle |-> None] \in Job
    BY DEF Job
  <2> QED
    BY <1>1, <2>1 DEF PostExport
<1>6. /\ export' \in [Filters -> Job \cup {None}] /\ JobsStay /\ export'[t.filter] # None
  BY <1>4, <1>5, PackageAssumption DEF PackageInv, PackageTypeOK, JobsStay
<1>7. HasBundle(u)' /\ FolderIs(u)
  BY <1>4, <1>6 DEF HasBundle, FolderIs
<1>8. PackageTypeOK' /\ PackageChecks'
  BY <1>6 DEF PackageInv, PackageTypeOK, PackageChecks, Checks, MissingListChecks, SummaryChecks, PostExport
<1> QED
  BY <1>3, <1>4, <1>6, <1>7, <1>8, CommandReads DEF PostExport

\* A command ends, and nothing was in the way of what it wrote, or it leaves whole as it was.
LEMMA CommandEnds ==
  ASSUME PackageInv, NEW h \in Handlers, work' = [work EXCEPT ![h] = None], met' = met \ {h},
         UNCHANGED <<export, folder>>, whole' \in BOOLEAN, PackageChecks'
  PROVE  PackageInv'
<1>1. PackageTypeOK' /\ JobsStay
  BY DEF PackageInv, PackageTypeOK, JobsStay
<1> QED
  BY <1>1, CommandReads

\* What is checked is checked of the folder alone.
LEMMA ChecksStay ==
  ASSUME PackageInv, UNCHANGED <<folder, whole>> PROVE PackageChecks' /\ whole' \in BOOLEAN
BY DEF PackageInv, PackageTypeOK, PackageChecks, Checks, MissingListChecks, SummaryChecks

\* The job is awaited.
LEMMA PollOK == ASSUME PackageInv, NEW h \in Handlers, Poll(h) PROVE PackageInv'
<1>1. PICK t : t = work[h] /\ t # None /\ t.step = "poll"
  BY DEF Poll, At
<1>2. t \in PackageTask /\ HasBundle(t)
  BY <1>1, CommandIsKnown
<1>3. UNCHANGED <<export, folder, whole>> /\ JobsStay
  BY DEF Poll, JobsStay
<1>4. PackageChecks' /\ whole' \in BOOLEAN
  BY <1>3, ChecksStay
<1>5. CASE Away(h)
  BY <1>3, <1>4, <1>5, CommandEnds DEF Away, Finish, Continue
<1>6. CASE ~Away(h)
  <2>1. PICK u : /\ work' = [work EXCEPT ![h] = u] /\ met' = met
                 /\ \/ u = [t EXCEPT !.step = "manifest", !.polls = 0]
                    \/ u = [t EXCEPT !.polls = @ + 1] /\ t.polls < MaxPolls
    BY <1>1, <1>6 DEF Poll, Continue, PollsLeft
  <2>2. /\ u \in PackageTask /\ u.step \in {"poll", "manifest"} /\ u.command = "collect"
        /\ u.filter = t.filter
    <3>1. t.polls \in 0..MaxPolls /\ t.command = "collect"
      BY <1>1, <1>2 DEF PackageTask, HasBundle
    <3>2. 0 \in 0..MaxPolls /\ (t.polls < MaxPolls => t.polls + 1 \in 0..MaxPolls)
      BY <3>1, PackageConstantsOK
    <3>3. CASE u = [t EXCEPT !.step = "manifest", !.polls = 0]
      BY <1>1, <1>2, <3>1, <3>2, <3>3 DEF PackageTask
    <3>4. CASE u = [t EXCEPT !.polls = @ + 1] /\ t.polls < MaxPolls
      BY <1>1, <1>2, <3>1, <3>2, <3>4 DEF PackageTask
    <3> QED
      BY <2>1, <3>3, <3>4
  <2>3. HasBundle(u)' /\ FolderIs(u)
    BY <1>1, <1>2, <1>3, <2>2 DEF HasBundle, FolderIs
  <2>4. PackageTypeOK'
    BY <1>3, <2>1 DEF PackageInv, PackageTypeOK
  <2> QED
    BY <1>3, <1>4, <2>1, <2>2, <2>3, <2>4, CommandReads
<1> QED
  BY <1>5, <1>6

\* A command writes the manifest of what it is to fetch.
LEMMA WriteManifestOK == ASSUME PackageInv, NEW h \in Handlers, WriteManifest(h) PROVE PackageInv'
<1>1. PICK t : t = work[h] /\ t # None /\ t.step = "manifest"
  BY DEF WriteManifest, At
<1>2. t \in PackageTask /\ HasBundle(t)
  BY <1>1, CommandIsKnown
<1>3. PICK u : u = [t EXCEPT !.step = "fetch"] /\ work' = [work EXCEPT ![h] = u]
  BY <1>1 DEF WriteManifest, Proceed, Continue
<1>4. /\ u \in PackageTask /\ u.step = "fetch" /\ u.command = "collect" /\ u.filter = t.filter
      /\ t.filter \in Filters
  BY <1>1, <1>2, <1>3 DEF PackageTask, HasBundle
<1>5. PICK files : files = [folder EXCEPT !.manifest = t.filter] /\ Writes(h, files)
  BY <1>1 DEF WriteManifest
<1>6. files \in Folder /\ files.manifest = t.filter
  BY <1>4, <1>5 DEF PackageInv, PackageTypeOK, Folder
<1>7. HasBundle(u)
  BY <1>1, <1>2, <1>4 DEF HasBundle
<1>8. FolderIs(u)'
  BY <1>4, <1>5, <1>6 DEF FolderIs, Writes
<1> QED
  BY <1>3, <1>4, <1>5, <1>6, <1>7, <1>8, CommandWrites

\* The bundle is downloaded, or is not there.
LEMMA FetchBundleOK == ASSUME PackageInv, NEW h \in Handlers, FetchBundle(h) PROVE PackageInv'
<1>1. PICK t : t = work[h] /\ t # None /\ t.step = "fetch"
  BY DEF FetchBundle, At
<1>2. t \in PackageTask /\ HasBundle(t) /\ (h \notin met => FolderIs(t))
  BY <1>1, CommandIsKnown
<1>3. t.filter \in Filters /\ export[t.filter] \in Job
  BY <1>1, <1>2 DEF PackageTask, HasBundle, PackageInv, PackageTypeOK
<1>4. CASE export[t.filter].bundle = None
  <2>1. Away(h) /\ UNCHANGED <<export, folder, whole>>
    BY <1>1, <1>4 DEF FetchBundle
  <2>2. PackageChecks' /\ whole' \in BOOLEAN
    BY <2>1, ChecksStay
  <2> QED
    BY <2>1, <2>2, CommandEnds DEF Away, Finish, Continue
<1>5. CASE export[t.filter].bundle # None
  <2>1. PICK b : b = [of |-> t.filter, entries |-> export[t.filter].bundle]
    OBVIOUS
  <2>2. b \in Fetched /\ b.of = t.filter
    BY <1>3, <1>5, <2>1 DEF Fetched, Job
  <2>3. PICK files : files = [folder EXCEPT !.bundle = b] /\ Writes(h, files)
    BY <1>1, <1>5, <2>1 DEF FetchBundle
  <2>4. PICK u : /\ u = [t EXCEPT !.step = IF t.command = "bundle" THEN "close" ELSE "unpack",
                                  !.bundle = b]
                 /\ work' = [work EXCEPT ![h] = u]
    BY <1>1, <1>5, <2>1 DEF FetchBundle, Continue
  <2>5. /\ u \in PackageTask /\ u.command = t.command /\ u.filter = t.filter /\ u.bundle = b
        /\ \/ u.step = "close" /\ t.command = "bundle"
           \/ u.step = "unpack" /\ t.command = "collect"
    BY <1>1, <1>2, <2>2, <2>4 DEF PackageTask, HasBundle
  <2>6. files \in Folder /\ files.manifest = folder.manifest /\ files.bundle = b
    BY <2>2, <2>3 DEF PackageInv, PackageTypeOK, Folder
  <2>7. HasBundle(u)
    BY <2>2, <2>5 DEF HasBundle
  <2>8. h \notin met => FolderIs(u)'
    BY <1>1, <1>2, <2>2, <2>3, <2>5, <2>6 DEF FolderIs, Writes
  <2> QED
    BY <2>3, <2>4, <2>5, <2>6, <2>7, <2>8, CommandWrites
<1> QED
  BY <1>4, <1>5

\* The manifest of the bundle is written.
LEMMA UnpackManifestOK == ASSUME PackageInv, NEW h \in Handlers, UnpackManifest(h) PROVE PackageInv'
<1>1. PICK t : t = work[h] /\ t # None /\ t.step = "unpack"
  BY DEF UnpackManifest, At
<1>2. t \in PackageTask /\ HasBundle(t) /\ (h \notin met => FolderIs(t)) /\ t.bundle \in Fetched
  BY <1>1, CommandIsKnown DEF HasBundle
<1>3. Found(t.bundle.entries) \subseteq Artifacts /\ t.bundle.of \in Filters
  BY <1>2, FetchedFields
<1>4. PICK u : /\ u = [t EXCEPT !.step = "artifacts", !.todo = Found(t.bundle.entries)]
               /\ work' = [work EXCEPT ![h] = u]
  BY <1>1 DEF UnpackManifest, Continue
<1>5. /\ u \in PackageTask /\ u.step = "artifacts" /\ u.command = t.command /\ u.filter = t.filter
      /\ u.bundle = t.bundle /\ u.todo = Found(t.bundle.entries) /\ t.command \in {"collect", "unpack"}
  BY <1>1, <1>2, <1>3, <1>4 DEF PackageTask, HasBundle
<1>6. PICK files : files = [folder EXCEPT !.manifest = t.bundle.of] /\ Writes(h, files)
  BY <1>1 DEF UnpackManifest
<1>7. files \in Folder /\ files.manifest = t.bundle.of /\ files.bundle = folder.bundle
  BY <1>3, <1>6 DEF PackageInv, PackageTypeOK, Folder
<1>8. HasBundle(u)
  BY <1>2, <1>5 DEF HasBundle
<1>9. h \notin met => FolderIs(u)'
  BY <1>1, <1>2, <1>5, <1>6, <1>7 DEF FolderIs, Unpacked, Writes
<1> QED
  BY <1>4, <1>5, <1>6, <1>7, <1>8, <1>9, CommandWrites

\* An artifact is written.
LEMMA WriteArtifactOK ==
  ASSUME PackageInv, NEW h \in Handlers, NEW a \in Artifacts, WriteArtifact(h, a) PROVE PackageInv'
<1>1. PICK t : t = work[h] /\ t # None /\ t.step = "artifacts" /\ a \in t.todo
  BY DEF WriteArtifact, At
<1>2. /\ t \in PackageTask /\ HasBundle(t) /\ (h \notin met => FolderIs(t)) /\ t.bundle \in Fetched
      /\ t.todo \subseteq Found(t.bundle.entries)
  BY <1>1, CommandIsKnown DEF HasBundle
<1>3. t.bundle.entries[a] \in Sizes
  BY <1>1, <1>2, FetchedFields
<1>4. PICK u : u = [t EXCEPT !.todo = @ \ {a}] /\ work' = [work EXCEPT ![h] = u]
  BY <1>1 DEF WriteArtifact, Continue
<1>5. /\ u \in PackageTask /\ u.step = "artifacts" /\ u.command = t.command /\ u.filter = t.filter
      /\ u.bundle = t.bundle /\ u.todo = t.todo \ {a} /\ t.command \in {"collect", "unpack"}
  BY <1>1, <1>2, <1>4 DEF PackageTask, HasBundle
<1>6. PICK files : files = [folder EXCEPT !.artifact[a] = t.bundle.entries[a]] /\ Writes(h, files)
  BY <1>1 DEF WriteArtifact
<1>7. /\ files \in Folder /\ files.manifest = folder.manifest /\ files.bundle = folder.bundle
      /\ \A c \in Artifacts : files.artifact[c] = IF c = a THEN t.bundle.entries[a]
                                                          ELSE folder.artifact[c]
  BY <1>3, <1>6 DEF PackageInv, PackageTypeOK, Folder
<1>8. HasBundle(u)
  BY <1>2, <1>5 DEF HasBundle
<1>9. h \notin met => FolderIs(u)'
  <2> SUFFICES ASSUME h \notin met PROVE FolderIs(u)'
    OBVIOUS
  <2>1. folder.bundle = t.bundle /\ Unpacked(t)
    BY <1>1, <1>2, <1>5 DEF FolderIs
  <2>2. Unpacked(u)'
    <3>1. folder'.manifest = u.bundle.of
      BY <1>5, <1>6, <1>7, <2>1 DEF Unpacked, Writes
    <3>2. ASSUME NEW c \in Found(u.bundle.entries) \ u.todo
          PROVE  folder'.artifact[c] = u.bundle.entries[c]
      <4>1. c \in Artifacts /\ c \in Found(t.bundle.entries) /\ (c = a \/ c \notin t.todo)
        BY <1>2, <1>5, FetchedFields
      <4> QED
        BY <1>5, <1>6, <1>7, <2>1, <4>1 DEF Unpacked, Writes
    <3> QED
      BY <3>1, <3>2 DEF Unpacked, Found
  <2> QED
    BY <1>5, <1>6, <1>7, <2>1, <2>2 DEF FolderIs, Writes
<1> QED
  BY <1>4, <1>5, <1>6, <1>7, <1>8, <1>9, CommandWrites

\* The list of the missing artifacts is written, if there are any.
LEMMA ListMissingOK == ASSUME PackageInv, NEW h \in Handlers, ListMissing(h) PROVE PackageInv'
<1>1. PICK t : t = work[h] /\ t # None /\ t.step = "artifacts" /\ t.todo = {}
  BY DEF ListMissing, At
<1>2. /\ t \in PackageTask /\ HasBundle(t) /\ (h \notin met => FolderIs(t)) /\ t.bundle \in Fetched
  BY <1>1, CommandIsKnown DEF HasBundle
<1>3. PICK u : u = [t EXCEPT !.step = AfterUnpack(t)] /\ work' = [work EXCEPT ![h] = u]
  BY <1>1 DEF ListMissing, Proceed, Continue
<1>4. /\ u \in PackageTask /\ u.command = t.command /\ u.filter = t.filter
      /\ u.bundle = t.bundle /\ u.todo = {}
      /\ \/ u.step = "summary" /\ t.command = "collect"
         \/ u.step = "close" /\ t.command = "unpack"
  BY <1>1, <1>2, <1>3 DEF PackageTask, HasBundle, AfterUnpack
<1>5. PICK absent : absent = Absent(t.bundle.entries) /\ absent \subseteq Artifacts
  BY <1>2, FetchedFields
<1>6. PICK files : /\ files = IF absent # {} THEN [folder EXCEPT !.missing = absent] ELSE folder
                   /\ Writes(h, files)
  BY <1>1, <1>5 DEF ListMissing
<1>7. /\ files \in Folder /\ files.manifest = folder.manifest /\ files.bundle = folder.bundle
      /\ files.artifact = folder.artifact /\ (absent # {} => files.missing = absent)
  BY <1>5, <1>6 DEF PackageInv, PackageTypeOK, Folder
<1>8. HasBundle(u)
  BY <1>2, <1>4 DEF HasBundle
<1>9. h \notin met => FolderIs(u)'
  <2> SUFFICES ASSUME h \notin met PROVE FolderIs(u)'
    OBVIOUS
  <2>1. folder.bundle = t.bundle /\ Unpacked(t)
    BY <1>1, <1>2, <1>4 DEF FolderIs
  <2>2. Unpacked(u)'
    BY <1>1, <1>4, <1>6, <1>7, <2>1 DEF Unpacked, Writes, Found
  <2> QED
    BY <1>4, <1>5, <1>6, <1>7, <2>1, <2>2 DEF FolderIs, Writes
<1> QED
  BY <1>3, <1>4, <1>6, <1>7, <1>8, <1>9, CommandWrites

\* The summary is written.
LEMMA WriteSummaryOK == ASSUME PackageInv, NEW h \in Handlers, WriteSummary(h) PROVE PackageInv'
<1>1. PICK t : t = work[h] /\ t # None /\ t.step = "summary"
  BY DEF WriteSummary, At
<1>2. /\ t \in PackageTask /\ HasBundle(t) /\ (h \notin met => FolderIs(t)) /\ t.bundle \in Fetched
  BY <1>1, CommandIsKnown DEF HasBundle
<1>3. PICK u : u = [t EXCEPT !.step = "close"] /\ work' = [work EXCEPT ![h] = u]
  BY <1>1 DEF WriteSummary, Proceed, Continue
<1>4. /\ u \in PackageTask /\ u.command = "collect" /\ t.command = "collect"
      /\ u.bundle = t.bundle /\ u.todo = t.todo /\ u.step = "close"
  BY <1>1, <1>2, <1>3 DEF PackageTask, HasBundle
<1>5. PICK files : files = [folder EXCEPT !.summary = t.bundle] /\ Writes(h, files)
  BY <1>1 DEF WriteSummary
<1>6. /\ files \in Folder /\ files.manifest = folder.manifest /\ files.bundle = folder.bundle
      /\ files.artifact = folder.artifact /\ files.missing = folder.missing
  BY <1>2, <1>5 DEF PackageInv, PackageTypeOK, Folder
<1>7. HasBundle(u)
  BY <1>2, <1>4 DEF HasBundle
<1>8. h \notin met => FolderIs(u)'
  BY <1>1, <1>2, <1>4, <1>5, <1>6 DEF FolderIs, Unpacked, Found, Absent, Writes
<1> QED
  BY <1>3, <1>4, <1>5, <1>6, <1>7, <1>8, CommandWrites

\* A command that nobody has met comes to its end: the package is checked.
LEMMA CloseOK == ASSUME PackageInv, NEW h \in Handlers, Close(h) PROVE PackageInv'
<1>1. PICK t : t = work[h] /\ t # None /\ t.step = "close"
  BY DEF Close, At
<1>2. t \in PackageTask /\ HasBundle(t) /\ (h \notin met => FolderIs(t))
  BY <1>1, CommandIsKnown
<1>3. PackageChecks'
  <2> SUFFICES ASSUME whole', folder.summary # None => folder.summary = folder.bundle,
                      ~(Absent(folder.bundle.entries) = {} /\ folder.missing # None)
               PROVE  Checks'
    BY DEF PackageChecks, Close
  <2>1. h \notin met /\ t.command # "bundle"
    BY <1>1 DEF Close
  <2>2. /\ folder.bundle = t.bundle /\ t.bundle \in Fetched /\ Unpacked(t) /\ t.todo = {}
        /\ Absent(t.bundle.entries) # {} => folder.missing = Absent(t.bundle.entries)
    BY <1>1, <1>2, <2>1 DEF FolderIs, HasBundle
  <2>3. folder.bundle # None /\ folder.manifest = folder.bundle.of
    BY <2>2, FetchedFields DEF Unpacked
  <2>4. \A a \in Found(folder.bundle.entries) : folder.artifact[a] = folder.bundle.entries[a]
    BY <2>2 DEF Unpacked
  <2>5. MissingListChecks(folder.bundle.entries)
    BY <2>2 DEF MissingListChecks
  <2>6. SummaryChecks(folder.bundle.entries)
    BY DEF SummaryChecks
  <2>7. Checks
    BY <2>3, <2>4, <2>5, <2>6 DEF Checks
  <2> QED
    BY <2>7 DEF Checks, MissingListChecks, SummaryChecks, Close
<1> QED
  BY <1>3, CommandEnds DEF Close, Away, Finish, Continue

\* A command is cut off.
LEMMA CutPackageOK == ASSUME PackageInv, NEW h \in Handlers, CutPackage(h) PROVE PackageInv'
BY ChecksStay, CommandEnds DEF CutPackage, Away, Finish, Continue

\* Every step keeps the invariant.
LEMMA PackageStepOK ==
  ASSUME PackageInv, [PackageNext]_<<work, packageVars>> PROVE PackageInv'
<1>1. ASSUME NEW x \in Filters, NEW entries \in Bundle, Build(x, entries) PROVE PackageInv'
  BY <1>1, BuildOK
<1>2. ASSUME NEW x \in Filters, NEW status \in {"failed", "expired"}, EndJob(x, status)
      PROVE  PackageInv'
  BY <1>2, EndJobOK
<1>3. ASSUME NEW x \in Filters, NEW h \in Handlers, Collect(h, x) \/ DownloadBundle(h, x)
      PROVE  PackageInv'
  BY <1>3, CollectOK, DownloadBundleOK
<1>4. ASSUME NEW h \in Handlers, NEW named \in SUBSET Artifacts, PostExport(h, named)
      PROVE  PackageInv'
  BY <1>4, PostExportOK
<1>5. ASSUME NEW h \in Handlers, NEW a \in Artifacts, WriteArtifact(h, a) PROVE PackageInv'
  BY <1>5, WriteArtifactOK
<1>6. ASSUME NEW h \in Handlers,
             \/ Unpack(h) \/ Poll(h) \/ WriteManifest(h) \/ FetchBundle(h) \/ UnpackManifest(h)
             \/ ListMissing(h) \/ WriteSummary(h) \/ Close(h) \/ CutPackage(h)
      PROVE  PackageInv'
  BY <1>6, UnpackOK, PollOK, WriteManifestOK, FetchBundleOK, UnpackManifestOK, ListMissingOK,
     WriteSummaryOK, CloseOK, CutPackageOK
<1>7. CASE UNCHANGED <<work, packageVars>>
  BY <1>7, ServerMoves DEF packageVars, JobsStay, PackageInv, PackageTypeOK
<1> QED
  BY <1>1, <1>2, <1>3, <1>4, <1>5, <1>6, <1>7 DEF PackageNext

\* The folder is empty and nothing is whole.
LEMMA PackageInitOK == ASSUME NoWork, PackageInit PROVE PackageInv
<1>1. PackageTypeOK
  <2>1. folder \in Folder
    BY DEF PackageInit, Folder
  <2>2. export \in [Filters -> Job \cup {None}] /\ met \subseteq Handlers /\ whole \in BOOLEAN
    BY DEF PackageInit
  <2> QED
    BY <2>1, <2>2 DEF PackageTypeOK
<1> QED
  BY <1>1 DEF NoWork, PackageInit, PackageInv, WorkIn, PackageCommandsOK, PackageChecks

\* Jobs, files and commands are of the kinds the tool expects (main.rs keeps them as JSON).
THEOREM PackageIsTyped == PackageSpec => [](PackageTypeOK /\ WorkIn(PackageTask))
<1>1. NoWork /\ PackageInit => PackageInv
  BY PackageInitOK
<1>2. PackageInv /\ [PackageNext]_<<work, packageVars>> => PackageInv'
  BY PackageStepOK
<1>3. PackageInv => PackageTypeOK /\ WorkIn(PackageTask)
  BY DEF PackageInv
<1> QED
  BY <1>1, <1>2, <1>3, PTL DEF PackageSpec

\* A package that a command has written to its end, with no other writing meanwhile, passes
\* export check, whatever was in the folder, but for the two leftovers.
THEOREM PackagesCheck == PackageSpec => []PackageChecks
<1>1. NoWork /\ PackageInit => PackageInv
  BY PackageInitOK
<1>2. PackageInv /\ [PackageNext]_<<work, packageVars>> => PackageInv'
  BY PackageStepOK
<1>3. PackageInv => PackageChecks
  BY DEF PackageInv
<1> QED
  BY <1>1, <1>2, <1>3, PTL DEF PackageSpec

-----------------------------------------------------------------------------
(* The detail of an attestation                                            *)

\* Everything the panel does is local to the window: no request is in flight here.
PanelSpec == PanelInit /\ [][PanelNext]_panelVars

\* the answers heard are links the server has issued, the detail never the newer one
LinksKnown ==
  \A a \in Ids :
    /\ detail[a] # None => detail[a] <= link[a]
    /\ fetching[a] \in 0..MaxLinks =>
         fetching[a] <= link[a] /\ (detail[a] # None => detail[a] <= fetching[a])

\* a receipt is loaded of an attestation that has one
CheckingIssued ==
  checking # None => /\ checking.of \in Ids /\ link[checking.of] >= 1
                     /\ checking.link \in 1..MaxLinks \cup {Asked}

OverrideIsOfSelected ==
  override # None /\ ~late =>
    override.of = selected /\ (detail[selected] # None => override.link >= detail[selected])

ReceiptIsOfSelected ==
  view = "detail" /\ selected # None /\ receiptJson # None /\ ~late /\ ~slid =>
    receiptJson = selected

\* a batch that waits to be confirmed has cleared the receipt, and none came since in time
BatchHasNoReceipt == batch # None => view = "new" /\ (receiptJson = None \/ late)

NoteIsOfSelected ==
  form /\ selected # None /\ note # None /\ ~oldText => note = selected

PanelInv ==
  /\ PanelTypeOK /\ LinksKnown /\ CheckingIssued
  /\ OverrideIsOfSelected /\ ReceiptIsOfSelected /\ BatchHasNoReceipt /\ NoteIsOfSelected
\* A link that is issued anew only makes the server's newer.
LEMMA NewLinkOK ==
  ASSUME PanelInv, NEW a \in Ids, NewLink(a)
  PROVE  PanelInv'
<1>1. PanelTypeOK'
  BY PanelConstantsOK DEF PanelInv, PanelTypeOK, NewLink, receipt, grant, ghosts
<1>2. LinksKnown' /\ CheckingIssued'
  BY PanelConstantsOK DEF PanelInv, PanelTypeOK, LinksKnown, CheckingIssued, NewLink,
     receipt, grant, ghosts
<1>3. OverrideIsOfSelected' /\ ReceiptIsOfSelected' /\ BatchHasNoReceipt' /\ NoteIsOfSelected'
  BY PanelConstantsOK DEF PanelInv, PanelTypeOK, OverrideIsOfSelected, ReceiptIsOfSelected,
     BatchHasNoReceipt, NoteIsOfSelected, NewLink, receipt, grant, ghosts
<1> QED
  BY <1>1, <1>2, <1>3 DEF PanelInv

\* A fetch that is asked for has no answer yet.
LEMMA RefetchOK ==
  ASSUME PanelInv, NEW a \in Ids, Refetch(a)
  PROVE  PanelInv'
<1>1. PanelTypeOK'
  BY PanelConstantsOK DEF PanelInv, PanelTypeOK, Refetch, receipt, grant, ghosts
<1>2. LinksKnown' /\ CheckingIssued'
  BY PanelConstantsOK DEF PanelInv, PanelTypeOK, LinksKnown, CheckingIssued, Refetch,
     receipt, grant, ghosts
<1>3. OverrideIsOfSelected' /\ ReceiptIsOfSelected' /\ BatchHasNoReceipt' /\ NoteIsOfSelected'
  BY PanelConstantsOK DEF PanelInv, PanelTypeOK, OverrideIsOfSelected, ReceiptIsOfSelected,
     BatchHasNoReceipt, NoteIsOfSelected, Refetch, receipt, grant, ghosts
<1> QED
  BY <1>1, <1>2, <1>3 DEF PanelInv

\* The answer of a fetch is the server's link of that moment, no older than the detail.
LEMMA ServeDetailOK ==
  ASSUME PanelInv, NEW a \in Ids, ServeDetail(a)
  PROVE  PanelInv'
<1>1. PanelTypeOK'
  BY PanelConstantsOK DEF PanelInv, PanelTypeOK, ServeDetail, receipt, grant, ghosts
<1>2. LinksKnown' /\ CheckingIssued'
  BY PanelConstantsOK DEF PanelInv, PanelTypeOK, LinksKnown, CheckingIssued, ServeDetail,
     receipt, grant, ghosts
<1>3. OverrideIsOfSelected' /\ ReceiptIsOfSelected' /\ BatchHasNoReceipt' /\ NoteIsOfSelected'
  BY PanelConstantsOK DEF PanelInv, PanelTypeOK, OverrideIsOfSelected, ReceiptIsOfSelected,
     BatchHasNoReceipt, NoteIsOfSelected, ServeDetail, receipt, grant, ghosts
<1> QED
  BY <1>1, <1>2, <1>3 DEF PanelInv

\* A newer detail of the attestation selected brings the override to its link.
LEMMA DetailArrivesOK ==
  ASSUME PanelInv, NEW a \in Ids, DetailArrives(a)
  PROVE  PanelInv'
<1>1. PanelTypeOK'
  BY PanelConstantsOK DEF PanelInv, PanelTypeOK, LinkOf, DetailArrives, Heard, receipt,
     grant, ghosts
<1>2. LinksKnown' /\ CheckingIssued'
  BY PanelConstantsOK DEF PanelInv, PanelTypeOK, LinksKnown, CheckingIssued, DetailArrives,
     receipt, grant, ghosts
<1>3. OverrideIsOfSelected'
  <2>1. CASE a = selected
    <3>1. detail'[selected] = fetching[a] /\ fetching[a] \in 0..MaxLinks
          /\ UNCHANGED <<selected, late>>
      BY <2>1 DEF DetailArrives, PanelInv, PanelTypeOK, ghosts
    <3>2. CASE detail[a] = fetching[a] \/ fetching[a] = 0
      <4>1. override' = override
        BY <2>1, <3>2 DEF DetailArrives
      <4> QED
        BY <2>1, <3>1, <3>2, <4>1 DEF OverrideIsOfSelected, PanelInv, PanelTypeOK, LinkOf
    <3>3. CASE detail[a] # fetching[a] /\ fetching[a] # 0
      <4>1. override' = [of |-> a, link |-> fetching[a]]
        BY <2>1, <3>1, <3>3, PanelConstantsOK DEF DetailArrives, Heard
      <4> QED
        BY <2>1, <3>1, <4>1 DEF OverrideIsOfSelected
    <3> QED
      BY <3>2, <3>3
  <2>2. CASE a # selected
    BY <2>2 DEF DetailArrives, PanelInv, PanelTypeOK, OverrideIsOfSelected, ghosts
  <2> QED
    BY <2>1, <2>2
<1>4. ReceiptIsOfSelected' /\ BatchHasNoReceipt' /\ NoteIsOfSelected'
  BY DEF DetailArrives, PanelInv, ReceiptIsOfSelected, BatchHasNoReceipt, NoteIsOfSelected,
     receipt, grant, ghosts
<1> QED
  BY <1>1, <1>2, <1>3, <1>4 DEF PanelInv

\* A fetch that fails leaves what is shown.
LEMMA DetailFailsOK ==
  ASSUME PanelInv, NEW a \in Ids, DetailFails(a)
  PROVE  PanelInv'
<1>1. PanelTypeOK'
  BY PanelConstantsOK DEF PanelInv, PanelTypeOK, DetailFails, receipt, grant, ghosts
<1>2. LinksKnown' /\ CheckingIssued'
  BY PanelConstantsOK DEF PanelInv, PanelTypeOK, LinksKnown, CheckingIssued, DetailFails,
     receipt, grant, ghosts
<1>3. OverrideIsOfSelected' /\ ReceiptIsOfSelected' /\ BatchHasNoReceipt' /\ NoteIsOfSelected'
  BY PanelConstantsOK DEF PanelInv, PanelTypeOK, OverrideIsOfSelected, ReceiptIsOfSelected,
     BatchHasNoReceipt, NoteIsOfSelected, DetailFails, receipt, grant, ghosts
<1> QED
  BY <1>1, <1>2, <1>3 DEF PanelInv

\* The panel opens: the receipt and the form are cleared, and so is what was late for another.
LEMMA OpenDetailOK ==
  ASSUME PanelInv, NEW a \in Ids, OpenDetail(a)
  PROVE  PanelInv'
<1>1. PanelTypeOK'
  BY PanelConstantsOK DEF PanelInv, PanelTypeOK, LinkOf, OpenDetail, Select, OverrideFor,
     Heard, served
<1>2. LinksKnown' /\ CheckingIssued'
  BY PanelConstantsOK DEF PanelInv, PanelTypeOK, LinksKnown, CheckingIssued, OpenDetail,
     served
<1>3. OverrideIsOfSelected'
  <2>1. CASE a = selected
    BY <2>1 DEF PanelInv, PanelTypeOK, OverrideIsOfSelected, OpenDetail, Select, OverrideFor, served
  <2>2. CASE a # selected
    BY <2>2, PanelConstantsOK DEF PanelInv, PanelTypeOK, OverrideIsOfSelected, OpenDetail,
       Select, OverrideFor, Heard, served
  <2> QED
    BY <2>1, <2>2
<1>4. ReceiptIsOfSelected' /\ BatchHasNoReceipt' /\ NoteIsOfSelected'
  BY DEF OpenDetail, ReceiptIsOfSelected, BatchHasNoReceipt, NoteIsOfSelected
<1> QED
  BY <1>1, <1>2, <1>3, <1>4 DEF PanelInv

\* The first row is selected; an open panel or form is marked.
LEMMA SelectFirstOK ==
  ASSUME PanelInv, NEW a \in Ids, SelectFirst(a)
  PROVE  PanelInv'
<1>1. PanelTypeOK'
  BY PanelConstantsOK DEF PanelInv, PanelTypeOK, LinkOf, SelectFirst, Select, OverrideFor,
     Heard, served, receipt, grant
<1>2. LinksKnown' /\ CheckingIssued'
  BY PanelConstantsOK DEF PanelInv, PanelTypeOK, LinksKnown, CheckingIssued, SelectFirst,
     served, receipt, grant
<1>3. OverrideIsOfSelected'
  <2>1. PICK l : l = detail[a] /\ override' = Heard(a, l)
    BY PanelConstantsOK DEF SelectFirst, Select, OverrideFor, PanelInv, PanelTypeOK
  <2> QED
    BY <2>1, PanelConstantsOK DEF SelectFirst, Select, Heard, OverrideIsOfSelected, PanelInv,
       PanelTypeOK, served
<1>4. ReceiptIsOfSelected' /\ BatchHasNoReceipt' /\ NoteIsOfSelected'
  BY DEF SelectFirst, Select, PanelInv, PanelTypeOK, ReceiptIsOfSelected, BatchHasNoReceipt,
     NoteIsOfSelected, receipt, grant
<1> QED
  BY <1>1, <1>2, <1>3, <1>4 DEF PanelInv

\* A batch ends with its first attestation selected and the receipt cleared.
LEMMA BatchSubmittedOK ==
  ASSUME PanelInv, NEW a \in Ids, NEW inForm \in BOOLEAN,
         BatchSubmitted(a, inForm)
  PROVE  PanelInv'
<1>1. PanelTypeOK'
  BY PanelConstantsOK DEF PanelInv, PanelTypeOK, LinkOf, BatchSubmitted, Select,
     OverrideFor, Heard, served, grant
<1>2. LinksKnown' /\ CheckingIssued'
  BY PanelConstantsOK DEF PanelInv, PanelTypeOK, LinksKnown, CheckingIssued, BatchSubmitted,
     served, grant
<1>3. OverrideIsOfSelected' /\ ReceiptIsOfSelected' /\ BatchHasNoReceipt' /\ NoteIsOfSelected'
  BY PanelConstantsOK DEF PanelInv, PanelTypeOK, OverrideIsOfSelected, ReceiptIsOfSelected,
     BatchHasNoReceipt, NoteIsOfSelected, BatchSubmitted, Select, OverrideFor, Heard,
     served, grant
<1> QED
  BY <1>1, <1>2, <1>3 DEF PanelInv

\* A project is chosen in the list, where no panel is open.
LEMMA ChooseProjectOK == ASSUME PanelInv, ChooseProject PROVE PanelInv'
<1>1. PanelTypeOK'
  BY PanelConstantsOK DEF PanelInv, PanelTypeOK, LinkOf, ChooseProject, Select, OverrideFor,
     Heard, served, grant, ghosts
<1>2. LinksKnown' /\ CheckingIssued'
  BY PanelConstantsOK DEF PanelInv, PanelTypeOK, LinksKnown, CheckingIssued, ChooseProject,
     served, grant, ghosts
<1>3. OverrideIsOfSelected' /\ ReceiptIsOfSelected' /\ BatchHasNoReceipt' /\ NoteIsOfSelected'
  BY PanelConstantsOK DEF PanelInv, PanelTypeOK, OverrideIsOfSelected, ReceiptIsOfSelected,
     BatchHasNoReceipt, NoteIsOfSelected, ChooseProject, Select, OverrideFor, Heard, served,
     grant, ghosts
<1> QED
  BY <1>1, <1>2, <1>3 DEF PanelInv

\* The project goes, and nothing is selected.
LEMMA ProjectGoneOK == ASSUME PanelInv, ProjectGone PROVE PanelInv'
<1>1. PanelTypeOK'
  BY PanelConstantsOK DEF PanelInv, PanelTypeOK, LinkOf, ProjectGone, Select, OverrideFor,
     Heard, served, receipt, grant, ghosts
<1>2. LinksKnown' /\ CheckingIssued'
  BY PanelConstantsOK DEF PanelInv, PanelTypeOK, LinksKnown, CheckingIssued, ProjectGone,
     served, receipt, grant, ghosts
<1>3. OverrideIsOfSelected' /\ ReceiptIsOfSelected' /\ BatchHasNoReceipt' /\ NoteIsOfSelected'
  BY PanelConstantsOK DEF PanelInv, PanelTypeOK, OverrideIsOfSelected, ReceiptIsOfSelected,
     BatchHasNoReceipt, NoteIsOfSelected, ProjectGone, Select, OverrideFor, Heard, served,
     receipt, grant, ghosts
<1> QED
  BY <1>1, <1>2, <1>3 DEF PanelInv

\* The list is shown.
LEMMA ShowListOK == ASSUME PanelInv, ShowList PROVE PanelInv'
<1>1. PanelTypeOK'
  BY PanelConstantsOK DEF PanelInv, PanelTypeOK, ShowList, served, receipt, grant, ghosts
<1>2. LinksKnown' /\ CheckingIssued'
  BY PanelConstantsOK DEF PanelInv, PanelTypeOK, LinksKnown, CheckingIssued, ShowList,
     served, receipt, grant, ghosts
<1>3. OverrideIsOfSelected' /\ ReceiptIsOfSelected' /\ BatchHasNoReceipt' /\ NoteIsOfSelected'
  BY PanelConstantsOK DEF PanelInv, PanelTypeOK, OverrideIsOfSelected, ReceiptIsOfSelected,
     BatchHasNoReceipt, NoteIsOfSelected, ShowList, served, receipt, grant, ghosts
<1> QED
  BY <1>1, <1>2, <1>3 DEF PanelInv

\* The form for new attestations opens.
LEMMA NewAttestationOK == ASSUME PanelInv, NewAttestation PROVE PanelInv'
<1>1. PanelTypeOK'
  BY PanelConstantsOK DEF PanelInv, PanelTypeOK, NewAttestation, served, receipt, grant,
     ghosts
<1>2. LinksKnown' /\ CheckingIssued'
  BY PanelConstantsOK DEF PanelInv, PanelTypeOK, LinksKnown, CheckingIssued, NewAttestation,
     served, receipt, grant, ghosts
<1>3. OverrideIsOfSelected' /\ ReceiptIsOfSelected' /\ BatchHasNoReceipt' /\ NoteIsOfSelected'
  BY PanelConstantsOK DEF PanelInv, PanelTypeOK, OverrideIsOfSelected, ReceiptIsOfSelected,
     BatchHasNoReceipt, NoteIsOfSelected, NewAttestation, served, receipt, grant, ghosts
<1> QED
  BY <1>1, <1>2, <1>3 DEF PanelInv

\* A batch begins.
LEMMA SubmitBatchOK == ASSUME PanelInv, SubmitBatch PROVE PanelInv'
<1>1. PanelTypeOK'
  BY PanelConstantsOK DEF PanelInv, PanelTypeOK, SubmitBatch, served, receipt, grant, ghosts
<1>2. LinksKnown' /\ CheckingIssued'
  BY PanelConstantsOK DEF PanelInv, PanelTypeOK, LinksKnown, CheckingIssued, SubmitBatch,
     served, receipt, grant, ghosts
<1>3. OverrideIsOfSelected' /\ ReceiptIsOfSelected' /\ BatchHasNoReceipt' /\ NoteIsOfSelected'
  BY PanelConstantsOK DEF PanelInv, PanelTypeOK, OverrideIsOfSelected, ReceiptIsOfSelected,
     BatchHasNoReceipt, NoteIsOfSelected, SubmitBatch, served, receipt, grant, ghosts
<1> QED
  BY <1>1, <1>2, <1>3 DEF PanelInv

\* The panel opens on the batch, whose end had cleared the receipt.
LEMMA BatchConfirmedOK == ASSUME PanelInv, BatchConfirmed PROVE PanelInv'
<1>1. PanelTypeOK'
  BY PanelConstantsOK DEF PanelInv, PanelTypeOK, LinkOf, BatchConfirmed, Select,
     OverrideFor, Heard, served, receipt, grant
<1>2. LinksKnown' /\ CheckingIssued'
  BY PanelConstantsOK DEF PanelInv, PanelTypeOK, LinksKnown, CheckingIssued, BatchConfirmed,
     served, receipt, grant
<1>3. OverrideIsOfSelected' /\ NoteIsOfSelected'
  BY DEF PanelInv, PanelTypeOK, OverrideIsOfSelected, NoteIsOfSelected, BatchConfirmed, Select,
     OverrideFor, Heard, served, receipt, grant
<1>4. BatchHasNoReceipt' /\ ReceiptIsOfSelected'
  <2>1. receiptJson = None \/ late
    BY DEF PanelInv, BatchHasNoReceipt, BatchConfirmed
  <2>2. batch' = None /\ receiptJson' = receiptJson /\ late' = late
    BY DEF BatchConfirmed, receipt
  <2> QED
    BY <2>1, <2>2 DEF BatchHasNoReceipt, ReceiptIsOfSelected
<1> QED
  BY <1>1, <1>2, <1>3, <1>4 DEF PanelInv

\* A receipt is loaded of the attestation shown, whose detail has a link.
LEMMA LoadReceiptOK == ASSUME PanelInv, LoadReceipt PROVE PanelInv'
<1>1. PanelTypeOK'
  BY PanelConstantsOK DEF PanelInv, PanelTypeOK, CheckingIssued, LinkOf, LoadReceipt, Shown,
     served, grant, ghosts
<1>2. LinksKnown' /\ CheckingIssued'
  BY PanelConstantsOK DEF PanelInv, PanelTypeOK, LinksKnown, CheckingIssued, LoadReceipt,
     Shown, served, grant, ghosts
<1>3. OverrideIsOfSelected' /\ ReceiptIsOfSelected' /\ BatchHasNoReceipt' /\ NoteIsOfSelected'
  BY PanelConstantsOK DEF PanelInv, PanelTypeOK, OverrideIsOfSelected, ReceiptIsOfSelected,
     BatchHasNoReceipt, NoteIsOfSelected, LoadReceipt, Shown, served, grant, ghosts
<1> QED
  BY <1>1, <1>2, <1>3 DEF PanelInv

\* The receipt is served with the link of that moment.
LEMMA ServeReceiptOK == ASSUME PanelInv, ServeReceipt PROVE PanelInv'
<1>1. PanelTypeOK'
  BY PanelConstantsOK DEF PanelInv, PanelTypeOK, CheckingIssued, LinkOf, ServeReceipt,
     served, grant, ghosts
<1>2. LinksKnown' /\ CheckingIssued'
  BY PanelConstantsOK DEF PanelInv, PanelTypeOK, LinksKnown, CheckingIssued, ServeReceipt,
     served, grant, ghosts
<1>3. OverrideIsOfSelected' /\ ReceiptIsOfSelected' /\ BatchHasNoReceipt' /\ NoteIsOfSelected'
  BY PanelConstantsOK DEF PanelInv, PanelTypeOK, OverrideIsOfSelected, ReceiptIsOfSelected,
     BatchHasNoReceipt, NoteIsOfSelected, ServeReceipt, served, grant, ghosts
<1> QED
  BY <1>1, <1>2, <1>3 DEF PanelInv

\* The receipt and its link are shown: of the attestation selected, or late.
LEMMA ReceiptArrivesOK == ASSUME PanelInv, ReceiptArrives PROVE PanelInv'
<1>1. PanelTypeOK'
  BY PanelConstantsOK DEF PanelInv, PanelTypeOK, CheckingIssued, LinkOf, ReceiptArrives,
     served, grant
<1>2. LinksKnown' /\ CheckingIssued'
  BY PanelConstantsOK DEF PanelInv, PanelTypeOK, LinksKnown, CheckingIssued, ReceiptArrives,
     served, grant
<1>3. OverrideIsOfSelected'
  <2>1. PICK c : c = checking
    OBVIOUS
  <2>2. /\ c.of \in Ids /\ c.link \in 1..MaxLinks /\ override' = c
        /\ selected' = selected /\ detail' = detail
        /\ late' = (late \/ view # "detail" \/ c.of # selected \/ Older(c.of, c.link))
    BY <2>1 DEF PanelInv, CheckingIssued, ReceiptArrives, served
  <2>3. c.of = selected /\ detail[selected] # None /\ ~Older(c.of, c.link)
          => c.link >= detail[selected]
    BY <2>2, PanelConstantsOK DEF Older, PanelInv, PanelTypeOK
  <2> QED
    BY <2>2, <2>3 DEF OverrideIsOfSelected
<1>4. ReceiptIsOfSelected' /\ BatchHasNoReceipt' /\ NoteIsOfSelected'
  BY DEF PanelInv, ReceiptIsOfSelected, BatchHasNoReceipt, NoteIsOfSelected, ReceiptArrives,
     served, grant
<1> QED
  BY <1>1, <1>2, <1>3, <1>4 DEF PanelInv

\* A receipt that cannot be loaded leaves what is shown.
LEMMA ReceiptFailsOK == ASSUME PanelInv, ReceiptFails PROVE PanelInv'
<1>1. PanelTypeOK'
  BY PanelConstantsOK DEF PanelInv, PanelTypeOK, ReceiptFails, served, grant, ghosts
<1>2. LinksKnown' /\ CheckingIssued'
  BY PanelConstantsOK DEF PanelInv, PanelTypeOK, LinksKnown, CheckingIssued, ReceiptFails,
     served, grant, ghosts
<1>3. OverrideIsOfSelected' /\ ReceiptIsOfSelected' /\ BatchHasNoReceipt' /\ NoteIsOfSelected'
  BY PanelConstantsOK DEF PanelInv, PanelTypeOK, OverrideIsOfSelected, ReceiptIsOfSelected,
     BatchHasNoReceipt, NoteIsOfSelected, ReceiptFails, served, grant, ghosts
<1> QED
  BY <1>1, <1>2, <1>3 DEF PanelInv

\* The form opens with a text about the attestation shown.
LEMMA ToggleFormOK == ASSUME PanelInv, ToggleForm PROVE PanelInv'
<1>1. PanelTypeOK'
  BY PanelConstantsOK DEF PanelInv, PanelTypeOK, ToggleForm, Shown, served, receipt
<1>2. LinksKnown' /\ CheckingIssued'
  BY PanelConstantsOK DEF PanelInv, PanelTypeOK, LinksKnown, CheckingIssued, ToggleForm,
     Shown, served, receipt
<1>3. OverrideIsOfSelected' /\ ReceiptIsOfSelected' /\ BatchHasNoReceipt' /\ NoteIsOfSelected'
  BY PanelConstantsOK DEF PanelInv, PanelTypeOK, OverrideIsOfSelected, ReceiptIsOfSelected,
     BatchHasNoReceipt, NoteIsOfSelected, ToggleForm, Shown, served, receipt
<1> QED
  BY <1>1, <1>2, <1>3 DEF PanelInv

\* The form opens on the text left, which is then marked.
LEMMA OpenFormFromEmptyOK == ASSUME PanelInv, OpenFormFromEmpty PROVE PanelInv'
<1>1. PanelTypeOK'
  BY PanelConstantsOK DEF PanelInv, PanelTypeOK, OpenFormFromEmpty, Shown, served, receipt
<1>2. LinksKnown' /\ CheckingIssued'
  BY PanelConstantsOK DEF PanelInv, PanelTypeOK, LinksKnown, CheckingIssued,
     OpenFormFromEmpty, Shown, served, receipt
<1>3. OverrideIsOfSelected' /\ ReceiptIsOfSelected' /\ BatchHasNoReceipt' /\ NoteIsOfSelected'
  BY PanelConstantsOK DEF PanelInv, PanelTypeOK, OverrideIsOfSelected, ReceiptIsOfSelected,
     BatchHasNoReceipt, NoteIsOfSelected, OpenFormFromEmpty, Shown, served, receipt
<1> QED
  BY <1>1, <1>2, <1>3 DEF PanelInv

\* The text is written anew for the attestation shown, or is the user's.
LEMMA TypeEmailOK == ASSUME PanelInv, TypeEmail PROVE PanelInv'
<1>1. PanelTypeOK'
  BY PanelConstantsOK DEF PanelInv, PanelTypeOK, TypeEmail, Shown, served, receipt
<1>2. LinksKnown' /\ CheckingIssued'
  BY PanelConstantsOK DEF PanelInv, PanelTypeOK, LinksKnown, CheckingIssued, TypeEmail,
     Shown, served, receipt
<1>3. OverrideIsOfSelected' /\ ReceiptIsOfSelected' /\ BatchHasNoReceipt' /\ NoteIsOfSelected'
  BY PanelConstantsOK DEF PanelInv, PanelTypeOK, OverrideIsOfSelected, ReceiptIsOfSelected,
     BatchHasNoReceipt, NoteIsOfSelected, TypeEmail, Shown, served, receipt
<1> QED
  BY <1>1, <1>2, <1>3 DEF PanelInv

\* The text becomes the user's.
LEMMA TypeNoteOK == ASSUME PanelInv, TypeNote PROVE PanelInv'
<1>1. PanelTypeOK'
  BY PanelConstantsOK DEF PanelInv, PanelTypeOK, TypeNote, Shown, served, receipt, ghosts
<1>2. LinksKnown' /\ CheckingIssued'
  BY PanelConstantsOK DEF PanelInv, PanelTypeOK, LinksKnown, CheckingIssued, TypeNote,
     Shown, served, receipt, ghosts
<1>3. OverrideIsOfSelected' /\ ReceiptIsOfSelected' /\ BatchHasNoReceipt' /\ NoteIsOfSelected'
  BY PanelConstantsOK DEF PanelInv, PanelTypeOK, OverrideIsOfSelected, ReceiptIsOfSelected,
     BatchHasNoReceipt, NoteIsOfSelected, TypeNote, Shown, served, receipt, ghosts
<1> QED
  BY <1>1, <1>2, <1>3 DEF PanelInv

\* The form closes.
LEMMA GrantedOK == ASSUME PanelInv, Granted PROVE PanelInv'
<1>1. PanelTypeOK'
  <2>1. form' \in BOOLEAN /\ note' \in Ids \cup {None} /\ edited' \in BOOLEAN
    BY DEF Granted
  <2> QED
    BY <2>1 DEF PanelInv, PanelTypeOK, Granted, served, receipt, ghosts
<1>2. LinksKnown' /\ CheckingIssued'
  BY PanelConstantsOK DEF PanelInv, PanelTypeOK, LinksKnown, CheckingIssued, Granted,
     served, receipt, ghosts
<1>3. OverrideIsOfSelected' /\ ReceiptIsOfSelected' /\ BatchHasNoReceipt' /\ NoteIsOfSelected'
  BY PanelConstantsOK DEF PanelInv, PanelTypeOK, OverrideIsOfSelected, ReceiptIsOfSelected,
     BatchHasNoReceipt, NoteIsOfSelected, Granted, served, receipt, ghosts
<1> QED
  BY <1>1, <1>2, <1>3 DEF PanelInv

\* Every step keeps the invariant.
LEMMA PanelStepOK == ASSUME PanelInv, [PanelNext]_panelVars PROVE PanelInv'
<1>1. ASSUME NEW a \in Ids, NewLink(a) \/ Refetch(a) \/ ServeDetail(a) \/ DetailArrives(a)
                              \/ DetailFails(a)
      PROVE  PanelInv'
  BY <1>1, NewLinkOK, RefetchOK, ServeDetailOK, DetailArrivesOK, DetailFailsOK
<1>2. ASSUME NEW a \in Ids, NEW inForm \in BOOLEAN,
             OpenDetail(a) \/ SelectFirst(a) \/ BatchSubmitted(a, inForm)
      PROVE  PanelInv'
  BY <1>2, OpenDetailOK, SelectFirstOK, BatchSubmittedOK
<1>3. ASSUME ChooseProject \/ ProjectGone \/ ShowList \/ NewAttestation \/ SubmitBatch \/ BatchConfirmed
      PROVE  PanelInv'
  BY <1>3, ChooseProjectOK, ProjectGoneOK, ShowListOK, NewAttestationOK, SubmitBatchOK,
     BatchConfirmedOK
<1>4. ASSUME LoadReceipt \/ ServeReceipt \/ ReceiptArrives \/ ReceiptFails PROVE PanelInv'
  BY <1>4, LoadReceiptOK, ServeReceiptOK, ReceiptArrivesOK, ReceiptFailsOK
<1>5. ASSUME ToggleForm \/ OpenFormFromEmpty \/ TypeEmail \/ TypeNote \/ Granted PROVE PanelInv'
  BY <1>5, ToggleFormOK, OpenFormFromEmptyOK, TypeEmailOK, TypeNoteOK, GrantedOK
<1>6. CASE UNCHANGED panelVars
  BY <1>6 DEF panelVars, served, receipt, grant, ghosts, PanelInv, PanelTypeOK, LinksKnown,
     CheckingIssued, OverrideIsOfSelected, ReceiptIsOfSelected, BatchHasNoReceipt,
     NoteIsOfSelected
<1> QED
  BY <1>1, <1>2, <1>3, <1>4, <1>5, <1>6 DEF PanelNext

\* An empty panel shows nothing.
LEMMA PanelInitOK == ASSUME PanelInit PROVE PanelInv
<1>1. PanelTypeOK
  <2>1. link \in [Ids -> 0..MaxLinks] /\ detail \in [Ids -> 0..MaxLinks \cup {None}]
        /\ fetching \in [Ids -> 0..MaxLinks \cup {None, Asked}]
    BY PanelConstantsOK DEF PanelInit
  <2>2. /\ loop \in BOOLEAN /\ form \in BOOLEAN /\ edited \in BOOLEAN
        /\ late \in BOOLEAN /\ slid \in BOOLEAN /\ oldText \in BOOLEAN
    BY DEF PanelInit
  <2> QED
    BY <2>1, <2>2 DEF PanelInit, PanelTypeOK
<1>2. LinksKnown
  BY PanelConstantsOK DEF PanelInit, LinksKnown
<1>3. CheckingIssued /\ OverrideIsOfSelected /\ ReceiptIsOfSelected /\ BatchHasNoReceipt
      /\ NoteIsOfSelected
  BY DEF PanelInit, CheckingIssued, OverrideIsOfSelected, ReceiptIsOfSelected,
     BatchHasNoReceipt, NoteIsOfSelected
<1> QED
  BY <1>1, <1>2, <1>3 DEF PanelInv

\* The window holds links, attestations and answers of the kinds the panel expects
\* (main.tsx of the renderer keeps them as untyped strings and objects).
THEOREM PanelIsTyped == PanelSpec => []PanelTypeOK
<1>1. PanelInit => PanelInv
  BY PanelInitOK
<1>2. PanelInv /\ [PanelNext]_panelVars => PanelInv'
  BY PanelStepOK
<1>3. PanelInv => PanelTypeOK
  BY DEF PanelInv
<1> QED
  BY <1>1, <1>2, <1>3, PTL DEF PanelSpec

\* Whatever batches, projects and rows are selected while details, receipts and batches
\* are on their way, the panel shows the link, the receipt and the message for the
\* attestation that is selected, but where an answer is late or the panel was left open.
THEOREM PanelAlwaysOfSelected == PanelSpec => []PanelIsOfSelected
<1>1. PanelInit => PanelInv
  BY PanelInitOK
<1>2. PanelInv /\ [PanelNext]_panelVars => PanelInv'
  BY PanelStepOK
<1>3. PanelInv => PanelIsOfSelected
  BY DEF PanelInv, OverrideIsOfSelected, ReceiptIsOfSelected, NoteIsOfSelected, Shown,
     PanelIsOfSelected
<1> QED
  BY <1>1, <1>2, <1>3, PTL DEF PanelSpec

-----------------------------------------------------------------------------
(* The form of new attestations                                            *)

FormSpec == NoWork /\ FormInit /\ [][FormNext]_<<work, formVars>>

LoopTask ==
  [step : {"create", "upload", "finalize"}, entry : Entries, todo : SUBSET Items,
   item : Items \cup {None}, told : Records \cup {None},
   title : UNION {[items -> Titles] : items \in SUBSET Items}]
\* the attestation a loop has created and works on
Created(t) == t.title[t.item]
Holds(h) == At(h, "upload") \/ At(h, "finalize")

\* what a loop knows of the item it is at: it comes first of those left, it has a title,
\* and the attestation it made is at the step the loop has left it at
LoopKnows(t) ==
  /\ t.todo \subseteq DOMAIN t.title
  /\ t.entry = "file" => t.todo \subseteq Docs
  /\ IF t.step = "create" THEN t.item = None ELSE t.item \in t.todo
  /\ t.step # "create" =>
       /\ attested[Created(t)] # None /\ attested[Created(t)].of = t.item
       /\ attested[Created(t)].state = IF t.step = "upload" THEN "created" ELSE "uploaded"
  /\ \A i \in t.todo : t.told \in {None, i} \/ t.title[i] \in early

LoopsKnow == \A h \in Loops : LoopKnows(work[h])
MadeByOne == \A h, o \in Handlers : Holds(h) /\ Holds(o) /\ h # o => Created(work[h]) # Created(work[o])
RowsAreOfFiles ==
  \A d \in Docs : rows[d] \in Titles =>
    /\ attested[rows[d]] # None /\ attested[rows[d]].of = d
    /\ attested[rows[d]].state \in {"validating", "confirmed"}
OneLoop == ~astray => (Loops # {} => sending) /\ \A h, o \in Loops : h = o
HashIsOfRecord == computing \subseteq {record} /\ (computing = {} => recordHash = record)
ToldIsAttested == \A n \in Titles \ early : attested[n] # None => attested[n].told = attested[n].of

FormInv ==
  /\ FormTypeOK /\ WorkIn(FormTask)
  /\ LoopsKnow /\ MadeByOne /\ RowsAreOfFiles /\ OneLoop /\ HashIsOfRecord /\ ToldIsAttested

\* What is known of a loop under way.
LEMMA LoopIsKnown == ASSUME FormInv, NEW h \in Loops
  PROVE  /\ h \in Handlers /\ work[h] \in LoopTask /\ work[h] # None /\ LoopKnows(work[h])
BY DEF FormInv, LoopsKnow, Loops, IsLoop, WorkIn, FormTask, LoopTask

\* The fields of a loop's task.
LEMMA LoopFields == ASSUME NEW t \in LoopTask
  PROVE  /\ t \in FormTask /\ t.step \in {"create", "upload", "finalize"}
         /\ t.entry \in Entries /\ t.todo \subseteq Items /\ t.item \in Items \cup {None}
         /\ t.told \in Records \cup {None}
         /\ t.title \in [DOMAIN t.title -> Titles] /\ DOMAIN t.title \subseteq Items
<1>1. PICK items \in SUBSET Items : t.title \in [items -> Titles]
  BY DEF LoopTask
<1> QED
  BY <1>1 DEF LoopTask, FormTask

\* The attestation a loop is to create, or has created, is on no row and with no other loop.
NotSeenBut(h, n) ==
  /\ \A o \in Handlers \ {h} : Holds(o) => Created(work[o]) # n
  /\ \A d \in Docs : rows[d] # n

\* What an item of a loop names, unless another loop has made it, is on no row.
LEMMA ItemNotSeen ==
  ASSUME FormInv, NEW h \in Loops, NEW item \in work[h].todo,
         attested[work[h].title[item]] = None \/ (Holds(h) /\ item = work[h].item)
  PROVE  NotSeenBut(h, work[h].title[item])
<1>1. PICK t : t = work[h]
  OBVIOUS
<1>2. t \in LoopTask /\ LoopKnows(t) /\ h \in Handlers
  BY <1>1, LoopIsKnown
<1>3. PICK n : n = t.title[item]
  OBVIOUS
<1>4. n \in Titles
  BY <1>1, <1>2, <1>3, LoopFields DEF LoopKnows
<1>5. CASE attested[n] = None
  <2>1. \A o \in Handlers : Holds(o) => Created(work[o]) # n
    <3> SUFFICES ASSUME NEW o \in Handlers, Holds(o) PROVE attested[Created(work[o])] # None
      BY <1>5
    <3>1. o \in Loops /\ work[o].step # "create"
      BY DEF Holds, At, Loops, IsLoop
    <3> QED
      BY <3>1, LoopIsKnown DEF LoopKnows
  <2>2. \A d \in Docs : rows[d] # n
    BY <1>4, <1>5 DEF FormInv, RowsAreOfFiles
  <2> QED
    BY <1>1, <1>3, <2>1, <2>2 DEF NotSeenBut
<1>6. CASE Holds(h) /\ item = t.item
  <2>1. Created(t) = n /\ t.step \in {"upload", "finalize"}
    BY <1>1, <1>3, <1>6 DEF Created, Holds, At
  <2>2. attested[n].state \in {"created", "uploaded"}
    BY <1>2, <2>1 DEF LoopKnows
  <2>3. \A d \in Docs : rows[d] # n
    BY <1>4, <2>2 DEF FormInv, RowsAreOfFiles
  <2>4. \A o \in Handlers \ {h} : Holds(o) => Created(work[o]) # n
    BY <1>1, <1>2, <1>6, <2>1 DEF FormInv, MadeByOne
  <2> QED
    BY <1>1, <1>3, <2>3, <2>4 DEF NotSeenBut
<1> QED
  BY <1>1, <1>3, <1>5, <1>6

\* Nothing is attested, or the attestation of the item is written: that of the item, told
\* as such, and in nobody else's hands.
WritesItem(h, item) ==
  LET n == work[h].title[item]
  IN  \/ attested' = attested
      \/ /\ attested' = [attested EXCEPT ![n] = attested'[n]]
         /\ attested'[n] \in Attested /\ attested'[n].of = item
         /\ n \notin early => attested'[n].told = item
         /\ NotSeenBut(h, n)

\* Then the other loops, the rows and what is told keep what they had.
LEMMA OthersKept ==
  ASSUME FormInv, NEW h \in Loops, NEW item \in work[h].todo, WritesItem(h, item), early' = early
  PROVE  /\ attested' \in [Titles -> Attested \cup {None}]
         /\ \A t \in LoopTask : (\E o \in Loops \ {h} : work[o] = t) => LoopKnows(t)'
         /\ \A d \in Docs : rows[d] \in Titles => attested'[rows[d]] = attested[rows[d]]
         /\ ToldIsAttested'
<1>1. PICK n : n = work[h].title[item]
  OBVIOUS
<1>2. n \in Titles
  <2>1. PICK t : t = work[h]
    OBVIOUS
  <2> QED
    BY <1>1, <2>1, LoopIsKnown, LoopFields DEF LoopKnows
<1>3. attested \in [Titles -> Attested \cup {None}] /\ ToldIsAttested
  BY DEF FormInv, FormTypeOK
<1>4. CASE attested' = attested
  <2>1. \A t \in LoopTask : (\E o \in Loops \ {h} : work[o] = t) => LoopKnows(t)'
    BY <1>4, LoopIsKnown DEF LoopKnows
  <2> QED
    BY <1>3, <1>4, <2>1 DEF ToldIsAttested
<1>5. CASE attested' # attested
  <2>1. PICK a \in Attested :
          /\ attested' = [attested EXCEPT ![n] = a] /\ a.of = item /\ (n \notin early => a.told = item)
          /\ NotSeenBut(h, n)
    BY <1>1, <1>5 DEF WritesItem
  <2>2. \A m \in Titles : attested'[m] = IF m = n THEN a ELSE attested[m]
    BY <1>3, <2>1
  <2>3. ASSUME NEW t \in LoopTask, NEW o \in Loops \ {h}, work[o] = t PROVE LoopKnows(t)'
    <3>1. LoopKnows(t) /\ o \in Handlers
      BY <2>3, LoopIsKnown
    <3>2. CASE t.step = "create"
      BY <3>1, <3>2 DEF LoopKnows
    <3>3. CASE t.step # "create"
      <4>1. Holds(o)
        BY <2>3, <3>3, LoopFields, LoopIsKnown DEF Holds, At
      <4>2. Created(t) # n
        BY <2>1, <2>3, <3>1, <4>1 DEF NotSeenBut
      <4>3. Created(t) \in Titles
        BY <3>1, <3>3, LoopFields DEF LoopKnows, Created
      <4>4. attested'[Created(t)] = attested[Created(t)]
        BY <2>2, <4>2, <4>3
      <4> QED
        BY <3>1, <4>4 DEF LoopKnows
    <3> QED
      BY <3>2, <3>3
  <2>4. \A d \in Docs : rows[d] \in Titles => attested'[rows[d]] = attested[rows[d]]
    BY <2>1, <2>2 DEF NotSeenBut
  <2>5. ToldIsAttested'
    BY <1>3, <2>1, <2>2 DEF ToldIsAttested
  <2> QED
    BY <1>3, <2>1, <2>3, <2>4, <2>5
<1> QED
  BY <1>4, <1>5

\* The task of h is t', the others' tasks stay.
LEMMA OnlyTask ==
  ASSUME FormInv, NEW h \in Handlers, NEW u, work' = [work EXCEPT ![h] = u]
  PROVE  /\ work'[h] = u /\ \A o \in Handlers \ {h} : work'[o] = work[o]
         /\ \A o \in Handlers \ {h} : o \in Loops' <=> o \in Loops
         /\ \A o \in Handlers \ {h} : Holds(o)' <=> Holds(o)
         /\ u \in FormTask \cup {None} => WorkIn(FormTask)'
BY DEF FormInv, WorkIn, Loops, IsLoop, Holds, At

\* A loop has written its item's attestation and goes on to the next request of it.
LEMMA LoopGoesOn ==
  ASSUME FormInv, NEW h \in Loops, NEW item \in work[h].todo, WritesItem(h, item),
         NEW step \in {"upload", "finalize"}, attested'[work[h].title[item]] # None,
         attested'[work[h].title[item]].of = item,
         attested'[work[h].title[item]].state = (IF step = "upload" THEN "created" ELSE "uploaded"),
         NotSeenBut(h, work[h].title[item]),
         Continue(h, [work[h] EXCEPT !.step = step, !.item = item]),
         UNCHANGED <<rows, outcome, sending, astray, formInput>>
  PROVE  FormInv'
<1>1. PICK t : t = work[h]
  OBVIOUS
<1>2. t \in LoopTask /\ LoopKnows(t) /\ h \in Handlers /\ t # None
  BY <1>1, LoopIsKnown
<1>3. PICK u : u = [t EXCEPT !.step = step, !.item = item]
  OBVIOUS
<1>4. /\ u \in LoopTask /\ u.step = step /\ u.todo = t.todo /\ u.item = item
      /\ u.entry = t.entry /\ u.told = t.told /\ u.title = t.title
  <2>1. item \in Items
    BY <1>1, <1>2, LoopFields
  <2> QED
    BY <1>2, <1>3, <2>1 DEF LoopTask
<1>5. work' = [work EXCEPT ![h] = u]
  BY <1>1, <1>3 DEF Continue
<1>6. /\ work'[h] = u /\ \A o \in Handlers \ {h} : work'[o] = work[o]
      /\ \A o \in Handlers \ {h} : o \in Loops' <=> o \in Loops
      /\ \A o \in Handlers \ {h} : Holds(o)' <=> Holds(o)
      /\ WorkIn(FormTask)'
  BY <1>2, <1>4, <1>5, OnlyTask, LoopFields
<1>7. /\ attested' \in [Titles -> Attested \cup {None}]
      /\ \A v \in LoopTask : (\E o \in Loops \ {h} : work[o] = v) => LoopKnows(v)'
      /\ \A d \in Docs : rows[d] \in Titles => attested'[rows[d]] = attested[rows[d]]
      /\ ToldIsAttested'
  BY OthersKept DEF formInput
<1>8. Loops' \subseteq Loops
  BY <1>6 DEF Loops
<1>9. FormTypeOK'
  BY <1>7 DEF FormInv, FormTypeOK, formInput
<1>10. LoopsKnow'
  <2> SUFFICES ASSUME NEW o \in Loops' PROVE LoopKnows(work[o])'
    BY DEF LoopsKnow
  <2>1. CASE o = h
    <3>1. LoopKnows(u)'
      BY <1>1, <1>2, <1>4, <1>5, LoopFields DEF LoopKnows, Created, formInput
    <3> QED
      BY <1>6, <2>1, <3>1 DEF LoopKnows, Created
  <2>2. CASE o # h
    <3>1. o \in Loops \ {h} /\ work'[o] = work[o] /\ work[o] \in LoopTask
      BY <1>6, <1>8, <2>2, LoopIsKnown
    <3>2. PICK v \in LoopTask : v = work[o]
      BY <3>1
    <3>3. LoopKnows(v)'
      BY <1>7, <3>1, <3>2
    <3> QED
      BY <3>1, <3>2, <3>3 DEF LoopKnows, Created
  <2> QED
    BY <2>1, <2>2
<1>11. MadeByOne'
  <2>1. Created(u) = t.title[item]
    BY <1>4 DEF Created
  <2>2. \A o \in Handlers \ {h} : Holds(o)' => Created(work'[o]) # Created(work'[h])
    BY <1>1, <1>6, <2>1 DEF NotSeenBut
  <2> QED
    BY <1>6, <2>2 DEF FormInv, MadeByOne
<1>12. RowsAreOfFiles' /\ OneLoop' /\ HashIsOfRecord' /\ ToldIsAttested'
  BY <1>7, <1>8 DEF FormInv, RowsAreOfFiles, OneLoop, HashIsOfRecord, formInput
<1> QED
  BY <1>6, <1>9, <1>10, <1>11, <1>12 DEF FormInv

\* A loop is done with its item: the attestation is finalized and shown, or something else is.
LEMMA LoopItemDone ==
  ASSUME FormInv, NEW h \in Loops, NEW item \in work[h].todo, WritesItem(h, item),
         NEW result \in Result, Done(h, item, result), UNCHANGED formInput,
         result = "refused" \/ /\ result = work[h].title[item]
                               /\ attested'[result] # None /\ attested'[result].of = item
                               /\ attested'[result].state = "validating"
  PROVE  FormInv'
<1>1. PICK t : t = work[h]
  OBVIOUS
<1>2. t \in LoopTask /\ LoopKnows(t) /\ h \in Handlers /\ t # None
  BY <1>1, LoopIsKnown
<1>3. PICK u : u = IF t.todo \ {item} = {} THEN None
                   ELSE [t EXCEPT !.step = "create", !.todo = t.todo \ {item}, !.item = None]
  OBVIOUS
<1>4. u # None => /\ u \in LoopTask /\ u.step = "create" /\ u.todo = t.todo \ {item}
                  /\ u.item = None /\ u.entry = t.entry /\ u.told = t.told /\ u.title = t.title
  <2>1. t.todo \ {item} \in SUBSET Items
    BY <1>2, LoopFields
  <2> QED
    BY <1>2, <1>3, <2>1 DEF LoopTask
<1>5. work' = [work EXCEPT ![h] = u]
  BY <1>1, <1>3 DEF Done, Finish, Continue
<1>6. /\ work'[h] = u /\ \A o \in Handlers \ {h} : work'[o] = work[o]
      /\ \A o \in Handlers \ {h} : o \in Loops' <=> o \in Loops
      /\ \A o \in Handlers \ {h} : Holds(o)' <=> Holds(o)
      /\ WorkIn(FormTask)'
  BY <1>2, <1>4, <1>5, OnlyTask, LoopFields
<1>7. /\ attested' \in [Titles -> Attested \cup {None}]
      /\ \A v \in LoopTask : (\E o \in Loops \ {h} : work[o] = v) => LoopKnows(v)'
      /\ \A d \in Docs : rows[d] \in Titles => attested'[rows[d]] = attested[rows[d]]
      /\ ToldIsAttested'
  BY OthersKept DEF formInput
<1>8. IF t.todo \ {item} = {}
        THEN /\ Loops' = Loops \ {h} /\ sending' = FALSE /\ astray' = (astray /\ Loops # {h})
        ELSE /\ Loops' \subseteq Loops /\ UNCHANGED <<sending, astray>>
  <2>1. Loops' \subseteq Loops
    BY <1>6 DEF Loops
  <2>2. CASE t.todo \ {item} = {}
    <3>1. h \notin Loops'
      BY <1>3, <1>6, <2>2 DEF Loops, IsLoop
    <3> QED
      BY <1>1, <1>6, <2>1, <2>2, <3>1 DEF Done, Loops
  <2>3. CASE t.todo \ {item} # {}
    BY <1>1, <2>1, <2>3 DEF Done
  <2> QED
    BY <2>2, <2>3
<1>9. /\ outcome' \in Result \cup {None}
      /\ rows' \in [Docs -> Result \cup {"absent", "hashing", "ready", "unreadable"}]
      /\ \A d \in Docs : rows'[d] # rows[d] => d = item /\ rows'[d] = result
  BY <1>1 DEF Done, Marked, FormInv, FormTypeOK
<1>10. FormTypeOK'
  <2>1. sending' \in BOOLEAN /\ astray' \in BOOLEAN
    BY <1>8 DEF FormInv, FormTypeOK
  <2> QED
    BY <1>7, <1>9, <2>1 DEF FormInv, FormTypeOK, formInput
<1>11. LoopsKnow'
  <2> SUFFICES ASSUME NEW o \in Loops' PROVE LoopKnows(work[o])'
    BY DEF LoopsKnow
  <2>1. CASE o = h
    <3>1. u # None
      BY <1>6, <2>1 DEF Loops, IsLoop
    <3>2. LoopKnows(u)'
      BY <1>2, <1>4, <3>1 DEF LoopKnows, formInput
    <3> QED
      BY <1>6, <2>1, <3>2 DEF LoopKnows, Created
  <2>2. CASE o # h
    <3>1. o \in Loops \ {h} /\ work'[o] = work[o] /\ work[o] \in LoopTask
      BY <1>6, <2>2, LoopIsKnown DEF Loops
    <3>2. PICK v \in LoopTask : v = work[o]
      BY <3>1
    <3>3. LoopKnows(v)'
      BY <1>7, <3>1, <3>2
    <3> QED
      BY <3>1, <3>2, <3>3 DEF LoopKnows, Created
  <2> QED
    BY <2>1, <2>2
<1>12. MadeByOne'
  <2>1. ~Holds(h)'
    BY <1>4, <1>6 DEF Holds, At
  <2> QED
    BY <1>6, <2>1 DEF FormInv, MadeByOne
<1>13. RowsAreOfFiles'
  <2> SUFFICES ASSUME NEW d \in Docs, rows'[d] \in Titles
               PROVE  /\ attested'[rows'[d]] # None /\ attested'[rows'[d]].of = d
                      /\ attested'[rows'[d]].state \in {"validating", "confirmed"}
    BY DEF RowsAreOfFiles
  <2>1. CASE rows'[d] = rows[d]
    BY <1>7, <2>1 DEF FormInv, RowsAreOfFiles
  <2>2. CASE rows'[d] # rows[d]
    BY <1>9, <2>2, FormConstantsOK
  <2> QED
    BY <2>1, <2>2
<1>14. OneLoop'
  BY <1>8 DEF FormInv, OneLoop
<1>15. HashIsOfRecord'
  BY DEF FormInv, HashIsOfRecord, formInput
<1> QED
  BY <1>6, <1>7, <1>10, <1>11, <1>12, <1>13, <1>14, <1>15 DEF FormInv

\* The user changes the form; a change under a loop is marked.
LEMMA FormChanges ==
  ASSUME FormInv, UNCHANGED <<work, attested, early>>, FormTypeOK', HashIsOfRecord',
         \A d \in Docs : rows'[d] \in Titles => rows'[d] = rows[d],
         astray' = (astray \/ Loops # {}) \/ UNCHANGED <<sending, astray>>
  PROVE  FormInv'
<1>1. WorkIn(FormTask)' /\ MadeByOne' /\ ToldIsAttested' /\ Loops' = Loops
  BY DEF FormInv, WorkIn, MadeByOne, Holds, At, Created, ToldIsAttested, Loops, IsLoop
<1>2. LoopsKnow'
  BY <1>1 DEF FormInv, LoopsKnow, LoopKnows, Created
<1>3. RowsAreOfFiles'
  BY DEF FormInv, RowsAreOfFiles
<1>4. OneLoop'
  BY <1>1 DEF FormInv, OneLoop
<1> QED
  BY <1>1, <1>2, <1>3, <1>4 DEF FormInv

\* Files that are hashed are no loop: the loops, and what they hold, stay.
LEMMA HashTaskOnly ==
  ASSUME FormInv, NEW h \in Handlers, ~IsLoop(work[h]), NEW u \in FormTask \cup {None},
         u # None => u.step = "hash", work' = [work EXCEPT ![h] = u],
         UNCHANGED <<attested, early, record, recordHash, computing, sending>>, FormTypeOK',
         \A d \in Docs : rows'[d] \notin Titles, astray' = (astray \/ Loops # {})
  PROVE  FormInv'
<1>1. /\ work'[h] = u /\ \A o \in Handlers \ {h} : work'[o] = work[o]
      /\ \A o \in Handlers \ {h} : o \in Loops' <=> o \in Loops
      /\ \A o \in Handlers \ {h} : Holds(o)' <=> Holds(o)
      /\ WorkIn(FormTask)'
  BY OnlyTask
<1>2. Loops' = Loops /\ ~Holds(h)' /\ h \notin Loops
  <2>1. h \notin Loops /\ h \notin Loops' /\ ~Holds(h)'
    BY <1>1 DEF Loops, IsLoop, Holds, At
  <2> QED
    BY <1>1, <2>1 DEF Loops
<1>3. LoopsKnow'
  BY <1>1, <1>2 DEF FormInv, LoopsKnow, LoopKnows, Created, Loops
<1>4. MadeByOne'
  BY <1>1, <1>2 DEF FormInv, MadeByOne
<1>5. RowsAreOfFiles' /\ OneLoop' /\ HashIsOfRecord' /\ ToldIsAttested'
  BY <1>2 DEF FormInv, RowsAreOfFiles, OneLoop, HashIsOfRecord, ToldIsAttested
<1> QED
  BY <1>1, <1>3, <1>4, <1>5 DEF FormInv

\* Files are chosen: none is submitted.
LEMMA SelectFilesOK ==
  ASSUME FormInv, NEW h \in Handlers, NEW files \in SUBSET Docs, SelectFiles(h, files)
  PROVE  FormInv'
<1>1. work[h] = None /\ ~IsLoop(work[h])
  BY DEF SelectFiles, IsLoop
<1>2. \A d \in Docs : rows'[d] \notin Titles
  BY FormConstantsOK DEF SelectFiles
<1>3. FormTypeOK'
  <2>1. rows' \in [Docs -> Result \cup {"absent", "hashing", "ready", "unreadable"}]
    BY DEF SelectFiles
  <2>2. hashingFiles' \in BOOLEAN /\ astray' \in BOOLEAN
    BY DEF SelectFiles, FormInv, FormTypeOK
  <2> QED
    BY <2>1, <2>2 DEF SelectFiles, FormInv, FormTypeOK
<1>4. PICK u \in FormTask \cup {None} :
        (u # None => u.step = "hash") /\ work' = [work EXCEPT ![h] = u]
  <2>1. CASE files = {}
    <3>1. work' = [work EXCEPT ![h] = None]
      BY <1>1, <2>1 DEF SelectFiles, FormInv, WorkIn
    <3> QED
      BY <3>1
  <2>2. CASE files # {}
    <3>1. [step |-> "hash", files |-> files] \in FormTask
      BY DEF FormTask
    <3> QED
      BY <2>2, <3>1 DEF SelectFiles, Begin
  <2> QED
    BY <2>1, <2>2
<1> QED
  BY <1>1, <1>2, <1>3, <1>4, HashTaskOnly DEF SelectFiles

\* The rows are the files hashed: none is submitted.
LEMMA FilesHashedOK ==
  ASSUME FormInv, NEW h \in Handlers, NEW unreadable \in SUBSET Docs, FilesHashed(h, unreadable)
  PROVE  FormInv'
<1>1. ~IsLoop(work[h])
  BY DEF FilesHashed, At, IsLoop
<1>2. \A d \in Docs : rows'[d] \in {"unreadable", "ready", "absent"}
  <2> SUFFICES ASSUME NEW d \in Docs PROVE rows'[d] \in {"unreadable", "ready", "absent"}
    OBVIOUS
  <2> QED
    BY DEF FilesHashed
<1>3. FormTypeOK'
  <2>1. rows' \in [Docs -> Result \cup {"absent", "hashing", "ready", "unreadable"}]
    BY <1>2 DEF FilesHashed
  <2>2. hashingFiles' \in BOOLEAN /\ astray' \in BOOLEAN
    BY DEF FilesHashed, FormInv, FormTypeOK
  <2> QED
    BY <2>1, <2>2 DEF FilesHashed, FormInv, FormTypeOK
<1>4. work' = [work EXCEPT ![h] = None] /\ None \in FormTask \cup {None}
  BY DEF FilesHashed, Finish, Continue
<1> QED
  BY <1>1, <1>2, <1>3, <1>4, HashTaskOnly, FormConstantsOK DEF FilesHashed

\* A file is removed from the form.
LEMMA RemoveFileOK == ASSUME FormInv, NEW d \in Docs, RemoveFile(d) PROVE FormInv'
<1>1. FormTypeOK'
  BY DEF RemoveFile, FormInv, FormTypeOK
<1>2. \A e \in Docs : rows'[e] \in Titles => rows'[e] = rows[e]
  BY FormConstantsOK DEF RemoveFile, FormInv, FormTypeOK
<1> QED
  BY <1>1, <1>2, FormChanges DEF RemoveFile, FormInv, HashIsOfRecord

\* Another kind of entry is chosen.
LEMMA ChooseEntryOK == ASSUME FormInv, NEW e \in Entries, ChooseEntry(e) PROVE FormInv'
<1>1. rows' \in [Docs -> Result \cup {"absent", "hashing", "ready", "unreadable"}]
      /\ \A d \in Docs : rows'[d] \in Titles => rows'[d] = rows[d]
  BY FormConstantsOK DEF ChooseEntry, FormInv, FormTypeOK
<1>2. FormTypeOK'
  <2>1. astray' \in BOOLEAN /\ outcome' \in Result \cup {None} /\ external' \in Docs \cup {None}
    BY DEF ChooseEntry, FormInv, FormTypeOK
  <2> QED
    BY <1>1, <2>1 DEF ChooseEntry, FormInv, FormTypeOK
<1> QED
  BY <1>1, <1>2, FormChanges DEF ChooseEntry, FormInv, HashIsOfRecord

\* A hash is typed.
LEMMA TypeHashOK == ASSUME FormInv, NEW d \in Docs, TypeHash(d) PROVE FormInv'
<1>1. FormTypeOK'
  BY DEF TypeHash, FormInv, FormTypeOK
<1> QED
  BY <1>1, FormChanges DEF TypeHash, FormInv, HashIsOfRecord

\* The record is edited, and its hash is being computed.
LEMMA EditRecordOK == ASSUME FormInv, NEW r \in Records, EditRecord(r) PROVE FormInv'
<1>1. FormTypeOK' /\ HashIsOfRecord'
  BY DEF EditRecord, FormInv, FormTypeOK, HashIsOfRecord
<1> QED
  BY <1>1, FormChanges DEF EditRecord

\* The hash that is computed is that of the record in the form.
LEMMA RecordHashedOK == ASSUME FormInv, NEW r \in Records, RecordHashed(r) PROVE FormInv'
<1>1. FormTypeOK'
  BY DEF RecordHashed, FormInv, FormTypeOK
<1>2. HashIsOfRecord'
  BY DEF RecordHashed, FormInv, HashIsOfRecord
<1> QED
  BY <1>1, <1>2, FormChanges DEF RecordHashed

\* The form is reset.
LEMMA ResetOK == ASSUME FormInv, Reset PROVE FormInv'
<1>1. \A d \in Docs : rows'[d] = "absent"
  BY DEF Reset
<1>2. FormTypeOK'
  <2>1. rows' \in [Docs -> Result \cup {"absent", "hashing", "ready", "unreadable"}]
    BY DEF Reset
  <2>2. hashingFiles' \in BOOLEAN /\ sending' \in BOOLEAN /\ astray' \in BOOLEAN
    BY DEF Reset, FormInv, FormTypeOK
  <2> QED
    BY <2>1, <2>2 DEF Reset, FormInv, FormTypeOK, Entries
<1> QED
  BY <1>1, <1>2, FormChanges, FormConstantsOK DEF Reset, FormInv, HashIsOfRecord

\* A loop begins: nothing is being sent, so no other is under way, but astray ones; and a
\* release is told with the record it is the hash of, or early.
LEMMA SubmitFormOK ==
  ASSUME FormInv, NEW h \in Handlers, NEW title \in [ToSend -> Titles], SubmitForm(h, title)
  PROVE  FormInv'
<1>1. PICK u : /\ u = [step |-> "create", entry |-> entry, todo |-> ToSend, item |-> None,
                       told |-> IF entry = "release" THEN record ELSE None, title |-> title]
               /\ work[h] = None /\ work' = [work EXCEPT ![h] = u]
  BY DEF SubmitForm, Begin
<1>2. ToSend \subseteq Items /\ (entry = "file" => ToSend \subseteq Docs)
      /\ (entry = "release" => ToSend = {recordHash})
  BY DEF SubmitForm, CanSubmit, ToSend, Listed, Items, FormInv, FormTypeOK, Entries
<1>3. u \in LoopTask
  BY <1>1, <1>2 DEF LoopTask, FormInv, FormTypeOK
<1>4. /\ work'[h] = u /\ \A o \in Handlers \ {h} : work'[o] = work[o]
      /\ \A o \in Handlers \ {h} : o \in Loops' <=> o \in Loops
      /\ \A o \in Handlers \ {h} : Holds(o)' <=> Holds(o)
      /\ WorkIn(FormTask)'
  BY <1>1, <1>3, OnlyTask, LoopFields
<1>5. ~sending /\ early \subseteq early'
  BY DEF SubmitForm, CanSubmit, Locked
<1>6. entry = "release" => recordHash = record \/ title[recordHash] \in early'
  BY DEF SubmitForm, FormInv, HashIsOfRecord
<1>7. FormTypeOK'
  <2>1. early' \subseteq Titles
    BY <1>2 DEF SubmitForm, FormInv, FormTypeOK
  <2> QED
    BY <2>1 DEF SubmitForm, FormInv, FormTypeOK
<1>8. LoopsKnow'
  <2> SUFFICES ASSUME NEW o \in Loops' PROVE LoopKnows(work[o])'
    BY DEF LoopsKnow
  <2>1. CASE o = h
    <3>1. /\ u.todo = ToSend /\ u.title = title /\ DOMAIN u.title = ToSend /\ u.entry = entry
          /\ u.step = "create" /\ u.item = None
          /\ u.told = IF entry = "release" THEN record ELSE None
      BY <1>1
    <3>2. \A i \in u.todo : u.told \in {None, i} \/ u.title[i] \in early'
      BY <1>2, <1>6, <3>1
    <3>3. LoopKnows(u)'
      BY <1>2, <3>1, <3>2 DEF LoopKnows
    <3> QED
      BY <1>4, <2>1, <3>3 DEF LoopKnows, Created
  <2>2. CASE o # h
    <3>1. o \in Loops /\ work'[o] = work[o]
      BY <1>4, <2>2 DEF Loops
    <3>2. PICK v : v = work[o] /\ LoopKnows(v)
      BY <3>1, LoopIsKnown
    <3>3. LoopKnows(v)'
      BY <1>5, <3>2 DEF LoopKnows, SubmitForm
    <3> QED
      BY <3>1, <3>2, <3>3 DEF LoopKnows, Created
  <2> QED
    BY <2>1, <2>2
<1>9. MadeByOne'
  <2>1. ~Holds(h)'
    BY <1>1, <1>4 DEF Holds, At
  <2> QED
    BY <1>4, <2>1 DEF FormInv, MadeByOne
<1>10. OneLoop'
  <2>1. astray \/ Loops = {}
    BY <1>5 DEF FormInv, OneLoop
  <2> QED
    BY <1>4, <2>1 DEF OneLoop, Loops, SubmitForm
<1>11. RowsAreOfFiles' /\ HashIsOfRecord' /\ ToldIsAttested'
  BY <1>5 DEF FormInv, RowsAreOfFiles, HashIsOfRecord, ToldIsAttested, SubmitForm
<1> QED
  BY <1>4, <1>7, <1>8, <1>9, <1>10, <1>11 DEF FormInv

\* An item is created under its title, which the project has not, or is refused.
LEMMA CreateOK ==
  ASSUME FormInv, NEW h \in Handlers, NEW item \in Items, NEW lost \in BOOLEAN,
         Create(h, item, lost)
  PROVE  FormInv'
<1>1. h \in Loops /\ item \in work[h].todo /\ UNCHANGED formInput
  BY DEF Create, At, Loops, IsLoop
<1>2. PICK t : t = work[h]
  OBVIOUS
<1>3. t \in LoopTask /\ LoopKnows(t)
  BY <1>1, <1>2, LoopIsKnown
<1>4. PICK n \in Titles : n = t.title[item]
  BY <1>1, <1>2, <1>3, LoopFields DEF LoopKnows
<1>5. CASE attested[n] # None
  <2>1. Done(h, item, "refused") /\ attested' = attested
    BY <1>2, <1>4, <1>5 DEF Create
  <2> QED
    BY <1>1, <2>1, LoopItemDone DEF WritesItem, Result
<1>6. CASE attested[n] = None
  <2>1. PICK a : /\ a = [of |-> item, told |-> IF t.told = None THEN item ELSE t.told,
                         state |-> "created"]
                 /\ attested' = [attested EXCEPT ![n] = a]
                 /\ Answered(h, item, lost, "upload")
    BY <1>2, <1>4, <1>6 DEF Create
  <2>2. a \in Attested /\ a.of = item /\ a.state = "created" /\ (n \notin early => a.told = item)
    BY <1>1, <1>2, <1>3, <1>4, <2>1, LoopFields DEF Attested, LoopKnows, Items
  <2>3. attested'[n] = a /\ a # None
    BY <2>1, <2>2, FormConstantsOK DEF FormInv, FormTypeOK
  <2>4. NotSeenBut(h, n)
    BY <1>1, <1>2, <1>4, <1>6, ItemNotSeen
  <2>5. WritesItem(h, item)
    BY <1>2, <1>4, <2>1, <2>2, <2>3, <2>4 DEF WritesItem
  <2>6. CASE lost
    BY <1>1, <2>1, <2>5, <2>6, LoopItemDone DEF Answered, Result
  <2>7. CASE ~lost
    <3>1. /\ Continue(h, [work[h] EXCEPT !.step = "upload", !.item = item])
          /\ UNCHANGED <<rows, outcome, sending, astray>>
      BY <2>1, <2>7 DEF Answered
    <3> QED
      BY <1>1, <1>2, <1>4, <2>2, <2>3, <2>4, <2>5, <3>1, LoopGoesOn
  <2> QED
    BY <2>6, <2>7
<1> QED
  BY <1>5, <1>6

\* The manifest of the attestation that the loop made is uploaded.
LEMMA UploadOK ==
  ASSUME FormInv, NEW h \in Handlers, NEW lost \in BOOLEAN, Upload(h, lost) PROVE FormInv'
<1>1. PICK t : t = work[h]
  OBVIOUS
<1>2. h \in Loops /\ Holds(h) /\ t.step = "upload" /\ UNCHANGED formInput
  BY <1>1 DEF Upload, At, Loops, IsLoop, Holds
<1>3. t \in LoopTask /\ LoopKnows(t) /\ t.item \in t.todo
  BY <1>1, <1>2, LoopIsKnown DEF LoopKnows
<1>4. PICK n \in Titles : n = t.title[t.item]
  BY <1>3, LoopFields DEF LoopKnows
<1>5. attested[n] \in Attested /\ attested[n].of = t.item
  BY <1>2, <1>3, <1>4 DEF LoopKnows, Created, FormInv, FormTypeOK
<1>6. PICK a : /\ a = [attested[n] EXCEPT !.state = "uploaded"]
               /\ attested' = [attested EXCEPT ![n] = a]
               /\ Answered(h, t.item, lost, "finalize")
  BY <1>1, <1>4 DEF Upload
<1>7. a \in Attested /\ a.of = t.item /\ a.state = "uploaded" /\ (n \notin early => a.told = t.item)
  BY <1>4, <1>5, <1>6, FormConstantsOK DEF Attested, FormInv, ToldIsAttested
<1>8. attested'[n] = a /\ a # None
  BY <1>6, <1>7, FormConstantsOK DEF FormInv, FormTypeOK
<1>9. NotSeenBut(h, n)
  BY <1>1, <1>2, <1>3, <1>4, ItemNotSeen
<1>10. WritesItem(h, t.item)
  BY <1>1, <1>4, <1>6, <1>7, <1>8, <1>9 DEF WritesItem
<1>11. CASE lost
  BY <1>1, <1>2, <1>3, <1>6, <1>10, <1>11, LoopItemDone DEF Answered, Result
<1>12. CASE ~lost
  <2>1. /\ Continue(h, [work[h] EXCEPT !.step = "finalize", !.item = t.item])
        /\ UNCHANGED <<rows, outcome, sending, astray>>
    BY <1>6, <1>12 DEF Answered
  <2> QED
    BY <1>1, <1>2, <1>3, <1>4, <1>7, <1>8, <1>9, <1>10, <2>1, LoopGoesOn
<1> QED
  BY <1>11, <1>12

\* The attestation is finalized: its row, if it is there, shows it, unless the answer is lost.
LEMMA FinalizeOK ==
  ASSUME FormInv, NEW h \in Handlers, NEW lost \in BOOLEAN, Finalize(h, lost) PROVE FormInv'
<1>1. PICK t : t = work[h]
  OBVIOUS
<1>2. h \in Loops /\ Holds(h) /\ t.step = "finalize" /\ UNCHANGED formInput
  BY <1>1 DEF Finalize, At, Loops, IsLoop, Holds
<1>3. t \in LoopTask /\ LoopKnows(t) /\ t.item \in t.todo
  BY <1>1, <1>2, LoopIsKnown DEF LoopKnows
<1>4. PICK n \in Titles : n = t.title[t.item]
  BY <1>3, LoopFields DEF LoopKnows
<1>5. attested[n] \in Attested /\ attested[n].of = t.item
  BY <1>2, <1>3, <1>4 DEF LoopKnows, Created, FormInv, FormTypeOK
<1>6. PICK a : /\ a = [attested[n] EXCEPT !.state = "validating"]
               /\ attested' = [attested EXCEPT ![n] = a]
               /\ Done(h, t.item, IF lost THEN "refused" ELSE n)
  BY <1>1, <1>4 DEF Finalize
<1>7. /\ a \in Attested /\ a.of = t.item /\ a.state = "validating"
      /\ n \notin early => a.told = t.item
  BY <1>4, <1>5, <1>6, FormConstantsOK DEF Attested, FormInv, ToldIsAttested
<1>8. attested'[n] = a /\ a # None
  BY <1>6, <1>7, FormConstantsOK DEF FormInv, FormTypeOK
<1>9. NotSeenBut(h, n)
  BY <1>1, <1>2, <1>3, <1>4, ItemNotSeen
<1>10. WritesItem(h, t.item)
  BY <1>1, <1>4, <1>6, <1>7, <1>8, <1>9 DEF WritesItem
<1>11. PICK result \in Result : result = IF lost THEN "refused" ELSE n
  BY DEF Result
<1>12. result = "refused" \/ /\ result = work[h].title[t.item]
                             /\ attested'[result] # None /\ attested'[result].of = t.item
                             /\ attested'[result].state = "validating"
  BY <1>1, <1>4, <1>7, <1>8, <1>11
<1> QED
  BY <1>1, <1>2, <1>3, <1>6, <1>10, <1>11, <1>12, LoopItemDone

\* A request fails: its item shows so.
LEMMA CallFailsOK == ASSUME FormInv, NEW h \in Handlers, CallFails(h) PROVE FormInv'
<1>1. h \in Loops
  BY DEF CallFails, Loops
<1>2. PICK t : t = work[h]
  OBVIOUS
<1>3. LoopKnows(t) /\ t \in LoopTask
  BY <1>1, <1>2, LoopIsKnown
<1>4. PICK item \in t.todo : Done(h, item, "refused")
  BY <1>2, <1>3, LoopFields, FormConstantsOK DEF CallFails, LoopKnows
<1> QED
  BY <1>1, <1>2, <1>4, LoopItemDone DEF CallFails, WritesItem, Result

\* The worker confirms what was finalized.
LEMMA ConfirmOK == ASSUME FormInv, NEW n \in Titles, Confirm(n) PROVE FormInv'
<1>1. PICK a : a = [attested[n] EXCEPT !.state = "confirmed"] /\ attested' = [attested EXCEPT ![n] = a]
  BY DEF Confirm
<1>2. attested[n] \in Attested /\ attested[n].state = "validating"
  BY DEF Confirm, FormInv, FormTypeOK
<1>3. a \in Attested /\ a # None /\ a.of = attested[n].of /\ a.told = attested[n].told
      /\ a.state = "confirmed"
  BY <1>1, <1>2, FormConstantsOK DEF Attested
<1>4. \A m \in Titles : attested'[m] = IF m = n THEN a ELSE attested[m]
  BY <1>1 DEF FormInv, FormTypeOK
<1>5. FormTypeOK'
  <2>1. attested' \in [Titles -> Attested \cup {None}]
    BY <1>1, <1>3 DEF FormInv, FormTypeOK
  <2> QED
    BY <2>1 DEF Confirm, FormInv, FormTypeOK
<1>6. WorkIn(FormTask)' /\ MadeByOne' /\ OneLoop' /\ HashIsOfRecord' /\ Loops' = Loops
  BY DEF Confirm, FormInv, WorkIn, MadeByOne, Holds, At, Created, OneLoop, HashIsOfRecord, Loops, IsLoop
<1>7. LoopsKnow'
  <2> SUFFICES ASSUME NEW o \in Loops PROVE LoopKnows(work[o])'
    BY <1>6 DEF LoopsKnow
  <2>1. PICK v : v = work[o] /\ v \in LoopTask /\ LoopKnows(v)
    BY LoopIsKnown
  <2>2. LoopKnows(v)'
    <3>1. CASE v.step = "create"
      BY <2>1, <3>1 DEF LoopKnows, Confirm
    <3>2. CASE v.step # "create"
      <4>1. Created(v) \in Titles /\ Created(v) # n
        BY <1>2, <2>1, <3>2, LoopFields DEF LoopKnows, Created
      <4>2. attested'[Created(v)] = attested[Created(v)]
        BY <1>4, <4>1
      <4> QED
        BY <2>1, <4>2 DEF LoopKnows, Confirm
    <3> QED
      BY <3>1, <3>2
  <2> QED
    BY <2>1, <2>2 DEF LoopKnows, Created, Confirm
<1>8. RowsAreOfFiles' /\ ToldIsAttested'
  BY <1>2, <1>3, <1>4 DEF FormInv, RowsAreOfFiles, ToldIsAttested, Confirm
<1> QED
  BY <1>5, <1>6, <1>7, <1>8 DEF FormInv

\* Every step keeps the invariant.
LEMMA FormStepOK == ASSUME FormInv, [FormNext]_<<work, formVars>> PROVE FormInv'
<1>1. ASSUME NEW h \in Handlers, NEW files \in SUBSET Docs,
             SelectFiles(h, files) \/ FilesHashed(h, files)
      PROVE  FormInv'
  BY <1>1, SelectFilesOK, FilesHashedOK
<1>2. ASSUME NEW h \in Handlers, NEW title \in [ToSend -> Titles], SubmitForm(h, title)
      PROVE  FormInv'
  BY <1>2, SubmitFormOK
<1>3. ASSUME NEW h \in Handlers, NEW lost \in BOOLEAN, NEW item \in Items, Create(h, item, lost)
      PROVE  FormInv'
  BY <1>3, CreateOK
<1>4. ASSUME NEW h \in Handlers, NEW lost \in BOOLEAN, Upload(h, lost) \/ Finalize(h, lost)
      PROVE  FormInv'
  BY <1>4, UploadOK, FinalizeOK
<1>5. ASSUME NEW h \in Handlers, CallFails(h) PROVE FormInv'
  BY <1>5, CallFailsOK
<1>6. ASSUME NEW d \in Docs, RemoveFile(d) \/ TypeHash(d) PROVE FormInv'
  BY <1>6, RemoveFileOK, TypeHashOK
<1>7. ASSUME NEW e \in Entries, ChooseEntry(e) PROVE FormInv'
  BY <1>7, ChooseEntryOK
<1>8. ASSUME NEW r \in Records, EditRecord(r) \/ RecordHashed(r) PROVE FormInv'
  BY <1>8, EditRecordOK, RecordHashedOK
<1>9. ASSUME Leave \/ OpenConfirmed PROVE FormInv'
  BY <1>9, ResetOK DEF Leave, OpenConfirmed
<1>10. ASSUME NEW n \in Titles, Confirm(n) PROVE FormInv'
  BY <1>10, ConfirmOK
<1>11. CASE UNCHANGED <<work, formVars>>
  <2>1. FormTypeOK' /\ HashIsOfRecord'
    BY <1>11 DEF formVars, FormInv, FormTypeOK, HashIsOfRecord
  <2> QED
    BY <1>11, <2>1, FormChanges DEF formVars
<1> QED
  BY <1>1, <1>2, <1>3, <1>4, <1>5, <1>6, <1>7, <1>8, <1>9, <1>10, <1>11 DEF FormNext

\* The form is empty; the hash of its record is being computed.
LEMMA FormInitOK == ASSUME NoWork, FormInit PROVE FormInv
<1>1. Loops = {} /\ WorkIn(FormTask) /\ \A h \in Handlers : ~Holds(h)
  BY DEF NoWork, WorkIn, Loops, IsLoop, Holds, At
<1>2. FormTypeOK
  <2>1. attested \in [Titles -> Attested \cup {None}]
        /\ rows \in [Docs -> Result \cup {"absent", "hashing", "ready", "unreadable"}]
    BY DEF FormInit
  <2>2. hashingFiles \in BOOLEAN /\ sending \in BOOLEAN /\ astray \in BOOLEAN
    BY DEF FormInit
  <2> QED
    BY <2>1, <2>2 DEF FormInit, FormTypeOK, Entries
<1>3. RowsAreOfFiles
  BY FormConstantsOK DEF FormInit, RowsAreOfFiles
<1>4. LoopsKnow /\ MadeByOne /\ OneLoop /\ HashIsOfRecord /\ ToldIsAttested
  BY <1>1 DEF FormInit, LoopsKnow, MadeByOne, OneLoop, HashIsOfRecord, ToldIsAttested
<1> QED
  BY <1>1, <1>2, <1>3, <1>4 DEF FormInv

\* The form holds rows, results and tasks of the kinds the window expects (main.tsx of the
\* renderer keeps results as strings and objects side by side).
THEOREM FormIsTyped == FormSpec => [](FormTypeOK /\ WorkIn(FormTask))
<1>1. NoWork /\ FormInit => FormInv
  BY FormInitOK
<1>2. FormInv /\ [FormNext]_<<work, formVars>> => FormInv'
  BY FormStepOK
<1>3. FormInv => FormTypeOK /\ WorkIn(FormTask)
  BY DEF FormInv
<1> QED
  BY <1>1, <1>2, <1>3, PTL DEF FormSpec

\* What the form says of a file is true of the attestation made for it, although loops go
\* on while the user chooses, removes and leaves; one loop sends at a time unless the user
\* went astray; and a release is told with its own record unless it was early.
THEOREM SentAlwaysAsShown == FormSpec => []SentAsShown
<1>1. NoWork /\ FormInit => FormInv
  BY FormInitOK
<1>2. FormInv /\ [FormNext]_<<work, formVars>> => FormInv'
  BY FormStepOK
<1>3. FormInv => SentAsShown
  BY DEF FormInv, RowsAreOfFiles, OneLoop, ToldIsAttested, SentAsShown, Succeeded
<1> QED
  BY <1>1, <1>2, <1>3, PTL DEF FormSpec

-----------------------------------------------------------------------------
(* Tables                                                                  *)

\* Everything a table does is local to the window, whichever rows are fetched.
ListSpec == ListInit /\ [][ListNext]_listVars

\* What the tables differ in.
LEMMA TablesAre ==
  ASSUME NEW t \in Tables
  PROVE  /\ t.gate \in {"none", "rows", "matches"}
         /\ t.gate = "matches" => t = Members
         /\ t = Attestations => t.fixed /\ t.gate = "none" /\ t \notin OfDetail
<1>1. ASSUME t \in {Attestations, Projects, Workspaces, Members}
      PROVE  /\ t.gate \in {"none", "rows", "matches"}
             /\ t.gate = "matches" => t = Members
  BY <1>1 DEF Attestations, Projects, Workspaces, Members
<1>2. ASSUME t \in {Requests, Events, Verifiers, DetailEvents}
      PROVE  t.gate = "rows"
  BY <1>2 DEF Requests, Events, Verifiers, DetailEvents
<1>3. Attestations.fixed /\ Attestations.gate = "none" /\ Attestations.name = "attestations"
  BY DEF Attestations
<1>4. \A o \in OfDetail : o.name # "attestations"
  BY DEF OfDetail, Verifiers, DetailEvents
<1> QED
  BY <1>1, <1>2, <1>3, <1>4 DEF Tables

\* The rows that can be shown are finitely many numbers.
LEMMA VisibleFinite ==
  /\ Visible \in SUBSET Rows /\ Rows \in SUBSET Nat /\ IsFiniteSet(Visible)
  /\ Cardinality(Visible) \in Nat
<1>1. Visible \in SUBSET Rows /\ Rows \in SUBSET Nat /\ IsFiniteSet(Rows)
  BY ListsAssumption DEF Visible
<1>2. IsFiniteSet(Visible)
  BY <1>1, FS_Subset
<1> QED
  BY <1>1, <1>2, FS_CardinalityType

\* Sorting puts any two rows in one order, whatever the key and the direction.
LEMMA BeforeOrders ==
  /\ \A a, b \in Rows : a = b \/ Before(a, b) \/ Before(b, a)
  /\ \A a, b \in Rows : Before(a, b) => ~Before(b, a) /\ a # b
  /\ \A a, b, c \in Rows : Before(a, b) /\ Before(b, c) => Before(a, c)
<1>1. PICK key : key = [r \in Rows |-> IF sort.key = "name" THEN r ELSE Rank(MarkOf(r))]
  OBVIOUS
<1>2. \A marks : Rank(marks) \in 1..4
  BY DEF Rank
<1>3. Rows \in SUBSET Nat
  BY ListsAssumption
<1>4. \A r \in Rows : key[r] \in Int
  BY <1>1, <1>2, <1>3
<1>5. \A a, b \in Rows : Compared(a, b) = IF sort.up THEN key[a] - key[b] ELSE -(key[a] - key[b])
  BY <1>1 DEF Compared
<1>6. \A a, b \in Rows : Before(a, b) <=>
        IF sort.up THEN key[a] < key[b] \/ (key[a] = key[b] /\ a < b)
                   ELSE key[b] < key[a] \/ (key[a] = key[b] /\ a < b)
  BY <1>4, <1>5 DEF Before
<1> QED
  BY <1>3, <1>4, <1>6

\* Every row that is shown has a place of its own.
LEMMA Placed ==
  ASSUME NEW N \in Nat, N = Cardinality(Visible)
  PROVE  /\ \A x \in Visible : Place(x) \in 1..N
         /\ \A i \in 1..N : \E x \in Visible : Place(x) = i
         /\ \A x, y \in Visible : Place(x) = Place(y) => x = y
<1> DEFINE To(r) == {x \in Visible : x = r \/ Before(x, r)}
<1>1. Visible \in SUBSET Rows /\ IsFiniteSet(Visible)
  BY VisibleFinite
<1>2. \A r \in Visible : /\ IsFiniteSet(To(r)) /\ Cardinality(To(r)) \in Nat
                         /\ Cardinality(To(r)) <= N /\ Place(r) = Cardinality(To(r))
  BY <1>1, FS_Subset, FS_CardinalityType DEF Place
<1>3. \A r \in Visible : Place(r) \in 1..N
  <2>1. SUFFICES ASSUME NEW r \in Visible PROVE Place(r) \in 1..N
    OBVIOUS
  <2>2. To(r) # {}
    OBVIOUS
  <2>3. Cardinality(To(r)) # 0
    BY <1>2, <2>2, FS_EmptySet
  <2>4. PICK c \in Nat : c = Cardinality(To(r))
    BY <1>2
  <2>5. c <= N /\ c # 0 /\ Place(r) = c
    BY <1>2, <2>3, <2>4
  <2> QED
    BY <2>5
<1>4. ASSUME NEW x \in Visible, NEW y \in Visible, Before(x, y) PROVE Place(x) # Place(y)
  <2>1. To(x) \in SUBSET To(y)
    <3>1. SUFFICES ASSUME NEW z \in To(x) PROVE z \in To(y)
      OBVIOUS
    <3>2. z \in Visible /\ (z = x \/ Before(z, x))
      OBVIOUS
    <3>3. Before(z, y)
      BY <1>1, <1>4, <3>2, BeforeOrders
    <3> QED
      BY <3>2, <3>3
  <2>2. ~Before(y, x) /\ y # x
    BY <1>1, <1>4, BeforeOrders
  <2>3. y \in To(y) /\ y \notin To(x)
    BY <2>2
  <2>4. Cardinality(To(y)) # Cardinality(To(x))
    BY <1>2, <2>1, <2>3, FS_Subset
  <2> QED
    BY <1>2, <2>4
<1>5. \A x, y \in Visible : Place(x) = Place(y) => x = y
  BY <1>1, <1>4, BeforeOrders
<1>6. PICK f : f = [x \in Visible |-> Place(x)]
  OBVIOUS
<1>7. f \in [Visible -> 1..N]
  BY <1>3, <1>6
<1>8. f \in Injection(Visible, 1..N)
  BY <1>5, <1>6, <1>7, Fun_IsInj
<1>9. IsFiniteSet(1..N) /\ Cardinality(1..N) = N
  BY FS_Interval
<1>10. f \in Surjection(Visible, 1..N)
  BY <1>1, <1>8, <1>9, FS_Injection
<1>11. \A i \in 1..N : \E x \in Visible : f[x] = i
  BY <1>10 DEF Surjection
<1> QED
  BY <1>3, <1>5, <1>6, <1>11

\* The sorted rows are the rows that match, each once.
LEMMA SortedRows ==
  ASSUME NEW N \in Nat, N = Cardinality(Visible)
  PROVE  /\ Sorted \in Seq(Visible) /\ Len(Sorted) = N
         /\ \A i \in 1..N : Sorted[i] \in Visible
         /\ \A r \in Visible : \E i \in 1..N : Sorted[i] = r
<1> DEFINE Nth(i) == CHOOSE r \in Visible : Place(r) = i
<1>1. PICK s : s = Sorted
  OBVIOUS
<1>2. s = [i \in 1..N |-> Nth(i)]
  BY <1>1 DEF Sorted
<1>3. \A i \in 1..N : Nth(i) \in Visible /\ Place(Nth(i)) = i
  BY Placed
<1>4. s \in [1..N -> Visible]
  BY <1>2, <1>3
<1>5. s \in Seq(Visible) /\ Len(s) = N
  BY <1>4
<1>6. ASSUME NEW r \in Visible PROVE \E i \in 1..N : s[i] = r
  <2>1. PICK i : i = Place(r)
    OBVIOUS
  <2>2. i \in 1..N
    BY <2>1, Placed
  <2>3. Nth(i) \in Visible /\ Place(Nth(i)) = i
    BY <1>3, <2>2
  <2>4. Nth(i) = r
    BY <2>1, <2>3, Placed
  <2> QED
    BY <1>2, <2>2, <2>4
<1> QED
  BY <1>1, <1>4, <1>5, <1>6

\* A number of pages is enough, and one less is not.
LEMMA PagesEnough ==
  ASSUME NEW n \in Nat, NEW k \in Nat \ {0}, NEW q \in Int, q = (n + k - 1) \div k
  PROVE  q \in Nat /\ q * k >= n /\ (n > 0 => (q - 1) * k < n) /\ (n = 0 => q = 0)
<1>1. PICK m \in Nat : m = n + k - 1
  OBVIOUS
<1>2. q = m \div k /\ q \in Nat
  BY <1>1
<1>3. q * k <= m /\ m < (q + 1) * k
  BY <1>1, <1>2
<1>4. (q + 1) * k = q * k + k /\ (q - 1) * k = q * k - k
  BY <1>2
<1>5. q * k \in Nat
  BY <1>2
<1>6. q * k >= n /\ (q - 1) * k < n
  BY <1>1, <1>3, <1>4, <1>5
<1>7. n = 0 => q = 0
  <2>1. SUFFICES ASSUME n = 0, q >= 1 PROVE FALSE
    BY <1>2
  <2>2. q * k >= k
    BY <1>2, <2>1
  <2> QED
    BY <1>1, <1>3, <2>1, <2>2
<1> QED
  BY <1>2, <1>6, <1>7

\* The pages that the rows take, at least one.
LEMMA PageCountIs ==
  /\ PageCount \in Nat \ {0}
  /\ PageCount * PageSize >= Cardinality(Visible)
  /\ Cardinality(Visible) > 0 => (PageCount - 1) * PageSize < Cardinality(Visible)
<1>1. PICK n \in Nat : n = Cardinality(Visible)
  BY VisibleFinite
<1>2. PICK k \in Nat \ {0} : k = PageSize
  BY ListsAssumption
<1>3. PICK q \in Int : q = (n + k - 1) \div k
  OBVIOUS
<1>4. q \in Nat /\ q * k >= n /\ (n > 0 => (q - 1) * k < n) /\ (n = 0 => q = 0)
  BY <1>3, PagesEnough
<1>5. PageCount = IF q = 0 THEN 1 ELSE q
  BY <1>1, <1>2, <1>3 DEF PageCount
<1>6. CASE q = 0
  <2>1. PageCount = 1 /\ n = 0
    BY <1>4, <1>5, <1>6
  <2> QED
    BY <1>1, <1>2, <2>1
<1>7. CASE q # 0
  BY <1>1, <1>2, <1>4, <1>5, <1>7
<1> QED
  BY <1>6, <1>7

\* The page that is shown is one of them.
LEMMA ActivePageIs ==
  ASSUME at \in Nat \ {0}
  PROVE  ActivePage \in 1..PageCount /\ (ActivePage = at <=> at <= PageCount)
BY PageCountIs DEF ActivePage, Least

\* A page shows the sorted rows from its first to its last place.
LEMMA PageShows ==
  ASSUME NEW N \in Nat, N = Cardinality(Visible), NEW p \in 1..PageCount,
         NEW lo \in Nat, lo = (p - 1) * PageSize + 1, NEW hi \in Nat, hi = Least(p * PageSize, N)
  PROVE  RowsOf(p) = {Sorted[i] : i \in lo..hi} /\ 1 <= lo /\ hi <= N
<1>1. PICK s : s = Sorted
  OBVIOUS
<1>2. s \in Seq(Visible) /\ Len(s) = N /\ \A i \in 1..N : s[i] \in Visible
  BY <1>1, SortedRows
<1>3. PICK k \in Nat \ {0} : k = PageSize
  BY ListsAssumption
<1>4. p \in Nat /\ p - 1 \in Nat
  BY PageCountIs
<1>5. (p - 1) * k \in Nat /\ p * k \in Nat
  BY <1>3, <1>4
<1>6. 1 <= lo /\ hi <= N
  BY <1>3, <1>5 DEF Least
<1>7. \A i \in lo..hi : s[i] \in Visible
  BY <1>2, <1>6
<1>8. PICK u : u = SubSeq(s, lo, hi)
  OBVIOUS
<1>9. /\ u \in Seq(Visible)
      /\ Len(u) = IF lo <= hi THEN hi - lo + 1 ELSE 0
      /\ \A i \in 1..(hi - lo + 1) : u[i] = s[lo + i - 1]
  BY <1>7, <1>8, SubSeqProperties
<1>10. DOMAIN u = 1..(hi - lo + 1)
  BY <1>9
<1>11. RowsOf(p) = {u[i] : i \in DOMAIN u}
  BY <1>1, <1>2, <1>8 DEF RowsOf, ToSet
<1>12. ASSUME NEW i \in DOMAIN u PROVE \E j \in lo..hi : u[i] = s[j]
  <2>1. lo + i - 1 \in lo..hi /\ u[i] = s[lo + i - 1]
    BY <1>9, <1>10
  <2> QED
    BY <2>1
<1>13. ASSUME NEW j \in lo..hi PROVE \E i \in DOMAIN u : u[i] = s[j]
  <2>1. j - lo + 1 \in DOMAIN u /\ lo + (j - lo + 1) - 1 = j
    BY <1>10
  <2> QED
    BY <1>9, <1>10, <2>1
<1>14. {u[i] : i \in DOMAIN u} = {s[j] : j \in lo..hi}
  BY <1>12, <1>13
<1> QED
  BY <1>1, <1>6, <1>11, <1>14

\* The places of a page are numbers.
LEMMA PageEnds ==
  ASSUME NEW p \in Nat \ {0}
  PROVE  /\ (p - 1) * PageSize + 1 \in Nat
         /\ \A N \in Nat : Least(p * PageSize, N) \in Nat
<1>1. PICK k \in Nat \ {0} : k = PageSize
  BY ListsAssumption
<1>2. p - 1 \in Nat
  OBVIOUS
<1>3. (p - 1) * k \in Nat /\ p * k \in Nat
  BY <1>1, <1>2
<1> QED
  BY <1>1, <1>3 DEF Least

\* The pages together hold the rows that match, and none that does not.
LEMMA PagesHoldAll == UNION {RowsOf(p) : p \in 1..PageCount} = Visible
<1>1. PICK N \in Nat : N = Cardinality(Visible)
  BY VisibleFinite
<1>2. PICK k \in Nat \ {0} : k = PageSize
  BY ListsAssumption
<1>3. PICK q \in Nat \ {0} : q = PageCount
  BY PageCountIs
<1>4. q * k >= N
  BY <1>1, <1>2, <1>3, PageCountIs
<1>5. ASSUME NEW p \in 1..q PROVE RowsOf(p) \in SUBSET Visible
  <2>1. PICK lo \in Nat : lo = (p - 1) * PageSize + 1
    <3>1. p \in Nat \ {0}
      OBVIOUS
    <3>2. (p - 1) * PageSize + 1 \in Nat
      BY <3>1, PageEnds
    <3> QED
      BY ONLY <3>2, Zenon
  <2>2. PICK hi \in Nat : hi = Least(p * PageSize, N)
    BY PageEnds
  <2>3. RowsOf(p) = {Sorted[i] : i \in lo..hi} /\ 1 <= lo /\ hi <= N
    BY <1>1, <1>3, <2>1, <2>2, PageShows
  <2>4. \A i \in lo..hi : i \in 1..N
    BY <2>3
  <2>5. \A i \in 1..N : Sorted[i] \in Visible
    BY <1>1, SortedRows
  <2> QED
    BY <2>3, <2>4, <2>5
<1>6. ASSUME NEW r \in Visible PROVE \E p \in 1..q : r \in RowsOf(p)
  <2>1. PICK i \in 1..N : Sorted[i] = r
    BY <1>1, SortedRows
  <2>2. PICK p \in Int : p = (i + k - 1) \div k
    OBVIOUS
  <2>3. p \in Nat /\ p * k >= i /\ (p - 1) * k < i
    <3>1. i \in Nat /\ i > 0
      OBVIOUS
    <3> QED
      BY <2>2, <3>1, PagesEnough
  <2>4. p # 0
    BY <2>3
  <2>5. p <= q
    <3>1. SUFFICES ASSUME p >= q + 1 PROVE FALSE
      BY <2>3
    <3>2. (p - 1) * k >= q * k
      BY <2>3, <3>1
    <3> QED
      BY <1>4, <2>3, <3>2
  <2>6. p \in 1..q
    BY <2>3, <2>4, <2>5
  <2>7. PICK lo \in Nat : lo = (p - 1) * PageSize + 1
    <3>1. p \in Nat \ {0}
      BY <2>6
    <3>2. (p - 1) * PageSize + 1 \in Nat
      BY <3>1, PageEnds
    <3> QED
      BY ONLY <3>2, Zenon
  <2>8. PICK hi \in Nat : hi = Least(p * PageSize, N)
    BY <2>6, PageEnds
  <2>9. RowsOf(p) = {Sorted[j] : j \in lo..hi}
    BY <1>1, <1>3, <2>6, <2>7, <2>8, PageShows
  <2>10. i \in lo..hi
    <3>1. (p - 1) * k + 1 <= i
      BY <2>3
    <3>2. i <= hi
      BY <1>2, <2>3, <2>8 DEF Least
    <3> QED
      BY <1>2, <2>7, <3>1, <3>2
  <2> QED
    BY <2>1, <2>6, <2>9, <2>10
<1> QED
  BY <1>3, <1>5, <1>6

\* If a row matches, the page that is shown has one.
LEMMA PageNotEmpty ==
  ASSUME at \in Nat \ {0}, Visible # {}
  PROVE  RowsOf(ActivePage) # {}
<1>1. PICK N \in Nat : N = Cardinality(Visible)
  BY VisibleFinite
<1>2. N > 0
  BY <1>1, VisibleFinite, FS_EmptySet
<1>3. PICK k \in Nat \ {0} : k = PageSize
  BY ListsAssumption
<1>4. PICK q \in Nat \ {0} : q = PageCount
  BY PageCountIs
<1>5. (q - 1) * k < N
  BY <1>1, <1>2, <1>3, <1>4, PageCountIs
<1>6. PICK p \in 1..q : p = ActivePage
  BY <1>4, ActivePageIs
<1>7. PICK lo \in Nat : lo = (p - 1) * PageSize + 1
  <2>1. p \in Nat \ {0}
    OBVIOUS
  <2>2. (p - 1) * PageSize + 1 \in Nat
    BY <2>1, PageEnds
  <2> QED
    BY ONLY <2>2, Zenon
<1>8. PICK hi \in Nat : hi = Least(p * PageSize, N)
  BY PageEnds
<1>9. RowsOf(p) = {Sorted[j] : j \in lo..hi}
  BY <1>1, <1>4, <1>7, <1>8, PageShows
<1>10. (p - 1) * k <= (q - 1) * k
  <2>1. PICK a \in Nat : a = p - 1
    OBVIOUS
  <2>2. PICK d \in Nat : d = q - p
    OBVIOUS
  <2>3. q - 1 = a + d
    BY <2>1, <2>2
  <2>4. (a + d) * k = a * k + d * k /\ d * k >= 0
    OBVIOUS
  <2>5. (p - 1) * k = a * k /\ (q - 1) * k = a * k + d * k
    BY <2>1, <2>3, <2>4
  <2> QED
    BY <2>4, <2>5
<1>11. lo <= N
  BY <1>3, <1>5, <1>7, <1>10
<1>12. p * k = (p - 1) * k + k
  OBVIOUS
<1>13. lo <= p * k
  BY <1>3, <1>7, <1>12
<1>14. lo \in lo..hi
  BY <1>3, <1>8, <1>11, <1>13 DEF Least
<1> QED
  BY <1>6, <1>9, <1>14

\* The page and the filter that are asked for are those that are shown, until rows are
\* fetched anew.
AskedIsShown ==
  /\ "page" \notin stale => at <= PageCount
  /\ "filter" \notin stale => filter \in Options \cup {"all"}
ListInv == ListTypeOK /\ AskedIsShown

\* What is shown has not changed.
ShownStays == Visible' = Visible /\ PageCount' = PageCount /\ Options' = Options

\* The options of a filter are marks, and those of some tables are always the same.
LEMMA OptionsAre ==
  /\ table \in Tables /\ table.fixed => Options = UNION table.marks
  /\ ListTypeOK /\ table = Attestations => Options = UNION table.marks
<1>1. Attestations \in Tables /\ Attestations.fixed
  BY TablesAre DEF Tables
<1> QED
  BY <1>1 DEF Options

\* Where the same is asked of the same rows, the same is shown.
LEMMA SameShown ==
  ASSUME UNCHANGED <<table, sent, recent, query, filter>>
  PROVE  ShownStays
<1>1. \A r \in Rows : MarkOf(r)' = MarkOf(r) /\ HasRow(r)' = HasRow(r)
  BY DEF MarkOf, HasRow
<1>2. Visible' = Visible
  BY <1>1 DEF Visible, Matches
<1>3. PageCount' = PageCount
  BY <1>2 DEF PageCount
<1>4. Options' = Options
  BY <1>1 DEF Options, HasRow
<1> QED
  BY <1>2, <1>3, <1>4 DEF ShownStays

\* The first lists are empty, and nothing was asked.
LEMMA ListsBegin == ASSUME ListInit PROVE ListInv
<1>1. PICK t \in Tables : t = table
  BY DEF ListInit
<1>2. sent \in Data(t) /\ recent \in Data(Attestations)
  BY DEF ListInit, Data
<1>3. ListTypeOK
  BY <1>1, <1>2 DEF ListInit, ListTypeOK, Sort
<1>4. at <= PageCount
  <2>1. at = 1
    BY DEF ListInit
  <2> QED
    BY <2>1, PageCountIs
<1> QED
  BY <1>3, <1>4 DEF ListInv, AskedIsShown, ListInit

\* A step on the table that is looked at keeps the parts of the state in their types.
LEMMA ListTyped == ASSUME ListTypeOK, ListNext PROVE ListTypeOK'
<1>1. ASSUME NEW q \in Rows \cup {None}, Search(q) PROVE ListTypeOK'
  BY <1>1 DEF Search, ListTypeOK
<1>2. ASSUME NEW f \in (UNION table.marks) \cup {"all"}, Filter(f) PROVE ListTypeOK'
  BY <1>2 DEF Filter, ListTypeOK
<1>3. ASSUME NEW key \in {"name", "marks"}, SortBy(key) PROVE ListTypeOK'
  <2>1. sort' \in Sort
    BY <1>3 DEF SortBy, Sort
  <2>2. at' \in Nat \ {0}
    BY <1>3 DEF SortBy, ListTypeOK
  <2> QED
    BY <1>3, <2>1, <2>2 DEF SortBy, ListTypeOK
<1>4. ASSUME Previous PROVE ListTypeOK'
  <2>1. at' \in Nat \ {0}
    BY <1>4 DEF Previous, ListTypeOK
  <2> QED
    BY <1>4, <2>1 DEF Previous, ListTypeOK
<1>5. ASSUME NextPage PROVE ListTypeOK'
  <2>1. at' \in Nat \ {0}
    BY <1>5, PageCountIs DEF NextPage, ListTypeOK, Least
  <2> QED
    BY <1>5, <2>1 DEF NextPage, ListTypeOK
<1>6. ASSUME ListProject PROVE ListTypeOK'
  <2>1. sent' \in Data(table)
    BY <1>6 DEF ListProject, Data
  <2> QED
    BY <1>6, <2>1 DEF ListProject, ListTypeOK
<1>7. ASSUME NEW data \in Data(table), OpenAnother(data) PROVE ListTypeOK'
  BY <1>7 DEF OpenAnother, ListTypeOK
<1>8. ASSUME NEW data \in Data(table), RowsFetched(data) PROVE ListTypeOK'
  BY <1>8 DEF RowsFetched, ListTypeOK
<1>9. ASSUME NEW data \in Data(table), RecentFetched(data) PROVE ListTypeOK'
  BY <1>9 DEF RecentFetched, ListTypeOK
<1> QED
  BY <1>1, <1>2, <1>3, <1>4, <1>5, <1>6, <1>7, <1>8, <1>9 DEF ListNext

\* However many rows there are, there is a page.
LEMMA PagesAfter == (PageCount \in Nat \ {0})'
<1>1. PageCount \in Nat \ {0}
  BY PageCountIs
<1> QED
  BY <1>1, PTL

\* Every step leaves what is asked shown, or is one that fetches rows.
LEMMA AskedStays == ASSUME ListInv, ListNext PROVE AskedIsShown'
<1>1. ASSUME at' = 1 PROVE at' <= PageCount'
  BY <1>1, PagesAfter
<1>2. ASSUME NEW q \in Rows \cup {None}, Search(q) PROVE AskedIsShown'
  <2>1. Options' = Options
    BY <1>2 DEF Search, Options, HasRow
  <2> QED
    BY <1>1, <1>2, <2>1 DEF Search, ListInv, AskedIsShown
<1>3. ASSUME NEW f \in (UNION table.marks) \cup {"all"}, Filter(f) PROVE AskedIsShown'
  <2>1. Options' = Options
    BY <1>3 DEF Filter, Options, HasRow
  <2> QED
    BY <1>1, <1>3, <2>1 DEF Filter, AskedIsShown
<1>4. ASSUME NEW key \in {"name", "marks"}, SortBy(key) PROVE AskedIsShown'
  <2>1. ShownStays
    BY <1>4, SameShown DEF SortBy
  <2>2. at' = 1 \/ at' = at
    BY <1>4 DEF SortBy
  <2> QED
    BY <1>1, <1>4, <2>1, <2>2 DEF SortBy, ListInv, AskedIsShown, ShownStays
<1>5. ASSUME Previous PROVE AskedIsShown'
  <2>1. ShownStays
    BY <1>5, SameShown DEF Previous
  <2>2. at' <= at
    BY <1>5 DEF Previous, ListInv, ListTypeOK
  <2>3. at \in Nat /\ at' \in Nat /\ PageCount \in Nat
    BY <1>5, PageCountIs DEF Previous, ListInv, ListTypeOK
  <2> QED
    BY <1>5, <2>1, <2>2, <2>3 DEF Previous, ListInv, AskedIsShown, ShownStays
<1>6. ASSUME NextPage PROVE AskedIsShown'
  <2>1. ShownStays
    BY <1>6, SameShown DEF NextPage
  <2>2. at' <= PageCount
    BY <1>6, PageCountIs DEF NextPage, ListInv, ListTypeOK, Least
  <2> QED
    BY <1>6, <2>1, <2>2 DEF NextPage, ListInv, AskedIsShown, ShownStays
<1>7. ASSUME ListProject PROVE AskedIsShown'
  <2>1. table' = Attestations /\ table = Attestations /\ filter' = filter
    BY <1>7 DEF ListProject
  <2>2. Attestations.fixed
    BY TablesAre DEF Tables
  <2>3. Options' = UNION table.marks
    BY <2>1, <2>2 DEF Options
  <2>4. filter' \in Options' \cup {"all"}
    BY <2>1, <2>3 DEF ListInv, ListTypeOK
  <2> QED
    BY <1>1, <1>7, <2>4 DEF ListProject, AskedIsShown
<1>8. ASSUME NEW data \in Data(table), OpenAnother(data) PROVE AskedIsShown'
  BY <1>1, <1>8 DEF OpenAnother, AskedIsShown
<1>9. ASSUME NEW data \in Data(table), RowsFetched(data) \/ RecentFetched(data)
      PROVE  AskedIsShown'
  BY <1>9 DEF RowsFetched, RecentFetched, AskedIsShown
<1> QED
  BY <1>2, <1>3, <1>4, <1>5, <1>6, <1>7, <1>8, <1>9 DEF ListNext

\* A row that is confirmed is sent as active no more.
LEMMA ConfirmedStays == ASSUME ListInv, ListNext PROVE NeverBack
<1>1. SUFFICES ASSUME NEW r \in Rows, MarkOf(r) = {"confirmed"}, table = Attestations
               PROVE  \/ MarkOf(r)' # {"active"}
                      \/ recent[r] # None /\ recent'[r] = None /\ sent'[r] = sent[r]
  BY DEF NeverBack
<1>2. None # {"active"} /\ None # {"confirmed"} /\ {"confirmed"} # {"active"}
  <2>1. {{"active"}, {"confirmed"}} \subseteq Attestations.marks /\ Attestations \in Tables
    BY DEF Attestations, Single, Tables
  <2>2. "active" # "confirmed"
    OBVIOUS
  <2> QED
    BY <2>1, <2>2, MarksAssumption
<1>3. table' = Attestations /\ table \notin OfDetail
  <2>1. Attestations \notin OfDetail
    BY TablesAre DEF Tables
  <2>2. table' = table
    BY DEF ListNext, Search, Filter, SortBy, Previous, NextPage, ListProject, OpenAnother,
           RowsFetched, RecentFetched
  <2> QED
    BY <1>1, <2>1, <2>2
<1>4. MarkOf(r) = IF recent[r] # None THEN recent[r] ELSE sent[r]
  BY <1>1 DEF MarkOf
<1>5. MarkOf(r)' = IF recent'[r] # None THEN recent'[r] ELSE sent'[r]
  BY <1>3 DEF MarkOf
<1>6. CASE UNCHANGED <<sent, recent>>
  BY <1>1, <1>2, <1>4, <1>5, <1>6
<1>7. CASE ListProject
  <2>1. sent'[r] = None /\ recent' = recent
    BY <1>7 DEF ListProject
  <2> QED
    BY <1>1, <1>2, <1>4, <1>5, <2>1
<1>8. ASSUME NEW data, Follows(data) PROVE data[r] # {"active"}
  <2>1. data[r] = {"active"} => {sent[r], recent[r]} \subseteq {None, {"active"}}
    BY <1>8 DEF Follows
  <2> QED
    BY <1>1, <1>2, <1>4, <2>1
<1>9. ASSUME NEW data \in Data(table), RowsFetched(data) PROVE MarkOf(r)' # {"active"}
  <2>1. data[r] # {"active"} /\ sent' = data /\ recent' = recent
    BY <1>1, <1>8, <1>9 DEF RowsFetched
  <2> QED
    BY <1>1, <1>2, <1>4, <1>5, <2>1
<1>10. ASSUME NEW data \in Data(table), RecentFetched(data)
       PROVE  \/ MarkOf(r)' # {"active"}
              \/ recent[r] # None /\ recent'[r] = None /\ sent'[r] = sent[r]
  <2>1. data[r] # {"active"} /\ recent' = data /\ sent' = sent
    BY <1>8, <1>10 DEF RecentFetched
  <2> QED
    BY <1>1, <1>2, <1>4, <1>5, <2>1
<1>11. ASSUME NEW data \in Data(table), OpenAnother(data) PROVE FALSE
  BY <1>3, <1>11 DEF OpenAnother
<1>12. UNCHANGED <<sent, recent>> \/ ListProject
       \/ \E data \in Data(table) : OpenAnother(data) \/ RowsFetched(data) \/ RecentFetched(data)
  BY DEF ListNext, Search, Filter, SortBy, Previous, NextPage
<1> QED
  BY <1>6, <1>7, <1>9, <1>10, <1>11, <1>12

\* What the invariant says of what is shown.
LEMMA ShownIsTrue == ASSUME ListInv PROVE PagesTrue /\ CanWiden
<1>1. at \in Nat \ {0} /\ table \in Tables
  BY DEF ListInv, ListTypeOK
<1>2. PagesTrue
  <2>1. "page" \notin stale => at = ActivePage
    BY <1>1, ActivePageIs DEF ListInv, AskedIsShown
  <2>2. "filter" \notin stale => filter = FilterShown
    BY DEF ListInv, AskedIsShown, FilterShown
  <2> QED
    BY <1>1, <2>1, <2>2, PagesHoldAll, PageNotEmpty DEF PagesTrue
<1>3. CanWiden
  BY <1>1, TablesAre DEF CanWiden, ControlsShown
<1> QED
  BY <1>2, <1>3

\* The invariant holds of every list.
LEMMA ListsInvariant == ListSpec => []ListInv
<1>1. ListInv /\ [ListNext]_listVars => ListInv'
  <2>1. ASSUME ListInv, ListNext PROVE ListInv'
    BY <2>1, ListTyped, AskedStays DEF ListInv
  <2>2. ASSUME ListInv, UNCHANGED listVars PROVE ListInv'
    <3>1. ShownStays
      BY <2>2, SameShown DEF listVars
    <3> QED
      BY <2>2, <3>1 DEF ListInv, ListTypeOK, AskedIsShown, ShownStays, listVars
  <2> QED
    BY <2>1, <2>2
<1> QED
  BY <1>1, ListsBegin, PTL DEF ListSpec

\* The state of a list is of its types.
THEOREM ListIsTyped == ListSpec => []ListTypeOK
<1>1. ListInv => ListTypeOK
  BY DEF ListInv
<1> QED
  BY <1>1, ListsInvariant, PTL

\* The pages hold the rows that match and are cut where the buttons count, what the user
\* has narrowed can be widened, and a confirmed attestation is not shown as active again.
THEOREM ListsAlwaysTrue == ListSpec => ListsTrue
<1>1. ListInv => PagesTrue /\ CanWiden
  BY ShownIsTrue
<1>2. ListInv /\ [ListNext]_listVars => [NeverBack]_listVars
  BY ConfirmedStays
<1> QED
  BY <1>1, <1>2, ListsInvariant, PTL DEF ListSpec, ListsTrue
=============================================================================
