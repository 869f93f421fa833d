-------------------------- MODULE AttestationProofs -------------------------
(***************************************************************************)
(* Proofs about Attestation and SequentialClient, for every set of         *)
(* attempts, manifests, packages, requests, processes and jobs and every   *)
(* bound on faults.                                                        *)
(*                                                                         *)
(* IInv adds to the safety invariants what each handler, job and task      *)
(* knows at the step it has reached: objects are never deleted, so what    *)
(* PutLeaves stored is still there when CommitValidated names it, and      *)
(* att.confirmed never changes, so the guard generateReceipt checked when  *)
(* it began still holds when it writes the row.                            *)
(*                                                                         *)
(* What the desktop may count on, with one call at a time and one worker   *)
(* process, takes more: IInv lets two attempts be open and a late write of *)
(* a handler meet a decision of the worker.  SeqInv says that there is one *)
(* open attempt, and in which states of the row each handler, job and task *)
(* can be about to write.                                                  *)
(***************************************************************************)
EXTENDS SequentialClient, TLAPS

-----------------------------------------------------------------------------
(* Types of the updates the actions make                                    *)

\* Moving a handler to its next step keeps its type.
LEMMA HandlerGoto ==
  ASSUME NEW f \in [Requests -> Handler], NEW r \in Requests, NEW s \in RequestSteps
  PROVE  [f EXCEPT ![r].step = s] \in [Requests -> Handler]
BY DEF Handler

\* Moving a worker task to its next step keeps its type.
LEMMA TaskGoto ==
  ASSUME NEW steps, NEW f \in [Processes -> Task(steps)], NEW w \in Processes,
         NEW s \in steps
  PROVE  [f EXCEPT ![w].step = s] \in [Processes -> Task(steps)]
BY DEF Task

\* An unused slot of the queues is a job.
LEMMA FreeJobTyped == FreeJob \in Job
BY DEF FreeJob, Job

\* queue.add fills a slot with a job.
LEMMA EnqueueTyped ==
  ASSUME jobs \in [Jobs -> Job], NEW kind \in {"validate", "receipt"},
         NEW a \in Attempts \cup {None}, Enqueue(kind, a)
  PROVE  jobs' \in [Jobs -> Job]
<1>1. [FreeJob EXCEPT !.kind = kind, !.attempt = a, !.status = "waiting"] \in Job
  BY DEF FreeJob, Job
<1> QED
  BY <1>1 DEF Enqueue

\* A worker that takes a job leaves a job.
LEMMA TakenTyped ==
  ASSUME jobs \in [Jobs -> Job], NEW j \in Jobs, NEW w \in Processes
  PROVE  Taken(j, w) \in [Jobs -> Job]
<1>1. [jobs[j] EXCEPT !.status = "active", !.owner = w] \in Job
  BY DEF Job
<1> QED
  BY <1>1 DEF Taken

\* Completing a job, whoever holds its lock, leaves jobs.
LEMMA CompletedTyped ==
  ASSUME jobs \in [Jobs -> Job], NEW j, NEW w
  PROVE  Completed(j, w) \in [Jobs -> Job]
BY FreeJobTyped DEF Completed

\* The fields a retry writes keep the job a job.
LEMMA RetriedJobTyped ==
  ASSUME NEW job \in Job, NEW made \in Nat, NEW status \in {"waiting", "failed"}
  PROVE  [job EXCEPT !.owner = None, !.made = made, !.status = status] \in Job
BY DEF Job

\* Retrying a job, whoever holds its lock, leaves jobs.
LEMMA RetriedTyped ==
  ASSUME jobs \in [Jobs -> Job], NEW j, NEW w
  PROVE  Retried(j, w) \in [Jobs -> Job]
<1> DEFINE status == IF jobs[j].made + 1 < MaxTries THEN "waiting" ELSE "failed"
           retried == [jobs[j] EXCEPT !.owner = None, !.made = jobs[j].made + 1,
                                      !.status = status]
<1>1. j \in Jobs => jobs[j] \in Job /\ jobs[j].made + 1 \in Nat
  BY DEF Job
<1>2. status \in {"waiting", "failed"}
  OBVIOUS
<1>3. j \in Jobs => retried \in Job
  <2> HIDE DEF status
  <2> QED BY <1>1, <1>2, RetriedJobTyped
<1>4. CASE jobs[j].owner = w
  <2>1. Retried(j, w) = [jobs EXCEPT ![j] = retried]
    BY <1>4 DEF Retried
  <2> HIDE DEF retried
  <2> QED BY <1>3, <2>1
<1>5. CASE jobs[j].owner # w
  BY <1>5 DEF Retried
<1> QED
  BY <1>4, <1>5

\* The fields the stalled check writes keep the job a job.
LEMMA UnlockedJobTyped ==
  ASSUME NEW job \in Job, NEW stalls \in Nat, NEW status \in {"waiting", "failed"}
  PROVE  [job EXCEPT !.owner = None, !.stalls = stalls, !.status = status] \in Job
BY DEF Job

\* A job whose lock expired is still a job.
LEMMA UnlockedTyped == \A job \in Job : Unlocked(job) \in Job
<1> TAKE job \in Job
<1> DEFINE status == IF job.stalls < MaxStalls THEN "waiting" ELSE "failed"
<1>1. job.stalls + 1 \in Nat
  BY DEF Job
<1>2. status \in {"waiting", "failed"}
  OBVIOUS
<1>3. Unlocked(job) = [job EXCEPT !.owner = None, !.stalls = job.stalls + 1,
                                  !.status = status]
  BY DEF Unlocked
<1> HIDE DEF status
<1>4. [job EXCEPT !.owner = None, !.stalls = job.stalls + 1,
                  !.status = status] \in Job
  BY <1>1, <1>2, UnlockedJobTyped
<1> QED
  BY <1>3, <1>4

\* ... of the same kind and for the same attempt.
LEMMA UnlockedKeeps ==
  \A job \in Job :
    Unlocked(job).kind = job.kind /\ Unlocked(job).attempt = job.attempt
BY DEF Unlocked, Job

\* A task that remembers a manifest, or a manifest and a package, is a task.
LEMMA TaskUpdate ==
  ASSUME NEW steps, NEW t \in Task(steps), NEW s \in steps,
         NEW m \in Manifests \cup {None}, NEW p \in Packages \cup {None}
  PROVE  /\ [t EXCEPT !.step = s, !.manifest = m] \in Task(steps)
         /\ [t EXCEPT !.step = s, !.manifest = m, !.package = p] \in Task(steps)
BY DEF Task

-----------------------------------------------------------------------------
(* IInv is inductive: one lemma per actor, one step per action, and under it  *)
(* one step per conjunct the action can disturb                              *)

\* The invariant holds initially.
LEMMA InitOK == Init => IInv
BY ConstantsOK
   DEF Init, IInv, TypeOK, HandlersInv, JobsInv, ValidationInv, ReceiptInv,
       ConfirmedContentValid, PointersResolve, ReceiptBindsConfirmedAttempt,
       Row, Receipt, NoReceipt, Events, Handler, NoHandler, Job, FreeJob, Task,
       NoTask, AttestationStates, AttemptStates, RequestSteps, ValidationSteps,
       ReceiptSteps

\* The API calls that create an attestation or start a handler keep it.
LEMMA ClientStepOK == IInv /\ ClientCall => IInv'
<1> SUFFICES ASSUME IInv, ClientCall PROVE IInv'
  OBVIOUS
<1> USE ConstantsOK DEF IInv, TypeOK, rowVars, objectVars, eventVars, budgetVars
<1>1. ASSUME NEW a \in Attempts, CreateAttestation(a)
      PROVE  IInv'
  <2> USE <1>1 DEF CreateAttestation, FirstAttempt
  <2>1. TypeOK'
    <3>1. att' \in Row
      BY DEF Row, AttestationStates
    <3>2. attempt' \in [Attempts -> AttemptStates]
      BY DEF AttemptStates
    <3> QED BY <3>1, <3>2
  <2>2. ReceiptInv'
    BY DEF ReceiptInv, Row
  <2>3. ConfirmedContentValid'
    BY DEF ConfirmedContentValid, Row
  <2>4. PointersResolve'
    BY DEF PointersResolve, Row
  <2>5. ReceiptBindsConfirmedAttempt'
    BY DEF ReceiptBindsConfirmedAttempt, Row
  <2>6. (HandlersInv /\ JobsInv /\ ValidationInv)'
    BY DEF HandlersInv, JobsInv, ValidationInv
  <2> QED BY <2>1, <2>2, <2>3, <2>4, <2>5, <2>6
<1>2. ASSUME NEW r \in Requests, NEW a \in Attempts, NEW m \in Manifests,
             SubmitByApi(r, a, m)
      PROVE  IInv'
  <2> USE <1>2 DEF SubmitByApi, FirstAttempt
  <2>1. TypeOK'
    <3>1. att' \in Row
      BY DEF Row, AttestationStates
    <3>2. attempt' \in [Attempts -> AttemptStates]
      BY DEF AttemptStates
    <3>3. req' \in [Requests -> Handler]
      BY DEF Handler, RequestSteps
    <3> QED BY <3>1, <3>2, <3>3
  <2>2. HandlersInv'
    BY DEF HandlersInv, Handler, NoHandler
  <2>3. ReceiptInv'
    BY DEF ReceiptInv, Handler, NoHandler, Row
  <2>4. ConfirmedContentValid'
    BY DEF ConfirmedContentValid, Handler, NoHandler, Row
  <2>5. PointersResolve'
    BY DEF PointersResolve, Handler, NoHandler, Row
  <2>6. ReceiptBindsConfirmedAttempt'
    BY DEF ReceiptBindsConfirmedAttempt, Handler, NoHandler, Row
  <2>7. (JobsInv /\ ValidationInv)'
    BY DEF JobsInv, ValidationInv
  <2> QED BY <2>1, <2>2, <2>3, <2>4, <2>5, <2>6, <2>7
<1>3. ASSUME NEW r \in Requests, NEW a \in Attempts, NEW m \in Manifests,
             BeginUpload(r, a, m)
      PROVE  IInv'
  <2> USE <1>3 DEF BeginUpload, Begin
  <2>1. TypeOK'
    <3>1. req' \in [Requests -> Handler]
      BY DEF Handler, RequestSteps
    <3> QED BY <3>1
  <2>2. HandlersInv'
    BY DEF HandlersInv, Handler, NoHandler
  <2>3. (/\ JobsInv
         /\ ValidationInv
         /\ ReceiptInv
         /\ ConfirmedContentValid
         /\ PointersResolve
         /\ ReceiptBindsConfirmedAttempt)'
    BY DEF JobsInv, ValidationInv, ReceiptInv, ConfirmedContentValid,
       PointersResolve, ReceiptBindsConfirmedAttempt
  <2> QED BY <2>1, <2>2, <2>3
<1>4. ASSUME NEW r \in Requests, NEW a \in Attempts, BeginFinalize(r, a)
      PROVE  IInv'
  <2> USE <1>4 DEF BeginFinalize, Begin
  <2>1. TypeOK'
    <3>1. req' \in [Requests -> Handler]
      BY DEF Handler, RequestSteps
    <3> QED BY <3>1
  <2>2. HandlersInv'
    BY DEF HandlersInv, Handler, NoHandler
  <2>3. (/\ JobsInv
         /\ ValidationInv
         /\ ReceiptInv
         /\ ConfirmedContentValid
         /\ PointersResolve
         /\ ReceiptBindsConfirmedAttempt)'
    BY DEF JobsInv, ValidationInv, ReceiptInv, ConfirmedContentValid,
       PointersResolve, ReceiptBindsConfirmedAttempt
  <2> QED BY <2>1, <2>2, <2>3
<1>5. ASSUME NEW r \in Requests, BeginCancel(r)
      PROVE  IInv'
  <2> USE <1>5 DEF BeginCancel, Begin
  <2>1. TypeOK'
    <3>1. req' \in [Requests -> Handler]
      BY DEF Handler, RequestSteps
    <3> QED BY <3>1
  <2>2. HandlersInv'
    BY DEF HandlersInv, Handler, NoHandler
  <2>3. (/\ JobsInv
         /\ ValidationInv
         /\ ReceiptInv
         /\ ConfirmedContentValid
         /\ PointersResolve
         /\ ReceiptBindsConfirmedAttempt)'
    BY DEF JobsInv, ValidationInv, ReceiptInv, ConfirmedContentValid,
       PointersResolve, ReceiptBindsConfirmedAttempt
  <2> QED BY <2>1, <2>2, <2>3
<1>6. ASSUME NEW r \in Requests, BeginRepair(r)
      PROVE  IInv'
  <2> USE <1>6 DEF BeginRepair, Begin
  <2>1. TypeOK'
    <3>1. req' \in [Requests -> Handler]
      BY DEF Handler, RequestSteps
    <3> QED BY <3>1
  <2>2. HandlersInv'
    BY DEF HandlersInv, Handler, NoHandler
  <2>3. (/\ JobsInv
         /\ ValidationInv
         /\ ReceiptInv
         /\ ConfirmedContentValid
         /\ PointersResolve
         /\ ReceiptBindsConfirmedAttempt)'
    BY DEF JobsInv, ValidationInv, ReceiptInv, ConfirmedContentValid,
       PointersResolve, ReceiptBindsConfirmedAttempt
  <2> QED BY <2>1, <2>2, <2>3
<1> QED
  BY <1>1, <1>2, <1>3, <1>4, <1>5, <1>6 DEF ClientCall

\* So does every write of an API handler, and its death.
LEMMA HandlerStepOK ==
  IInv /\ (\E r \in Requests : HandlerStep(r) \/ RequestDies(r)) => IInv'
<1> SUFFICES ASSUME IInv, \E r \in Requests : HandlerStep(r) \/ RequestDies(r)
             PROVE  IInv'
  OBVIOUS
<1> USE ConstantsOK DEF IInv, TypeOK, rowVars, objectVars, eventVars, budgetVars
<1>1. ASSUME NEW r \in Requests, PutManifest(r)
      PROVE  IInv'
  <2> USE <1>1 DEF PutManifest, Goto
  <2>1. TypeOK'
    <3>1. manifestObj' \in [Attempts -> Manifests \cup {None}]
      BY DEF HandlersInv
    <3>2. req' \in [Requests -> Handler]
      BY HandlerGoto DEF RequestSteps
    <3> QED BY <3>1, <3>2
  <2>2. HandlersInv'
    BY DEF HandlersInv, Handler, NoHandler
  <2>3. ValidationInv'
    BY DEF ValidationInv, HandlersInv, Handler, NoHandler, Task
  <2>4. PointersResolve'
    BY DEF PointersResolve, HandlersInv, Handler, NoHandler
  <2>5. (/\ JobsInv
         /\ ReceiptInv
         /\ ConfirmedContentValid
         /\ ReceiptBindsConfirmedAttempt)'
    BY DEF JobsInv, ReceiptInv, ConfirmedContentValid,
       ReceiptBindsConfirmedAttempt
  <2> QED BY <2>1, <2>2, <2>3, <2>4, <2>5
<1>2. ASSUME NEW r \in Requests, MarkAttemptUploaded(r)
      PROVE  IInv'
  <2> USE <1>2 DEF MarkAttemptUploaded, Goto
  <2>1. TypeOK'
    <3>1. attempt' \in [Attempts -> AttemptStates]
      BY DEF AttemptStates
    <3>2. req' \in [Requests -> Handler]
      BY HandlerGoto DEF RequestSteps
    <3> QED BY <3>1, <3>2
  <2>2. HandlersInv'
    BY DEF HandlersInv, Handler, NoHandler
  <2>3. PointersResolve'
    BY DEF PointersResolve, HandlersInv, Handler, NoHandler
  <2>4. (/\ JobsInv
         /\ ValidationInv
         /\ ReceiptInv
         /\ ConfirmedContentValid
         /\ ReceiptBindsConfirmedAttempt)'
    BY DEF JobsInv, ValidationInv, ReceiptInv, ConfirmedContentValid,
       ReceiptBindsConfirmedAttempt
  <2> QED BY <2>1, <2>2, <2>3, <2>4
<1>3. ASSUME NEW r \in Requests, MarkAttestationUploaded(r)
      PROVE  IInv'
  <2> USE <1>3 DEF MarkAttestationUploaded, Reply
  <2>1. TypeOK'
    <3>1. att' \in Row
      BY DEF Row, AttestationStates
    <3>2. req' \in [Requests -> Handler]
      BY DEF Handler, NoHandler, RequestSteps
    <3> QED BY <3>1, <3>2
  <2>2. HandlersInv'
    BY DEF HandlersInv, Handler, NoHandler
  <2>3. ReceiptInv'
    BY DEF ReceiptInv, Handler, NoHandler, Row
  <2>4. ConfirmedContentValid'
    BY DEF ConfirmedContentValid, Handler, NoHandler, Row
  <2>5. PointersResolve'
    BY DEF PointersResolve, Handler, NoHandler, Row
  <2>6. ReceiptBindsConfirmedAttempt'
    BY DEF ReceiptBindsConfirmedAttempt, Handler, NoHandler, Row
  <2>7. (JobsInv /\ ValidationInv)'
    BY DEF JobsInv, ValidationInv
  <2> QED BY <2>1, <2>2, <2>3, <2>4, <2>5, <2>6, <2>7
<1>4. ASSUME NEW r \in Requests, MarkApiSubmission(r)
      PROVE  IInv'
  <2> USE <1>4 DEF MarkApiSubmission, Goto
  <2>1. TypeOK'
    <3>1. att' \in Row
      BY DEF Row, AttestationStates
    <3>2. attempt' \in [Attempts -> AttemptStates]
      BY DEF AttemptStates
    <3>3. req' \in [Requests -> Handler]
      BY HandlerGoto DEF RequestSteps
    <3> QED BY <3>1, <3>2, <3>3
  <2>2. HandlersInv'
    BY DEF HandlersInv, Handler, NoHandler
  <2>3. ReceiptInv'
    BY DEF ReceiptInv, Handler, NoHandler, Row
  <2>4. ConfirmedContentValid'
    BY DEF ConfirmedContentValid, Handler, NoHandler, Row
  <2>5. PointersResolve'
    BY DEF PointersResolve, HandlersInv, Handler, NoHandler, Row
  <2>6. ReceiptBindsConfirmedAttempt'
    BY DEF ReceiptBindsConfirmedAttempt, Handler, NoHandler, Row
  <2>7. (JobsInv /\ ValidationInv)'
    BY DEF JobsInv, ValidationInv
  <2> QED BY <2>1, <2>2, <2>3, <2>4, <2>5, <2>6, <2>7
<1>5. ASSUME NEW r \in Requests, MarkValidating(r)
      PROVE  IInv'
  <2> USE <1>5 DEF MarkValidating, Goto
  <2>1. TypeOK'
    <3>1. att' \in Row
      BY DEF Row, AttestationStates
    <3>2. req' \in [Requests -> Handler]
      BY HandlerGoto DEF RequestSteps
    <3> QED BY <3>1, <3>2
  <2>2. HandlersInv'
    BY DEF HandlersInv, Handler, NoHandler
  <2>3. ReceiptInv'
    BY DEF ReceiptInv, Handler, NoHandler, Row
  <2>4. ConfirmedContentValid'
    BY DEF ConfirmedContentValid, Handler, NoHandler, Row
  <2>5. PointersResolve'
    BY DEF PointersResolve, Handler, NoHandler, Row
  <2>6. ReceiptBindsConfirmedAttempt'
    BY DEF ReceiptBindsConfirmedAttempt, Handler, NoHandler, Row
  <2>7. (JobsInv /\ ValidationInv)'
    BY DEF JobsInv, ValidationInv
  <2> QED BY <2>1, <2>2, <2>3, <2>4, <2>5, <2>6, <2>7
<1>6. ASSUME NEW r \in Requests, EnqueueValidation(r)
      PROVE  IInv'
  <2> USE <1>6 DEF EnqueueValidation, Reply
  <2>1. req[r].attempt \in Attempts
    BY DEF HandlersInv
  <2>2. TypeOK'
    <3>1. jobs' \in [Jobs -> Job]
      BY <2>1, EnqueueTyped
    <3>2. req' \in [Requests -> Handler]
      BY DEF Handler, NoHandler, RequestSteps
    <3> QED BY <3>1, <3>2
  <2>3. HandlersInv'
    BY <2>1 DEF HandlersInv, Handler, NoHandler, Job, FreeJob
  <2>4. JobsInv'
    BY <2>1 DEF JobsInv, HandlersInv, Handler, NoHandler, Job, FreeJob, Enqueue
  <2>5. (/\ ValidationInv
         /\ ReceiptInv
         /\ ConfirmedContentValid
         /\ PointersResolve
         /\ ReceiptBindsConfirmedAttempt)'
    BY DEF ValidationInv, ReceiptInv, ConfirmedContentValid, PointersResolve,
       ReceiptBindsConfirmedAttempt
  <2> QED BY <2>2, <2>3, <2>4, <2>5
<1>7. ASSUME NEW r \in Requests, CancelAttestation(r)
      PROVE  IInv'
  <2> USE <1>7 DEF CancelAttestation, Reply
  <2>1. TypeOK'
    <3>1. att' \in Row
      BY DEF Row, AttestationStates
    <3>2. attempt' \in [Attempts -> AttemptStates]
      BY DEF AttemptStates
    <3>3. req' \in [Requests -> Handler]
      BY DEF Handler, NoHandler, RequestSteps
    <3> QED BY <3>1, <3>2, <3>3
  <2>2. HandlersInv'
    BY DEF HandlersInv, Handler, NoHandler
  <2>3. ReceiptInv'
    BY DEF ReceiptInv, Handler, NoHandler, Row
  <2>4. ConfirmedContentValid'
    BY DEF ConfirmedContentValid, Handler, NoHandler, Row
  <2>5. PointersResolve'
    BY DEF PointersResolve, Handler, NoHandler, Row
  <2>6. ReceiptBindsConfirmedAttempt'
    BY DEF ReceiptBindsConfirmedAttempt, Handler, NoHandler, Row
  <2>7. (JobsInv /\ ValidationInv)'
    BY DEF JobsInv, ValidationInv
  <2> QED BY <2>1, <2>2, <2>3, <2>4, <2>5, <2>6, <2>7
<1>8. ASSUME NEW r \in Requests, NEW a \in Attempts, InsertRepairAttempt(r, a)
      PROVE  IInv'
  <2> USE <1>8 DEF InsertRepairAttempt, Goto
  <2>1. TypeOK'
    <3>1. attempt' \in [Attempts -> AttemptStates]
      BY DEF AttemptStates
    <3>2. req' \in [Requests -> Handler]
      BY HandlerGoto DEF RequestSteps
    <3> QED BY <3>1, <3>2
  <2>2. HandlersInv'
    BY DEF HandlersInv, Handler, NoHandler
  <2>3. PointersResolve'
    BY DEF PointersResolve, Handler, NoHandler
  <2>4. (/\ JobsInv
         /\ ValidationInv
         /\ ReceiptInv
         /\ ConfirmedContentValid
         /\ ReceiptBindsConfirmedAttempt)'
    BY DEF JobsInv, ValidationInv, ReceiptInv, ConfirmedContentValid,
       ReceiptBindsConfirmedAttempt
  <2> QED BY <2>1, <2>2, <2>3, <2>4
<1>9. ASSUME NEW r \in Requests, ReopenAttestation(r)
      PROVE  IInv'
  <2> USE <1>9 DEF ReopenAttestation, Reply
  <2>1. TypeOK'
    <3>1. att' \in Row
      BY DEF Row, AttestationStates
    <3>2. req' \in [Requests -> Handler]
      BY DEF Handler, NoHandler, RequestSteps
    <3> QED BY <3>1, <3>2
  <2>2. HandlersInv'
    BY DEF HandlersInv, Handler, NoHandler
  <2>3. ReceiptInv'
    BY DEF ReceiptInv, Handler, NoHandler, Row
  <2>4. ConfirmedContentValid'
    BY DEF ConfirmedContentValid, Handler, NoHandler, Row
  <2>5. PointersResolve'
    BY DEF PointersResolve, Handler, NoHandler, Row
  <2>6. ReceiptBindsConfirmedAttempt'
    BY DEF ReceiptBindsConfirmedAttempt, Handler, NoHandler, Row
  <2>7. (JobsInv /\ ValidationInv)'
    BY DEF JobsInv, ValidationInv
  <2> QED BY <2>1, <2>2, <2>3, <2>4, <2>5, <2>6, <2>7
<1>10. ASSUME NEW r \in Requests, RequestDies(r)
      PROVE  IInv'
  <2> USE <1>10 DEF RequestDies, Reply
  <2>1. TypeOK'
    <3>1. req' \in [Requests -> Handler]
      BY DEF Handler, NoHandler, RequestSteps
    <3>2. deaths' \in 0..MaxDeaths
      OBVIOUS
    <3> QED BY <3>1, <3>2
  <2>2. HandlersInv'
    BY DEF HandlersInv, Handler, NoHandler
  <2>3. (/\ JobsInv
         /\ ValidationInv
         /\ ReceiptInv
         /\ ConfirmedContentValid
         /\ PointersResolve
         /\ ReceiptBindsConfirmedAttempt)'
    BY DEF JobsInv, ValidationInv, ReceiptInv, ConfirmedContentValid,
       PointersResolve, ReceiptBindsConfirmedAttempt
  <2> QED BY <2>1, <2>2, <2>3
<1> QED
  BY <1>1, <1>2, <1>3, <1>4, <1>5, <1>6, <1>7, <1>8, <1>9, <1>10 DEF HandlerStep

\* So does every step of validateAttempt.
LEMMA ValidationStepOK == IInv /\ (\E w \in Processes : ValidationStep(w)) => IInv'
<1> SUFFICES ASSUME IInv, \E w \in Processes : ValidationStep(w) PROVE IInv'
  OBVIOUS
<1> USE ConstantsOK DEF IInv, TypeOK, rowVars, objectVars, eventVars, budgetVars
<1>1. ASSUME NEW w \in Processes, NEW j \in Jobs, BeginValidation(w, j)
      PROVE  IInv'
  <2> USE <1>1 DEF BeginValidation
  <2>1. TypeOK'
    <3>1. jobs' \in [Jobs -> Job]
      BY TakenTyped
    <3>2. vtask' \in [Processes -> Task(ValidationSteps)]
      BY DEF JobsInv, Task, NoTask, ValidationSteps
    <3> QED BY <3>1, <3>2
  <2>2. JobsInv'
    BY DEF JobsInv, Job, FreeJob, Task, NoTask, Taken
  <2>3. ValidationInv'
    BY DEF ValidationInv, JobsInv, PointersResolve, Job, FreeJob, Task, NoTask
  <2>4. (/\ HandlersInv
         /\ ReceiptInv
         /\ ConfirmedContentValid
         /\ PointersResolve
         /\ ReceiptBindsConfirmedAttempt)'
    BY DEF HandlersInv, ReceiptInv, ConfirmedContentValid, PointersResolve,
       ReceiptBindsConfirmedAttempt
  <2> QED BY <2>1, <2>2, <2>3, <2>4
<1>2. ASSUME NEW w \in Processes, NEW j \in Jobs, RefuseValidation(w, j)
      PROVE  IInv'
  <2> USE <1>2 DEF RefuseValidation
  <2>1. TypeOK'
    <3>1. jobs' \in [Jobs -> Job]
      BY FreeJobTyped
    <3> QED BY <3>1
  <2>2. JobsInv'
    BY DEF JobsInv, Job, FreeJob
  <2>3. (/\ HandlersInv
         /\ ValidationInv
         /\ ReceiptInv
         /\ ConfirmedContentValid
         /\ PointersResolve
         /\ ReceiptBindsConfirmedAttempt)'
    BY DEF HandlersInv, ValidationInv, ReceiptInv, ConfirmedContentValid,
       PointersResolve, ReceiptBindsConfirmedAttempt
  <2> QED BY <2>1, <2>2, <2>3
<1>3. ASSUME NEW w \in Processes, AcceptManifest(w)
      PROVE  IInv'
  <2> USE <1>3 DEF AcceptManifest
  <2>1. /\ vtask[w].attempt \in Attempts
        /\ manifestObj[vtask[w].attempt] \in Manifests
    BY DEF ValidationInv
  <2>2. TypeOK'
    <3>1. vtask' \in [Processes -> Task(ValidationSteps)]
      BY <2>1, TaskUpdate DEF ValidationSteps
    <3> QED BY <3>1
  <2>3. ValidationInv'
    BY <2>1 DEF ValidationInv, Task, NoTask
  <2>4. (/\ HandlersInv
         /\ JobsInv
         /\ ReceiptInv
         /\ ConfirmedContentValid
         /\ PointersResolve
         /\ ReceiptBindsConfirmedAttempt)'
    BY DEF HandlersInv, JobsInv, ReceiptInv, ConfirmedContentValid,
       PointersResolve, ReceiptBindsConfirmedAttempt
  <2> QED BY <2>2, <2>3, <2>4
<1>4. ASSUME NEW w \in Processes, RejectManifest(w)
      PROVE  IInv'
  <2> USE <1>4 DEF RejectManifest, NextValidation
  <2>1. TypeOK'
    <3>1. vtask' \in [Processes -> Task(ValidationSteps)]
      BY TaskGoto DEF ValidationSteps
    <3> QED BY <3>1
  <2>2. ValidationInv'
    BY DEF ValidationInv, Task, NoTask
  <2>3. (/\ HandlersInv
         /\ JobsInv
         /\ ReceiptInv
         /\ ConfirmedContentValid
         /\ PointersResolve
         /\ ReceiptBindsConfirmedAttempt)'
    BY DEF HandlersInv, JobsInv, ReceiptInv, ConfirmedContentValid,
       PointersResolve, ReceiptBindsConfirmedAttempt
  <2> QED BY <2>1, <2>2, <2>3
<1>5. ASSUME NEW w \in Processes, PutLeaves(w)
      PROVE  IInv'
  <2> USE <1>5 DEF PutLeaves, NextValidation
  <2>1. /\ vtask[w].attempt \in Attempts
        /\ vtask[w].manifest \in ValidManifests
        /\ vtask[w].manifest # None
    BY DEF ValidationInv
  <2>2. TypeOK'
    <3>1. leavesObj' \in [Attempts -> Manifests \cup {None}]
      BY DEF ValidationInv
    <3>2. vtask' \in [Processes -> Task(ValidationSteps)]
      BY TaskGoto DEF ValidationSteps
    <3> QED BY <3>1, <3>2
  <2>3. ValidationInv'
    BY <2>1 DEF ValidationInv, Task, NoTask
  <2>4. PointersResolve'
    BY <2>1 DEF PointersResolve, ValidationInv, Task, NoTask
  <2>5. (/\ HandlersInv
         /\ JobsInv
         /\ ReceiptInv
         /\ ConfirmedContentValid
         /\ ReceiptBindsConfirmedAttempt)'
    BY DEF HandlersInv, JobsInv, ReceiptInv, ConfirmedContentValid,
       ReceiptBindsConfirmedAttempt
  <2> QED BY <2>2, <2>3, <2>4, <2>5
<1>6. ASSUME NEW w \in Processes, PutResult(w)
      PROVE  IInv'
  <2> USE <1>6 DEF PutResult, NextValidation
  <2>1. TypeOK'
    <3>1. resultObj' \in [Attempts -> {"validated", "failed", None}]
      OBVIOUS
    <3>2. vtask' \in [Processes -> Task(ValidationSteps)]
      BY TaskGoto DEF ValidationSteps
    <3> QED BY <3>1, <3>2
  <2>2. ValidationInv'
    BY DEF ValidationInv, Task, NoTask
  <2>3. PointersResolve'
    BY DEF PointersResolve, ValidationInv, Task, NoTask
  <2>4. (/\ HandlersInv
         /\ JobsInv
         /\ ReceiptInv
         /\ ConfirmedContentValid
         /\ ReceiptBindsConfirmedAttempt)'
    BY DEF HandlersInv, JobsInv, ReceiptInv, ConfirmedContentValid,
       ReceiptBindsConfirmedAttempt
  <2> QED BY <2>1, <2>2, <2>3, <2>4
<1>7. ASSUME NEW w \in Processes, CommitValidated(w)
      PROVE  IInv'
  <2> USE <1>7 DEF CommitValidated, NextValidation
  <2>1. vtask[w].attempt \in Attempts /\ vtask[w].manifest \in ValidManifests
    BY DEF ValidationInv
  <2>2. TypeOK'
    <3>1. att' \in Row
      BY <2>1 DEF Row, AttestationStates
    <3>2. attempt' \in [Attempts -> AttemptStates]
      BY DEF AttemptStates
    <3>3. vtask' \in [Processes -> Task(ValidationSteps)]
      BY TaskGoto DEF ValidationSteps
    <3> QED BY <3>1, <3>2, <3>3
  <2>3. ValidationInv'
    BY <2>1 DEF ValidationInv, Task, NoTask
  <2>4. ReceiptInv'
    BY <2>1 DEF ReceiptInv, Task, NoTask, Row
  <2>5. ConfirmedContentValid'
    BY <2>1 DEF ConfirmedContentValid, ValidationInv, Task, NoTask, Row
  <2>6. PointersResolve'
    BY <2>1 DEF PointersResolve, ValidationInv, Task, NoTask, Row
  <2>7. ReceiptBindsConfirmedAttempt'
    BY <2>1 DEF ReceiptBindsConfirmedAttempt, Task, NoTask, Row
  <2>8. (HandlersInv /\ JobsInv)'
    BY DEF HandlersInv, JobsInv
  <2> QED BY <2>2, <2>3, <2>4, <2>5, <2>6, <2>7, <2>8
<1>8. ASSUME NEW w \in Processes, AnnounceConfirmed(w)
      PROVE  IInv'
  <2> USE <1>8 DEF AnnounceConfirmed, NextValidation
  <2>1. TypeOK'
    <3>1. announced' \subseteq Events
      BY DEF ValidationInv, Events
    <3>2. vtask' \in [Processes -> Task(ValidationSteps)]
      BY TaskGoto DEF ValidationSteps
    <3> QED BY <3>1, <3>2
  <2>2. ValidationInv'
    BY DEF ValidationInv, Task, NoTask
  <2>3. ReceiptBindsConfirmedAttempt'
    BY DEF ReceiptBindsConfirmedAttempt, Task, NoTask
  <2>4. (/\ HandlersInv
         /\ JobsInv
         /\ ReceiptInv
         /\ ConfirmedContentValid
         /\ PointersResolve)'
    BY DEF HandlersInv, JobsInv, ReceiptInv, ConfirmedContentValid,
       PointersResolve
  <2> QED BY <2>1, <2>2, <2>3, <2>4
<1>9. ASSUME NEW w \in Processes, EnqueueReceipt(w)
      PROVE  IInv'
  <2> USE <1>9 DEF EnqueueReceipt, NextValidation
  <2>1. vtask[w].attempt \in Attempts
    BY DEF ValidationInv
  <2>2. TypeOK'
    <3>1. jobs' \in [Jobs -> Job]
      BY <2>1, EnqueueTyped
    <3>2. vtask' \in [Processes -> Task(ValidationSteps)]
      BY TaskGoto DEF ValidationSteps
    <3> QED BY <3>1, <3>2
  <2>3. JobsInv'
    BY <2>1 DEF JobsInv, ValidationInv, Job, FreeJob, Task, NoTask, Enqueue
  <2>4. ValidationInv'
    BY <2>1 DEF ValidationInv, Job, FreeJob, Task, NoTask
  <2>5. (/\ HandlersInv
         /\ ReceiptInv
         /\ ConfirmedContentValid
         /\ PointersResolve
         /\ ReceiptBindsConfirmedAttempt)'
    BY DEF HandlersInv, ReceiptInv, ConfirmedContentValid, PointersResolve,
       ReceiptBindsConfirmedAttempt
  <2> QED BY <2>2, <2>3, <2>4, <2>5
<1>10. ASSUME NEW w \in Processes, RecordFailure(w)
      PROVE  IInv'
  <2> USE <1>10 DEF RecordFailure, NextValidation
  <2>1. \A a \in Attempts : resultObj[a] # None => resultObj'[a] # None
    OBVIOUS
  <2>2. TypeOK'
    <3>1. resultObj' \in [Attempts -> {"validated", "failed", None}]
      OBVIOUS
    <3>2. vtask' \in [Processes -> Task(ValidationSteps)]
      BY TaskGoto DEF ValidationSteps
    <3> QED BY <3>1, <3>2
  <2>3. ValidationInv'
    BY <2>1 DEF ValidationInv, Task, NoTask
  <2>4. PointersResolve'
    BY <2>1 DEF PointersResolve, Row
  <2>5. (/\ HandlersInv
         /\ JobsInv
         /\ ReceiptInv
         /\ ConfirmedContentValid
         /\ ReceiptBindsConfirmedAttempt)'
    BY DEF HandlersInv, JobsInv, ReceiptInv, ConfirmedContentValid,
       ReceiptBindsConfirmedAttempt
  <2> QED BY <2>2, <2>3, <2>4, <2>5
<1>11. ASSUME NEW w \in Processes, CommitFailed(w)
      PROVE  IInv'
  <2> USE <1>11 DEF CommitFailed, NextValidation
  <2>1. TypeOK'
    <3>1. att' \in Row
      BY DEF Row, AttestationStates
    <3>2. attempt' \in [Attempts -> AttemptStates]
      BY DEF AttemptStates
    <3>3. vtask' \in [Processes -> Task(ValidationSteps)]
      BY TaskGoto DEF ValidationSteps
    <3> QED BY <3>1, <3>2, <3>3
  <2>2. ValidationInv'
    BY DEF ValidationInv, Task, NoTask
  <2>3. ReceiptInv'
    BY DEF ReceiptInv, Task, NoTask, Row
  <2>4. ConfirmedContentValid'
    BY DEF ConfirmedContentValid, Task, NoTask, Row
  <2>5. PointersResolve'
    BY DEF PointersResolve, Task, NoTask, Row
  <2>6. ReceiptBindsConfirmedAttempt'
    BY DEF ReceiptBindsConfirmedAttempt, Task, NoTask, Row
  <2>7. (HandlersInv /\ JobsInv)'
    BY DEF HandlersInv, JobsInv
  <2> QED BY <2>1, <2>2, <2>3, <2>4, <2>5, <2>6, <2>7
<1>12. ASSUME NEW w \in Processes, AnnounceFailed(w)
      PROVE  IInv'
  <2> USE <1>12 DEF AnnounceFailed, NextValidation
  <2>1. TypeOK'
    <3>1. announced' \subseteq Events
      BY DEF ValidationInv, Events
    <3>2. vtask' \in [Processes -> Task(ValidationSteps)]
      BY TaskGoto DEF ValidationSteps
    <3> QED BY <3>1, <3>2
  <2>2. ValidationInv'
    BY DEF ValidationInv, Task, NoTask
  <2>3. ReceiptBindsConfirmedAttempt'
    BY DEF ReceiptBindsConfirmedAttempt, Task, NoTask
  <2>4. (/\ HandlersInv
         /\ JobsInv
         /\ ReceiptInv
         /\ ConfirmedContentValid
         /\ PointersResolve)'
    BY DEF HandlersInv, JobsInv, ReceiptInv, ConfirmedContentValid,
       PointersResolve
  <2> QED BY <2>1, <2>2, <2>3, <2>4
<1>13. ASSUME NEW w \in Processes, CompleteValidation(w)
      PROVE  IInv'
  <2> USE <1>13 DEF CompleteValidation
  <2>1. TypeOK'
    <3>1. jobs' \in [Jobs -> Job]
      BY CompletedTyped
    <3>2. vtask' \in [Processes -> Task(ValidationSteps)]
      BY DEF Task, NoTask, ValidationSteps
    <3> QED BY <3>1, <3>2
  <2>2. JobsInv'
    BY DEF JobsInv, Job, FreeJob, Task, NoTask, Completed
  <2>3. ValidationInv'
    BY DEF ValidationInv, Job, FreeJob, Task, NoTask
  <2>4. (/\ HandlersInv
         /\ ReceiptInv
         /\ ConfirmedContentValid
         /\ PointersResolve
         /\ ReceiptBindsConfirmedAttempt)'
    BY DEF HandlersInv, ReceiptInv, ConfirmedContentValid, PointersResolve,
       ReceiptBindsConfirmedAttempt
  <2> QED BY <2>1, <2>2, <2>3, <2>4
<1> QED
  BY <1>1, <1>2, <1>3, <1>4, <1>5, <1>6, <1>7, <1>8, <1>9, <1>10, <1>11, <1>12,
     <1>13 DEF ValidationStep

\* So does every step of generateReceipt.
LEMMA ReceiptStepOK == IInv /\ (\E w \in Processes : ReceiptStep(w)) => IInv'
<1> SUFFICES ASSUME IInv, \E w \in Processes : ReceiptStep(w) PROVE IInv'
  OBVIOUS
<1> USE ConstantsOK DEF IInv, TypeOK, rowVars, objectVars, eventVars, budgetVars
<1>1. ASSUME NEW w \in Processes, NEW j \in Jobs, BeginReceipt(w, j)
      PROVE  IInv'
  <2> USE <1>1 DEF BeginReceipt, CanIssue
  <2>1. TypeOK'
    <3>1. jobs' \in [Jobs -> Job]
      BY TakenTyped
    <3>2. rtask' \in [Processes -> Task(ReceiptSteps)]
      BY DEF JobsInv, Task, NoTask, ReceiptSteps
    <3> QED BY <3>1, <3>2
  <2>2. JobsInv'
    BY DEF JobsInv, Job, FreeJob, Task, NoTask, Taken
  <2>3. ReceiptInv'
    BY DEF ReceiptInv, JobsInv, Job, FreeJob, Task, NoTask
  <2>4. (/\ HandlersInv
         /\ ValidationInv
         /\ ConfirmedContentValid
         /\ PointersResolve
         /\ ReceiptBindsConfirmedAttempt)'
    BY DEF HandlersInv, ValidationInv, ConfirmedContentValid, PointersResolve,
       ReceiptBindsConfirmedAttempt
  <2> QED BY <2>1, <2>2, <2>3, <2>4
<1>2. ASSUME NEW w \in Processes, NEW j \in Jobs, SkipReceipt(w, j)
      PROVE  IInv'
  <2> USE <1>2 DEF SkipReceipt
  <2>1. TypeOK'
    <3>1. jobs' \in [Jobs -> Job]
      BY FreeJobTyped
    <3> QED BY <3>1
  <2>2. JobsInv'
    BY DEF JobsInv, Job, FreeJob
  <2>3. (/\ HandlersInv
         /\ ValidationInv
         /\ ReceiptInv
         /\ ConfirmedContentValid
         /\ PointersResolve
         /\ ReceiptBindsConfirmedAttempt)'
    BY DEF HandlersInv, ValidationInv, ReceiptInv, ConfirmedContentValid,
       PointersResolve, ReceiptBindsConfirmedAttempt
  <2> QED BY <2>1, <2>2, <2>3
<1>3. ASSUME NEW w \in Processes, NEW p \in Packages, BuildReceipt(w, p)
      PROVE  IInv'
  <2> USE <1>3 DEF BuildReceipt
  <2>1. /\ rtask[w].attempt \in Attempts
        /\ manifestObj[rtask[w].attempt] \in Manifests \cup {None}
    BY DEF ReceiptInv
  <2>2. TypeOK'
    <3>1. rtask' \in [Processes -> Task(ReceiptSteps)]
      BY <2>1, TaskUpdate DEF ReceiptSteps
    <3>2. drawn' \subseteq Packages
      OBVIOUS
    <3> QED BY <3>1, <3>2
  <2>3. ReceiptInv'
    BY <2>1 DEF ReceiptInv, Task, NoTask
  <2>4. (/\ HandlersInv
         /\ JobsInv
         /\ ValidationInv
         /\ ConfirmedContentValid
         /\ PointersResolve
         /\ ReceiptBindsConfirmedAttempt)'
    BY DEF HandlersInv, JobsInv, ValidationInv, ConfirmedContentValid,
       PointersResolve, ReceiptBindsConfirmedAttempt
  <2> QED BY <2>2, <2>3, <2>4
<1>4. ASSUME NEW w \in Processes, PutReceipt(w)
      PROVE  IInv'
  <2> USE <1>4 DEF PutReceipt, NextReceipt
  <2>1. TypeOK'
    <3>1. receiptObj' \in [Attempts -> Receipt]
      BY DEF ReceiptInv, Receipt, Task
    <3>2. rtask' \in [Processes -> Task(ReceiptSteps)]
      BY TaskGoto DEF ReceiptSteps
    <3> QED BY <3>1, <3>2
  <2>2. ReceiptInv'
    BY DEF ReceiptInv, Task, NoTask, Receipt, NoReceipt
  <2>3. PointersResolve'
    BY DEF PointersResolve, ReceiptInv, Task, NoTask, Receipt, NoReceipt
  <2>4. (/\ HandlersInv
         /\ JobsInv
         /\ ValidationInv
         /\ ConfirmedContentValid
         /\ ReceiptBindsConfirmedAttempt)'
    BY DEF HandlersInv, JobsInv, ValidationInv, ConfirmedContentValid,
       ReceiptBindsConfirmedAttempt
  <2> QED BY <2>1, <2>2, <2>3, <2>4
<1>5. ASSUME NEW w \in Processes, CommitReceipt(w)
      PROVE  IInv'
  <2> USE <1>5 DEF CommitReceipt, NextReceipt
  <2>1. rtask[w].attempt \in Attempts /\ rtask[w].package \in Packages
    BY DEF ReceiptInv
  <2>2. TypeOK'
    <3>1. att' \in Row
      BY <2>1 DEF Row, AttestationStates
    <3>2. links' \subseteq Packages
      BY DEF ReceiptInv
    <3>3. rtask' \in [Processes -> Task(ReceiptSteps)]
      BY TaskGoto DEF ReceiptSteps
    <3> QED BY <3>1, <3>2, <3>3
  <2>3. ReceiptInv'
    BY <2>1 DEF ReceiptInv, Task, NoTask, Row, Receipt, NoReceipt
  <2>4. ConfirmedContentValid'
    BY <2>1 DEF ConfirmedContentValid, Task, NoTask, Row
  <2>5. PointersResolve'
    BY <2>1 DEF PointersResolve, ReceiptInv, Task, NoTask, Row, Receipt, NoReceipt
  <2>6. ReceiptBindsConfirmedAttempt'
    BY <2>1 DEF ReceiptBindsConfirmedAttempt, ReceiptInv, Task, NoTask, Row
  <2>7. (HandlersInv /\ JobsInv /\ ValidationInv)'
    BY DEF HandlersInv, JobsInv, ValidationInv
  <2> QED BY <2>2, <2>3, <2>4, <2>5, <2>6, <2>7
<1>6. ASSUME NEW w \in Processes, AnnounceReceipt(w)
      PROVE  IInv'
  <2> USE <1>6 DEF AnnounceReceipt, NextReceipt
  <2>1. TypeOK'
    <3>1. announced' \subseteq Events
      BY DEF ReceiptInv, Events
    <3>2. rtask' \in [Processes -> Task(ReceiptSteps)]
      BY TaskGoto DEF ReceiptSteps
    <3> QED BY <3>1, <3>2
  <2>2. ReceiptInv'
    BY DEF ReceiptInv, Task, NoTask, Receipt, NoReceipt
  <2>3. ReceiptBindsConfirmedAttempt'
    BY DEF ReceiptBindsConfirmedAttempt, ReceiptInv, Task, NoTask
  <2>4. (/\ HandlersInv
         /\ JobsInv
         /\ ValidationInv
         /\ ConfirmedContentValid
         /\ PointersResolve)'
    BY DEF HandlersInv, JobsInv, ValidationInv, ConfirmedContentValid,
       PointersResolve
  <2> QED BY <2>1, <2>2, <2>3, <2>4
<1>7. ASSUME NEW w \in Processes, RenderReceiptPdf(w)
      PROVE  IInv'
  <2> USE <1>7 DEF RenderReceiptPdf, NextReceipt
  <2>1. /\ /\ att'.state = att.state
        /\ att'.confirmed = att.confirmed
        /\ att'.root = att.root
        /\ att'.package = att.package /\ att'.receipt = att.receipt
    BY DEF Row
  <2>2. TypeOK'
    <3>1. att' \in Row
      <4>1. CASE att' = [att EXCEPT !.pdf = TRUE]
        BY <4>1 DEF Row
      <4>2. CASE UNCHANGED att
        BY <4>2
      <4> QED BY <4>1, <4>2
    <3>2. rtask' \in [Processes -> Task(ReceiptSteps)]
      BY TaskGoto DEF ReceiptSteps
    <3> QED BY <3>1, <3>2
  <2>3. ReceiptInv'
    BY <2>1 DEF ReceiptInv, Task, NoTask, Row
  <2>4. ConfirmedContentValid'
    BY <2>1 DEF ConfirmedContentValid, Task, NoTask, Row
  <2>5. PointersResolve'
    BY <2>1 DEF PointersResolve, Task, NoTask, Row
  <2>6. ReceiptBindsConfirmedAttempt'
    BY <2>1 DEF ReceiptBindsConfirmedAttempt, Task, NoTask, Row
  <2>7. (HandlersInv /\ JobsInv /\ ValidationInv)'
    BY DEF HandlersInv, JobsInv, ValidationInv
  <2> QED BY <2>2, <2>3, <2>4, <2>5, <2>6, <2>7
<1>8. ASSUME NEW w \in Processes, CompleteReceipt(w)
      PROVE  IInv'
  <2> USE <1>8 DEF CompleteReceipt
  <2>1. TypeOK'
    <3>1. jobs' \in [Jobs -> Job]
      BY CompletedTyped
    <3>2. rtask' \in [Processes -> Task(ReceiptSteps)]
      BY DEF Task, NoTask, ReceiptSteps
    <3> QED BY <3>1, <3>2
  <2>2. JobsInv'
    BY DEF JobsInv, Job, FreeJob, Task, NoTask, Completed
  <2>3. ReceiptInv'
    BY DEF ReceiptInv, Job, FreeJob, Task, NoTask
  <2>4. (/\ HandlersInv
         /\ ValidationInv
         /\ ConfirmedContentValid
         /\ PointersResolve
         /\ ReceiptBindsConfirmedAttempt)'
    BY DEF HandlersInv, ValidationInv, ConfirmedContentValid, PointersResolve,
       ReceiptBindsConfirmedAttempt
  <2> QED BY <2>1, <2>2, <2>3, <2>4
<1>9. ASSUME NEW w \in Processes, RefuseManifestForReceipt(w)
      PROVE  IInv'
  <2> USE <1>9 DEF RefuseManifestForReceipt, NextReceipt
  <2>1. TypeOK'
    <3>1. rtask' \in [Processes -> Task(ReceiptSteps)]
      BY TaskGoto DEF ReceiptSteps
    <3> QED BY <3>1
  <2>2. ReceiptInv'
    BY DEF ReceiptInv, Task, NoTask
  <2>3. (/\ HandlersInv
         /\ JobsInv
         /\ ValidationInv
         /\ ConfirmedContentValid
         /\ PointersResolve
         /\ ReceiptBindsConfirmedAttempt)'
    BY DEF HandlersInv, JobsInv, ValidationInv, ConfirmedContentValid,
       PointersResolve, ReceiptBindsConfirmedAttempt
  <2> QED BY <2>1, <2>2, <2>3
<1> QED
  BY <1>1, <1>2, <1>3, <1>4, <1>5, <1>6, <1>7, <1>8, <1>9
     DEF ReceiptStep

\* So does every fault of a worker.
LEMMA FaultStepOK == IInv /\ WorkerFault => IInv'
<1> SUFFICES ASSUME IInv, WorkerFault PROVE IInv'
  OBVIOUS
<1> USE ConstantsOK DEF IInv, TypeOK, rowVars, objectVars, eventVars, budgetVars
<1>1. ASSUME NEW w \in Processes, EnvironmentRejects(w)
      PROVE  IInv'
  <2> USE <1>1 DEF EnvironmentRejects, NextValidation
  <2>1. TypeOK'
    <3>1. vtask' \in [Processes -> Task(ValidationSteps)]
      BY TaskGoto DEF ValidationSteps
    <3>2. faults' \in 0..MaxFaults
      OBVIOUS
    <3> QED BY <3>1, <3>2
  <2>2. ValidationInv'
    BY DEF ValidationInv, Task, NoTask
  <2>3. (/\ HandlersInv
         /\ JobsInv
         /\ ReceiptInv
         /\ ConfirmedContentValid
         /\ PointersResolve
         /\ ReceiptBindsConfirmedAttempt)'
    BY DEF HandlersInv, JobsInv, ReceiptInv, ConfirmedContentValid,
       PointersResolve, ReceiptBindsConfirmedAttempt
  <2> QED BY <2>1, <2>2, <2>3
<1>2. ASSUME NEW w \in Processes, ThrowValidation(w)
      PROVE  IInv'
  <2> USE <1>2 DEF ThrowValidation
  <2>1. TypeOK'
    <3>1. jobs' \in [Jobs -> Job]
      BY RetriedTyped
    <3>2. vtask' \in [Processes -> Task(ValidationSteps)]
      BY DEF Task, NoTask, ValidationSteps
    <3>3. faults' \in 0..MaxFaults
      OBVIOUS
    <3> QED BY <3>1, <3>2, <3>3
  <2>2. JobsInv'
    BY DEF JobsInv, Job, FreeJob, Task, NoTask, Retried
  <2>3. ValidationInv'
    BY DEF ValidationInv, Job, FreeJob, Task, NoTask
  <2>4. (/\ HandlersInv
         /\ ReceiptInv
         /\ ConfirmedContentValid
         /\ PointersResolve
         /\ ReceiptBindsConfirmedAttempt)'
    BY DEF HandlersInv, ReceiptInv, ConfirmedContentValid, PointersResolve,
       ReceiptBindsConfirmedAttempt
  <2> QED BY <2>1, <2>2, <2>3, <2>4
<1>3. ASSUME NEW w \in Processes, FetchForReceiptFails(w)
      PROVE  IInv'
  <2> USE <1>3 DEF FetchForReceiptFails, NextReceipt
  <2>1. TypeOK'
    <3>1. rtask' \in [Processes -> Task(ReceiptSteps)]
      BY TaskGoto DEF ReceiptSteps
    <3>2. faults' \in 0..MaxFaults
      OBVIOUS
    <3> QED BY <3>1, <3>2
  <2>2. ReceiptInv'
    BY DEF ReceiptInv, Task, NoTask
  <2>3. (/\ HandlersInv
         /\ JobsInv
         /\ ValidationInv
         /\ ConfirmedContentValid
         /\ PointersResolve
         /\ ReceiptBindsConfirmedAttempt)'
    BY DEF HandlersInv, JobsInv, ValidationInv, ConfirmedContentValid,
       PointersResolve, ReceiptBindsConfirmedAttempt
  <2> QED BY <2>1, <2>2, <2>3
<1>4. ASSUME NEW w \in Processes, ThrowReceipt(w)
      PROVE  IInv'
  <2> USE <1>4 DEF ThrowReceipt
  <2>1. TypeOK'
    <3>1. jobs' \in [Jobs -> Job]
      BY RetriedTyped
    <3>2. rtask' \in [Processes -> Task(ReceiptSteps)]
      BY DEF Task, NoTask, ReceiptSteps
    <3>3. faults' \in 0..MaxFaults
      OBVIOUS
    <3> QED BY <3>1, <3>2, <3>3
  <2>2. JobsInv'
    BY DEF JobsInv, Job, FreeJob, Task, NoTask, Retried
  <2>3. ReceiptInv'
    BY DEF ReceiptInv, Job, FreeJob, Task, NoTask
  <2>4. (/\ HandlersInv
         /\ ValidationInv
         /\ ConfirmedContentValid
         /\ PointersResolve
         /\ ReceiptBindsConfirmedAttempt)'
    BY DEF HandlersInv, ValidationInv, ConfirmedContentValid, PointersResolve,
       ReceiptBindsConfirmedAttempt
  <2> QED BY <2>1, <2>2, <2>3, <2>4
<1>5. ASSUME NEW w \in Processes, Crash(w)
      PROVE  IInv'
  <2> USE <1>5 DEF Crash
  <2>1. TypeOK'
    <3>1. jobs' \in [Jobs -> Job]
      BY UnlockedTyped
    <3>2. vtask' \in [Processes -> Task(ValidationSteps)]
      BY DEF Task, NoTask, ValidationSteps
    <3>3. rtask' \in [Processes -> Task(ReceiptSteps)]
      BY DEF Task, NoTask, ReceiptSteps
    <3>4. faults' \in 0..MaxFaults
      OBVIOUS
    <3> QED BY <3>1, <3>2, <3>3, <3>4
  <2>2. JobsInv'
    <3>1. \A j \in Jobs :
            jobs'[j].kind = jobs[j].kind /\ jobs'[j].attempt = jobs[j].attempt
      BY UnlockedKeeps
    <3> QED BY <3>1 DEF JobsInv
  <2>3. ValidationInv'
    BY DEF ValidationInv, Job, FreeJob, Task, NoTask
  <2>4. ReceiptInv'
    BY DEF ReceiptInv, Job, FreeJob, Task, NoTask
  <2>5. (/\ HandlersInv
         /\ ConfirmedContentValid
         /\ PointersResolve
         /\ ReceiptBindsConfirmedAttempt)'
    BY DEF HandlersInv, ConfirmedContentValid, PointersResolve,
       ReceiptBindsConfirmedAttempt
  <2> QED BY <2>1, <2>2, <2>3, <2>4, <2>5
<1>6. ASSUME NEW j \in Jobs, LoseLock(j)
      PROVE  IInv'
  <2> USE <1>6 DEF LoseLock
  <2>1. TypeOK'
    <3>1. jobs' \in [Jobs -> Job]
      BY UnlockedTyped
    <3>2. faults' \in 0..MaxFaults
      OBVIOUS
    <3> QED BY <3>1, <3>2
  <2>2. JobsInv'
    BY DEF JobsInv, Job, FreeJob, Unlocked
  <2>3. (/\ HandlersInv
         /\ ValidationInv
         /\ ReceiptInv
         /\ ConfirmedContentValid
         /\ PointersResolve
         /\ ReceiptBindsConfirmedAttempt)'
    BY DEF HandlersInv, ValidationInv, ReceiptInv, ConfirmedContentValid,
       PointersResolve, ReceiptBindsConfirmedAttempt
  <2> QED BY <2>1, <2>2, <2>3
<1> QED
  BY <1>1, <1>2, <1>3, <1>4, <1>5, <1>6 DEF WorkerFault

\* IInv is inductive: it holds in every reachable state.
LEMMA Inductive == Spec => []IInv
<1>1. Init => IInv
  BY InitOK
<1>2. IInv /\ [Next]_vars => IInv'
  <2> SUFFICES ASSUME IInv, [Next]_vars PROVE IInv'
    OBVIOUS
  <2>1. CASE Next
    BY <2>1, ClientStepOK, HandlerStepOK, ValidationStepOK, ReceiptStepOK,
       FaultStepOK
       DEF Next
  <2>2. CASE UNCHANGED vars
    BY <2>2 DEF vars, rowVars, objectVars, eventVars, budgetVars, IInv, TypeOK,
       HandlersInv, JobsInv, ValidationInv, ReceiptInv, ConfirmedContentValid,
       PointersResolve, ReceiptBindsConfirmedAttempt
  <2> QED BY <2>1, <2>2
<1> QED
  BY <1>1, <1>2, PTL DEF Spec

\* Every variable keeps its type: no handler, job or task ends up with an
\* attempt, a package or a lock owner that does not exist.
THEOREM TypeCorrect == Spec => []TypeOK
<1>1. IInv => TypeOK
  BY DEF IInv
<1> QED
  BY <1>1, Inductive, PTL

\* An attestation is confirmed only with the root of a manifest the worker
\* checked (validateAttempt), however uploads interleave with validation.
THEOREM ConfirmedContentIsValid == Spec => []ConfirmedContentValid
<1>1. IInv => ConfirmedContentValid
  BY DEF IInv
<1> QED
  BY <1>1, Inductive, PTL

\* An object key stored in a row always names an object that was put, across
\* any crash of an API handler or of a worker process.
THEOREM PointersAlwaysResolve == Spec => []PointersResolve
<1>1. IInv => PointersResolve
  BY DEF IInv
<1> QED
  BY <1>1, Inductive, PTL

\* generateReceipt issues receipts, links and events for the confirmed attempt
\* only, however stale the row it read is when it commits.
THEOREM ReceiptsBindConfirmedAttempt == Spec => []ReceiptBindsConfirmedAttempt
<1>1. IInv => ReceiptBindsConfirmedAttempt
  BY DEF IInv
<1> QED
  BY <1>1, Inductive, PTL

-----------------------------------------------------------------------------
(* What a step does to the confirmation and to the receipt of the row       *)

RecordsUnchanged ==
  /\ att'.confirmed = att.confirmed
  /\ att'.root = att.root
  /\ att'.package = att.package
  /\ att'.receipt = att.receipt

RecordsConfirmed ==
  /\ att.confirmed = None
  /\ att'.confirmed \in Attempts
  /\ att'.root \in ValidManifests
  /\ att'.package = att.package
  /\ att'.receipt = att.receipt

RecordsIssued ==
  /\ att.confirmed # None
  /\ att'.confirmed = att.confirmed
  /\ att'.root = att.root
  /\ att'.package \in Packages
  /\ att'.receipt = att.confirmed

\* Only CommitValidated confirms and only CommitReceipt issues: every other
\* action leaves the four columns alone.
LEMMA RecordsStep ==
  ASSUME IInv, [Next]_vars
  PROVE  RecordsUnchanged \/ RecordsConfirmed \/ RecordsIssued
<1> USE DEF rowVars, objectVars, eventVars, budgetVars
<1>1. att \in Row
  BY DEF IInv, TypeOK
<1>2. CASE UNCHANGED att
  BY <1>2 DEF RecordsUnchanged
<1>3. ASSUME NEW r \in Requests, HandlerStep(r) PROVE RecordsUnchanged
  BY <1>1, <1>3 DEF HandlerStep, PutManifest, MarkAttemptUploaded,
     MarkAttestationUploaded, MarkApiSubmission, MarkValidating, EnqueueValidation,
     CancelAttestation, InsertRepairAttempt, ReopenAttestation, RecordsUnchanged,
     Row
<1>4. ASSUME ClientCall PROVE RecordsUnchanged
  BY <1>1, <1>4 DEF ClientCall, CreateAttestation, SubmitByApi, FirstAttempt,
     BeginUpload, BeginFinalize, BeginCancel, BeginRepair, Begin, RecordsUnchanged,
     Row
<1>5. ASSUME NEW w \in Processes, CommitValidated(w)
      PROVE  RecordsUnchanged \/ RecordsConfirmed
  <2>1. vtask[w].attempt \in Attempts /\ vtask[w].manifest \in ValidManifests
    BY <1>5 DEF CommitValidated, IInv, ValidationInv
  <2> QED
    BY <1>1, <1>5, <2>1
       DEF CommitValidated, RecordsUnchanged, RecordsConfirmed, Row
<1>6. ASSUME NEW w \in Processes, CommitFailed(w) PROVE RecordsUnchanged
  BY <1>1, <1>6 DEF CommitFailed, RecordsUnchanged, Row
<1>7. ASSUME NEW w \in Processes, ValidationStep(w)
      PROVE  UNCHANGED att \/ CommitValidated(w) \/ CommitFailed(w)
  BY <1>7 DEF ValidationStep, BeginValidation, RefuseValidation, AcceptManifest,
     RejectManifest, PutLeaves, PutResult, AnnounceConfirmed, EnqueueReceipt,
     RecordFailure, AnnounceFailed, CompleteValidation
<1>8. ASSUME NEW w \in Processes, CommitReceipt(w) PROVE RecordsIssued
  <2>1. /\ rtask[w].attempt \in Attempts /\ att.confirmed = rtask[w].attempt
        /\ rtask[w].package \in Packages
    BY <1>8 DEF CommitReceipt, IInv, ReceiptInv
  <2> QED BY <1>1, <1>8, <2>1, ConstantsOK DEF CommitReceipt, RecordsIssued, Row
<1>9. ASSUME NEW w \in Processes, RenderReceiptPdf(w) PROVE RecordsUnchanged
  <2>1. CASE att' = [att EXCEPT !.pdf = TRUE]
    BY <1>1, <2>1 DEF RecordsUnchanged, Row
  <2> QED BY <1>9, <2>1 DEF RenderReceiptPdf, RecordsUnchanged
<1>10. ASSUME NEW w \in Processes, ReceiptStep(w)
       PROVE  UNCHANGED att \/ CommitReceipt(w) \/ RenderReceiptPdf(w)
  BY <1>10 DEF ReceiptStep, BeginReceipt, SkipReceipt, BuildReceipt,
     RefuseManifestForReceipt, PutReceipt, AnnounceReceipt, CompleteReceipt
<1>11. ASSUME WorkerFault PROVE UNCHANGED att
  BY <1>11 DEF WorkerFault, EnvironmentRejects, ThrowValidation,
     FetchForReceiptFails, ThrowReceipt, Crash, LoseLock
<1>12. ASSUME NEW r \in Requests, RequestDies(r) PROVE UNCHANGED att
  BY <1>12 DEF RequestDies
<1>13. CASE UNCHANGED vars
  BY <1>2, <1>13 DEF vars
<1>14. CASE Next
  BY <1>2, <1>3, <1>4, <1>5, <1>6, <1>7, <1>8, <1>9, <1>10, <1>11, <1>12, <1>14
     DEF Next
<1> QED
  BY <1>13, <1>14

\* The guard confirmed_at IS NULL of the confirming UPDATE is enough to make
\* the confirmation write-once, for any number of attempts and workers.
THEOREM ConfirmationIsWriteOnce == Spec => ConfirmationWriteOnce
<1>1. IInv /\ [Next]_vars =>
        [att.confirmed # None =>
           att'.confirmed = att.confirmed /\ att'.root = att.root]_att
  BY RecordsStep DEF RecordsUnchanged, RecordsConfirmed, RecordsIssued
<1> QED
  BY <1>1, Inductive, PTL DEF Spec, ConfirmationWriteOnce

\* The API, the queues and the workers implement ConfirmationRegister: one
\* confirmation, by a valid manifest, and receipts for that attempt alone.
THEOREM RegisterImplemented == Spec => ImplementsRegister
<1>1. Init => Register!Init
  BY DEF Init, Register!Init
<1>2. IInv /\ [Next]_vars => [Register!Next]_(Register!vars)
  <2> SUFFICES ASSUME IInv, [Next]_vars PROVE [Register!Next]_(Register!vars)
    OBVIOUS
  <2>1. CASE RecordsUnchanged
    BY <2>1 DEF RecordsUnchanged, Register!vars
  <2>2. CASE RecordsConfirmed
    <3>1. Register!Confirm(att'.confirmed, att'.root)
      BY <2>2, ConstantsOK DEF RecordsConfirmed, Register!Confirm
    <3> QED BY <2>2, <3>1 DEF RecordsConfirmed, Register!Next
  <2>3. CASE RecordsIssued
    <3>1. Register!Issue(att'.package)
      BY <2>3, ConstantsOK DEF RecordsIssued, Register!Issue
    <3> QED BY <2>3, <3>1 DEF RecordsIssued, Register!Next
  <2> QED BY <2>1, <2>2, <2>3, RecordsStep
<1> QED
  BY <1>1, <1>2, Inductive, PTL DEF Spec, ImplementsRegister, Register!Spec

-----------------------------------------------------------------------------
(* One call at a time                                                      *)

OneHandler ==
  \A r, q \in Requests : req[r] # NoHandler /\ req[q] # NoHandler => r = q

\* the attempt that may be confirmed or is
Open == {a \in Attempts : attempt[a] \in {"pending", "uploaded", "validated"}}
OneOpen == \A a, b \in Open : a = b

\* between the two writes of an upload and of a repair, and after a death, the row may
\* say less than the attempt
Settled == deaths = 0 /\ \A r \in Requests : req[r].step \notin {"markAttestation", "reopen"}
RowsSettled ==
  Settled =>
    \A a \in Attempts :
      /\ attempt[a] = "pending" => att.state = "pending"
      /\ attempt[a] = "uploaded" => att.state \in {"uploaded", "validating"}

ConfirmedRows ==
  /\ att.state = "confirmed" <=> att.confirmed # None
  /\ \A a \in Attempts : attempt[a] = "validated" <=> att.confirmed = a
  /\ att.confirmed # None => att.root = manifestObj[att.confirmed]
  /\ att.state = "absent" => \A a \in Attempts : attempt[a] = "absent"

FinalizedOnce ==
  \A a \in Attempts :
    attempt[a] = "uploaded" /\ att.state = "validating" /\ att.channel = "device"
      => a \in finalized

\* an attempt the worker may work on, or is done with
Undecided(a) == attempt[a] = "uploaded" /\ att.state = "validating"
Given(a) == Undecided(a) \/ attempt[a] \in {"validated", "failed"}

\* what a handler has read when it began still holds when it writes
HandlerKnows(t) ==
  /\ t.step \in {"put", "markAttempt"} =>
       /\ attempt[t.attempt] = "pending" /\ att.state = "pending"
       /\ t.op = "api" => att.channel = "api"
  /\ t.step = "markAttestation" => attempt[t.attempt] = "uploaded" /\ att.state = "pending"
  /\ t.step = "mark" =>
       attempt[t.attempt] = "uploaded" /\ att.state = "uploaded" /\ t.attempt \in finalized
  /\ t.step = "enqueue" => Given(t.attempt)
  /\ t.step = "cancel" => att.state \in {"pending", "uploaded"}
  /\ t.step = "insert" => att.state = "failed_needs_review" /\ Open = {}
  /\ t.step = "reopen" =>
       att.state = "failed_needs_review" /\ \A a \in Open : attempt[a] = "pending"
HandlersKnow == \A r \in Requests : HandlerKnows(req[r])

JobsGiven == \A j \in Jobs : jobs[j].kind = "validate" => Given(jobs[j].attempt)

Checking == {"fetch", "leaves", "result", "commit", "recordFailure", "commitFailure"}
ValidationKnows(t) ==
  /\ t.step \in Checking => Undecided(t.attempt)
  /\ t.step \in {"leaves", "result", "commit"} => t.manifest = manifestObj[t.attempt]
  /\ t.step = "commit" => resultObj[t.attempt] = "validated"
  /\ t.step = "announce" =>
       /\ att.confirmed = t.attempt /\ attempt[t.attempt] = "validated"
       /\ resultObj[t.attempt] = "validated"
  /\ t.step = "announceFailure" => attempt[t.attempt] = "failed"
ValidationsKnow == \A w \in Processes : ValidationKnows(vtask[w])

ReceiptKnows(t) ==
  /\ t.step \in {"fetch", "put", "commit"} => att.package = None
  /\ t.step \in {"put", "commit"} => t.manifest = att.root
  /\ t.step = "commit" => receiptObj[t.attempt] = [package |-> t.package, root |-> att.root]
ReceiptsKnow == \A w \in Processes : ReceiptKnows(rtask[w])

ClientSide ==
  /\ OneHandler /\ OneOpen /\ RowsSettled /\ ConfirmedRows /\ FinalizedOnce
  /\ HandlersKnow
WorkerSide == JobsGiven /\ ValidationsKnow /\ ReceiptsKnow /\ OutcomesAgree
SeqInv == IInv /\ ClientSide /\ WorkerSide

\* one step of the row's life, or none
Edge == att'.state # att.state => <<att.state, att'.state>> \in LifecycleEdges
Kept == att.confirmed # None => att'.renamed = att.renamed

-----------------------------------------------------------------------------
(* What the two sides owe each other                                        *)

\* a client's write leaves alone what the worker works on
KeepsWorker ==
  /\ \A a \in Attempts : Given(a) =>
       attempt'[a] = attempt[a] /\ manifestObj'[a] = manifestObj[a]
  /\ \A a \in Attempts : Undecided(a) => att'.state = "validating"
  /\ att'.confirmed = att.confirmed /\ att'.root = att.root
  /\ att'.package = att.package /\ att'.receipt = att.receipt
  /\ UNCHANGED <<resultObj, receiptObj, links, announced, vtask, rtask>>

\* The worker's tasks, and what was published, agree with the rows as before.
LEMMA WorkerKept ==
  ASSUME SeqInv, KeepsWorker
  PROVE  /\ UNCHANGED jobs => JobsGiven'
         /\ ValidationsKnow' /\ ReceiptsKnow' /\ OutcomesAgree'
<1> USE DEF SeqInv, ClientSide, WorkerSide, KeepsWorker, IInv
<1>1. \A a \in Attempts : Given(a) => Given(a)' /\ attempt'[a] = attempt[a]
  BY DEF Given, Undecided
<1>2. \A a \in Attempts : Undecided(a) => Undecided(a)'
  BY DEF Given, Undecided
<1>3. UNCHANGED jobs => JobsGiven'
  BY <1>1 DEF JobsGiven, JobsInv, TypeOK
<1>4. ValidationsKnow'
  <2> SUFFICES ASSUME NEW w \in Processes PROVE ValidationKnows(vtask[w])'
    BY DEF ValidationsKnow
  <2>1. ValidationKnows(vtask[w]) /\ (vtask[w].step # "idle" => vtask[w].attempt \in Attempts)
    BY DEF ValidationsKnow, ValidationInv
  <2> QED
    BY <1>1, <1>2, <2>1 DEF ValidationKnows, Checking, Given, Undecided
<1>5. ReceiptsKnow'
  BY DEF ReceiptsKnow, ReceiptKnows
<1>6. OutcomesAgree'
  BY <1>1 DEF OutcomesAgree, OneReceipt, AnnouncedOutcomesAgree, Given
<1> QED
  BY <1>3, <1>4, <1>5, <1>6

\* a worker's step that decides nothing leaves alone what the clients read
KeepsClients ==
  /\ att'.state = att.state /\ att'.channel = att.channel
  /\ att'.confirmed = att.confirmed /\ att'.root = att.root
  /\ UNCHANGED <<attempt, manifestObj, req, deaths, finalized>>

\* The clients' side of the invariant does not notice such a step.
LEMMA ClientsKept == ASSUME ClientSide, KeepsClients PROVE ClientSide'
<1> USE DEF ClientSide, KeepsClients
<1>1. Open' = Open
  BY DEF Open
<1>2. \A a \in Attempts : Given(a)' = Given(a)
  BY DEF Given, Undecided
<1>3. OneHandler' /\ OneOpen' /\ RowsSettled' /\ ConfirmedRows' /\ FinalizedOnce'
  BY <1>1 DEF OneHandler, OneOpen, RowsSettled, Settled, ConfirmedRows, FinalizedOnce
<1>4. HandlersKnow'
  BY <1>1 DEF HandlersKnow, HandlerKnows, Given, Undecided
<1> QED
  BY <1>3, <1>4

\* Who is at a step is the only handler.
LEMMA OnlyHandler ==
  ASSUME SeqInv, NEW r \in Requests, req[r].step # "idle"
  PROVE  \A q \in Requests \ {r} : req[q] = NoHandler
BY DEF SeqInv, ClientSide, OneHandler, NoHandler

\* The only handler goes on with t, or ends; nobody else is at it.
LEMMA HandlerMoves ==
  ASSUME SeqInv, NEW r \in Requests, req[r].step # "idle", NEW t \in Handler,
         req' = [req EXCEPT ![r] = t], HandlerKnows(t)'
  PROVE  /\ OneHandler' /\ HandlersKnow'
         /\ \A q \in Requests : req'[q].step = IF q = r THEN t.step ELSE "idle"
<1>1. \A q \in Requests : req'[q] = IF q = r THEN t ELSE NoHandler
  BY OnlyHandler DEF SeqInv, IInv, TypeOK
<1>2. HandlerKnows(NoHandler)'
  BY DEF HandlerKnows, NoHandler
<1> QED
  BY <1>1, <1>2 DEF OneHandler, HandlersKnow, NoHandler

-----------------------------------------------------------------------------
(* The handlers                                                             *)

WritesAttempt == {"put", "markAttempt", "markAttestation", "mark", "enqueue"}

\* What is known of a handler at work, and of the rows.
LEMMA AtWork ==
  ASSUME SeqInv, NEW r \in Requests
  PROVE  /\ HandlerKnows(req[r]) /\ req[r] \in Handler
         /\ req[r].step \in WritesAttempt => req[r].attempt \in Attempts
         /\ req \in [Requests -> Handler] /\ att \in Row
         /\ attempt \in [Attempts -> AttemptStates]
         /\ manifestObj \in [Attempts -> Manifests \cup {None}]
BY DEF SeqInv, ClientSide, HandlersKnow, IInv, TypeOK, HandlersInv, WritesAttempt

\* A handler goes to its next step.
LEMMA HandlerGoes ==
  ASSUME SeqInv, NEW r \in Requests, req[r].step # "idle", NEW s \in RequestSteps, Goto(r, s),
         \A t \in Handler : t = [req[r] EXCEPT !.step = s] => HandlerKnows(t)'
  PROVE  /\ OneHandler' /\ HandlersKnow'
         /\ \A q \in Requests : req'[q].step = IF q = r THEN s ELSE "idle"
<1>1. req[r] \in Handler /\ req \in [Requests -> Handler]
  BY AtWork
<1>2. PICK t \in Handler : t = [req[r] EXCEPT !.step = s]
  BY <1>1 DEF Handler
<1>3. req' = [req EXCEPT ![r] = t] /\ t.step = s
  BY <1>1, <1>2 DEF Goto, Handler
<1>4. HandlerKnows(t)'
  BY <1>2
<1>5. /\ OneHandler' /\ HandlersKnow'
      /\ \A q \in Requests : req'[q].step = IF q = r THEN t.step ELSE "idle"
  BY <1>3, <1>4, HandlerMoves
<1> QED
  BY <1>3, <1>5

\* A handler replies, or dies.
LEMMA HandlerEnds ==
  ASSUME SeqInv, NEW r \in Requests, req[r].step # "idle", Reply(r)
  PROVE  /\ OneHandler' /\ HandlersKnow'
         /\ \A q \in Requests : req'[q].step = "idle"
<1>1. \A q \in Requests : req'[q] = NoHandler
  BY OnlyHandler, AtWork DEF Reply
<1> QED
  BY <1>1 DEF OneHandler, HandlersKnow, HandlerKnows, NoHandler

\* Manifest and attempt are written while the attempt is pending: nothing of it is given to
\* the worker yet.
LEMMA PutManifestOK ==
  ASSUME SeqInv, NEW r \in Requests, PutManifest(r), UNCHANGED finalized
  PROVE  ClientSide' /\ WorkerSide' /\ Edge /\ Kept
<1> USE DEF PutManifest, rowVars, eventVars, budgetVars
<1>1. /\ attempt[req[r].attempt] = "pending" /\ att.state = "pending"
      /\ req[r].attempt \in Attempts /\ req[r] \in Handler
      /\ req[r].op = "api" => att.channel = "api"
      /\ manifestObj \in [Attempts -> Manifests \cup {None}]
  BY AtWork DEF HandlerKnows, WritesAttempt
<1>2. KeepsWorker
  BY <1>1 DEF KeepsWorker, Given, Undecided
<1>3. /\ OneHandler' /\ HandlersKnow'
      /\ \A q \in Requests : req'[q].step = IF q = r THEN "markAttempt" ELSE "idle"
  <2>1. \A t \in Handler : t = [req[r] EXCEPT !.step = "markAttempt"] => HandlerKnows(t)'
    BY <1>1 DEF HandlerKnows, Handler
  <2> QED BY <2>1, HandlerGoes DEF RequestSteps
<1>4. RowsSettled'
  BY <1>1 DEF RowsSettled, OneOpen, Open, SeqInv, ClientSide
<1>5. OneOpen' /\ ConfirmedRows' /\ FinalizedOnce'
  BY <1>1 DEF OneOpen, Open, FinalizedOnce, ConfirmedRows, SeqInv, ClientSide
<1> QED
  BY <1>2, <1>3, <1>4, <1>5, WorkerKept DEF Edge, Kept, ClientSide, WorkerSide

\* The attempt says uploaded one write before the row does; nobody else looks meanwhile.
LEMMA MarkAttemptOK ==
  ASSUME SeqInv, NEW r \in Requests, MarkAttemptUploaded(r), UNCHANGED finalized
  PROVE  ClientSide' /\ WorkerSide' /\ Edge /\ Kept
<1> USE DEF MarkAttemptUploaded, objectVars, eventVars, budgetVars
<1>1. /\ attempt[req[r].attempt] = "pending" /\ att.state = "pending"
      /\ req[r].attempt \in Attempts /\ req[r] \in Handler
      /\ attempt \in [Attempts -> AttemptStates]
  BY AtWork DEF HandlerKnows, WritesAttempt
<1>2. KeepsWorker
  BY <1>1 DEF KeepsWorker, Given, Undecided
<1>3. /\ OneHandler' /\ HandlersKnow'
      /\ \A q \in Requests : req'[q].step = IF q = r THEN "markAttestation" ELSE "idle"
  <2>1. \A t \in Handler : t = [req[r] EXCEPT !.step = "markAttestation"] => HandlerKnows(t)'
    BY <1>1 DEF HandlerKnows, Handler
  <2> QED BY <2>1, HandlerGoes DEF RequestSteps
<1>4. RowsSettled'
  BY <1>3 DEF RowsSettled, Settled
<1>5. OneOpen' /\ ConfirmedRows' /\ FinalizedOnce'
  BY <1>1 DEF OneOpen, Open, FinalizedOnce, ConfirmedRows, SeqInv, ClientSide
<1> QED
  BY <1>2, <1>3, <1>4, <1>5, WorkerKept DEF Edge, Kept, ClientSide, WorkerSide

\* The row follows the attempt.
LEMMA MarkAttestationOK ==
  ASSUME SeqInv, NEW r \in Requests, MarkAttestationUploaded(r), UNCHANGED finalized
  PROVE  ClientSide' /\ WorkerSide' /\ Edge /\ Kept
<1> USE DEF MarkAttestationUploaded, objectVars, eventVars, budgetVars
<1>1. /\ attempt[req[r].attempt] = "uploaded" /\ att.state = "pending"
      /\ req[r].attempt \in Attempts /\ att \in Row
  BY AtWork DEF HandlerKnows, WritesAttempt
<1>2. /\ att'.state = "uploaded" /\ att'.confirmed = att.confirmed /\ att'.root = att.root
      /\ att'.package = att.package /\ att'.receipt = att.receipt
      /\ att'.renamed = att.renamed
  BY <1>1 DEF Row
<1>3. KeepsWorker
  BY <1>1, <1>2 DEF KeepsWorker, Given, Undecided
<1>4. OneHandler' /\ HandlersKnow'
  BY HandlerEnds
<1>5. OneOpen' /\ RowsSettled' /\ ConfirmedRows' /\ FinalizedOnce'
  BY <1>1, <1>2 DEF OneOpen, Open, RowsSettled, FinalizedOnce, ConfirmedRows, SeqInv, ClientSide
<1> QED
  BY <1>1, <1>2, <1>3, <1>4, <1>5, WorkerKept
     DEF Edge, Kept, LifecycleEdges, ClientSide, WorkerSide

\* The public API marks attempt and row at once; its attestation has no device.
LEMMA MarkApiOK ==
  ASSUME SeqInv, NEW r \in Requests, MarkApiSubmission(r), UNCHANGED finalized
  PROVE  ClientSide' /\ WorkerSide' /\ Edge /\ Kept
<1> USE DEF MarkApiSubmission, objectVars, eventVars, budgetVars
<1>1. /\ attempt[req[r].attempt] = "pending" /\ att.state = "pending" /\ att.channel = "api"
      /\ req[r].attempt \in Attempts /\ req[r] \in Handler /\ att \in Row
      /\ attempt \in [Attempts -> AttemptStates]
  BY AtWork DEF HandlerKnows, WritesAttempt
<1>2. /\ att'.state = "validating" /\ att'.confirmed = att.confirmed /\ att'.root = att.root
      /\ att'.package = att.package /\ att'.receipt = att.receipt
      /\ att'.renamed = att.renamed /\ att'.channel = "api"
  BY <1>1 DEF Row
<1>3. KeepsWorker
  BY <1>1, <1>2 DEF KeepsWorker, Given, Undecided
<1>4. OneHandler' /\ HandlersKnow'
  <2>1. \A t \in Handler : t = [req[r] EXCEPT !.step = "enqueue"] => HandlerKnows(t)'
    BY <1>1, <1>2 DEF HandlerKnows, Handler, Given, Undecided
  <2> QED BY <2>1, HandlerGoes DEF RequestSteps
<1>5. OneOpen' /\ RowsSettled' /\ ConfirmedRows' /\ FinalizedOnce'
  BY <1>1, <1>2 DEF OneOpen, Open, RowsSettled, FinalizedOnce, ConfirmedRows, SeqInv, ClientSide
<1> QED
  BY <1>1, <1>2, <1>3, <1>4, <1>5, WorkerKept
     DEF Edge, Kept, LifecycleEdges, ClientSide, WorkerSide

\* finalize marks the row while nobody works on the attempt.
LEMMA MarkValidatingOK ==
  ASSUME SeqInv, NEW r \in Requests, MarkValidating(r), UNCHANGED finalized
  PROVE  ClientSide' /\ WorkerSide' /\ Edge /\ Kept
<1> USE DEF MarkValidating, objectVars, eventVars, budgetVars
<1>1. /\ attempt[req[r].attempt] = "uploaded" /\ att.state = "uploaded"
      /\ req[r].attempt \in finalized
      /\ req[r].attempt \in Attempts /\ req[r] \in Handler /\ att \in Row
  BY AtWork DEF HandlerKnows, WritesAttempt
<1>2. /\ att'.state = "validating" /\ att'.confirmed = att.confirmed /\ att'.root = att.root
      /\ att'.package = att.package /\ att'.receipt = att.receipt
      /\ att'.renamed = att.renamed
  BY <1>1 DEF Row
<1>3. KeepsWorker
  BY <1>1, <1>2 DEF KeepsWorker, Given, Undecided
<1>4. OneHandler' /\ HandlersKnow'
  <2>1. \A t \in Handler : t = [req[r] EXCEPT !.step = "enqueue"] => HandlerKnows(t)'
    BY <1>1, <1>2 DEF HandlerKnows, Handler, Given, Undecided
  <2> QED BY <2>1, HandlerGoes DEF RequestSteps
<1>5. OneOpen' /\ RowsSettled' /\ ConfirmedRows' /\ FinalizedOnce'
  BY <1>1, <1>2 DEF OneOpen, Open, RowsSettled, FinalizedOnce, ConfirmedRows, SeqInv, ClientSide
<1> QED
  BY <1>1, <1>2, <1>3, <1>4, <1>5, WorkerKept
     DEF Edge, Kept, LifecycleEdges, ClientSide, WorkerSide

\* The job that is added is for an attempt that is given to the worker.
LEMMA JobsAdded ==
  ASSUME SeqInv, NEW kind \in {"validate", "receipt"}, NEW a \in Attempts, Enqueue(kind, a),
         kind = "validate" => Given(a),
         \A b \in Attempts : Given(b) => Given(b)'
  PROVE  JobsGiven'
<1>1. /\ jobs \in [Jobs -> Job] /\ JobsGiven
      /\ \A j \in Jobs : jobs[j].kind # "none" => jobs[j].attempt \in Attempts
  BY DEF SeqInv, IInv, TypeOK, JobsInv, WorkerSide
<1>2. PICK j \in Jobs :
        jobs' = [jobs EXCEPT ![j] = [FreeJob EXCEPT !.kind = kind, !.attempt = a,
                                                   !.status = "waiting"]]
  BY DEF Enqueue
<1>3. jobs'[j].kind = kind /\ jobs'[j].attempt = a /\ \A i \in Jobs \ {j} : jobs'[i] = jobs[i]
  BY <1>1, <1>2 DEF FreeJob
<1> QED
  BY <1>1, <1>3 DEF JobsGiven

\* The job is added for an attempt that was marked before.
LEMMA EnqueueValidationOK ==
  ASSUME SeqInv, NEW r \in Requests, EnqueueValidation(r), UNCHANGED finalized
  PROVE  ClientSide' /\ WorkerSide' /\ Edge /\ Kept
<1> USE DEF EnqueueValidation, rowVars, objectVars, eventVars, budgetVars
<1>1. Given(req[r].attempt) /\ req[r].attempt \in Attempts
  BY AtWork DEF HandlerKnows, WritesAttempt
<1>2. KeepsWorker
  BY DEF KeepsWorker, Given, Undecided
<1>3. JobsGiven'
  BY <1>1, JobsAdded DEF Given, Undecided
<1>4. OneHandler' /\ HandlersKnow'
  BY HandlerEnds
<1>5. RowsSettled'
  <2>1. Settled' => Settled
    BY OnlyHandler DEF Settled, NoHandler
  <2> QED BY <2>1 DEF RowsSettled, SeqInv, ClientSide
<1>6. OneOpen' /\ ConfirmedRows' /\ FinalizedOnce'
  BY DEF OneOpen, Open, FinalizedOnce, ConfirmedRows, SeqInv, ClientSide
<1> QED
  BY <1>2, <1>3, <1>4, <1>5, <1>6, WorkerKept DEF Edge, Kept, ClientSide, WorkerSide

\* What is canceled was neither confirmed nor given to the worker.
LEMMA CancelOK ==
  ASSUME SeqInv, NEW r \in Requests, CancelAttestation(r), UNCHANGED finalized
  PROVE  ClientSide' /\ WorkerSide' /\ Edge /\ Kept
<1> USE DEF CancelAttestation, objectVars, eventVars, budgetVars
<1>1. att.state \in {"pending", "uploaded"} /\ att \in Row
  BY AtWork DEF HandlerKnows
<1>2. /\ att'.state = "canceled" /\ att'.confirmed = att.confirmed /\ att'.root = att.root
      /\ att'.package = att.package /\ att'.receipt = att.receipt
  BY <1>1 DEF Row
<1>3. att.confirmed = None
  BY <1>1 DEF SeqInv, ClientSide, ConfirmedRows
<1>4. KeepsWorker
  BY <1>1, <1>2 DEF KeepsWorker, Given, Undecided
<1>5. OneHandler' /\ HandlersKnow'
  BY HandlerEnds
<1>6. OneOpen' /\ RowsSettled' /\ ConfirmedRows' /\ FinalizedOnce'
  BY <1>1, <1>2, <1>3
     DEF OneOpen, Open, RowsSettled, FinalizedOnce, ConfirmedRows, SeqInv, ClientSide
<1> QED
  BY <1>1, <1>2, <1>3, <1>4, <1>5, <1>6, WorkerKept
     DEF Edge, Kept, LifecycleEdges, ClientSide, WorkerSide

\* A repair adds an attempt to those that have all been decided or canceled.
LEMMA InsertRepairOK ==
  ASSUME SeqInv, NEW r \in Requests, NEW a \in Attempts, InsertRepairAttempt(r, a),
         UNCHANGED finalized
  PROVE  ClientSide' /\ WorkerSide' /\ Edge /\ Kept
<1> USE DEF InsertRepairAttempt, objectVars, eventVars, budgetVars
<1>1. /\ att.state = "failed_needs_review" /\ Open = {}
      /\ req[r] \in Handler /\ attempt \in [Attempts -> AttemptStates]
  BY AtWork DEF HandlerKnows
<1>2. KeepsWorker
  BY <1>1 DEF KeepsWorker, Given, Undecided
<1>3. \A b \in Open' : b = a /\ attempt'[b] = "pending"
  BY <1>1 DEF Open
<1>4. /\ OneHandler' /\ HandlersKnow'
      /\ \A q \in Requests : req'[q].step = IF q = r THEN "reopen" ELSE "idle"
  <2>1. \A t \in Handler : t = [req[r] EXCEPT !.step = "reopen"] => HandlerKnows(t)'
    BY <1>1, <1>3 DEF HandlerKnows, Handler
  <2> QED BY <2>1, HandlerGoes DEF RequestSteps
<1>5. RowsSettled'
  BY <1>4 DEF RowsSettled, Settled
<1>6. OneOpen' /\ ConfirmedRows' /\ FinalizedOnce'
  BY <1>1, <1>3 DEF OneOpen, FinalizedOnce, ConfirmedRows, SeqInv, ClientSide
<1> QED
  BY <1>2, <1>4, <1>5, <1>6, WorkerKept DEF Edge, Kept, ClientSide, WorkerSide

\* The row is pending again when its only open attempt is.
LEMMA ReopenOK ==
  ASSUME SeqInv, NEW r \in Requests, ReopenAttestation(r), UNCHANGED finalized
  PROVE  ClientSide' /\ WorkerSide' /\ Edge /\ Kept
<1> USE DEF ReopenAttestation, objectVars, eventVars, budgetVars
<1>1. /\ att.state = "failed_needs_review" /\ att \in Row
      /\ \A a \in Open : attempt[a] = "pending"
  BY AtWork DEF HandlerKnows
<1>2. /\ att'.state = "pending" /\ att'.confirmed = att.confirmed /\ att'.root = att.root
      /\ att'.package = att.package /\ att'.receipt = att.receipt
      /\ att'.renamed = att.renamed
  BY <1>1 DEF Row
<1>3. KeepsWorker
  BY <1>1, <1>2 DEF KeepsWorker, Given, Undecided
<1>4. OneHandler' /\ HandlersKnow'
  BY HandlerEnds
<1>5. OneOpen' /\ RowsSettled' /\ ConfirmedRows' /\ FinalizedOnce'
  BY <1>1, <1>2 DEF OneOpen, Open, RowsSettled, FinalizedOnce, ConfirmedRows, SeqInv, ClientSide
<1> QED
  BY <1>1, <1>2, <1>3, <1>4, <1>5, WorkerKept
     DEF Edge, Kept, LifecycleEdges, ClientSide, WorkerSide

\* A handler dies; after that no other begins.
LEMMA RequestDiesOK ==
  ASSUME SeqInv, NEW r \in Requests, RequestDies(r), UNCHANGED finalized
  PROVE  ClientSide' /\ WorkerSide' /\ Edge /\ Kept
<1> USE DEF RequestDies, rowVars, objectVars, eventVars
<1>1. KeepsWorker
  BY DEF KeepsWorker, Given, Undecided
<1>2. \A q \in Requests : req'[q] = NoHandler
  BY AtWork DEF Reply, SeqInv, ClientSide, OneHandler
<1>3. OneHandler' /\ HandlersKnow'
  BY <1>2 DEF OneHandler, HandlersKnow, HandlerKnows, NoHandler
<1>4. RowsSettled'
  <2>1. deaths \in Nat
    BY ConstantsOK DEF SeqInv, IInv, TypeOK
  <2> QED BY <2>1 DEF RowsSettled, Settled
<1>5. OneOpen' /\ ConfirmedRows' /\ FinalizedOnce'
  BY DEF OneOpen, Open, FinalizedOnce, ConfirmedRows, SeqInv, ClientSide
<1> QED
  BY <1>1, <1>3, <1>4, <1>5, WorkerKept DEF Edge, Kept, ClientSide, WorkerSide

-----------------------------------------------------------------------------
(* The client                                                               *)

\* What the client reads when nothing is under way and nothing has died.
LEMMA ClientReads ==
  ASSUME SeqInv, Quiet, deaths = 0
  PROVE  /\ \A a \in Attempts : attempt[a] = "pending" => att.state = "pending"
         /\ \A a \in Attempts : attempt[a] = "uploaded" => att.state \in {"uploaded", "validating"}
         /\ \A a \in Attempts : attempt[a] = "validated" => att.state = "confirmed"
         /\ att.state \notin {"pending", "uploaded", "validating", "confirmed"} => Open = {}
<1>1. Settled
  BY DEF Quiet, Settled, NoHandler
<1>2. \A a \in Attempts : attempt[a] = "validated" => att.state = "confirmed"
  BY ConstantsOK DEF SeqInv, ClientSide, ConfirmedRows
<1> QED
  BY <1>1, <1>2 DEF SeqInv, ClientSide, RowsSettled, Open

\* A request begins when there is no other.
LEMMA HandlerBegins ==
  ASSUME SeqInv, Quiet, NEW r \in Requests, NEW t \in Handler,
         req' = [req EXCEPT ![r] = t], HandlerKnows(t)'
  PROVE  OneHandler' /\ HandlersKnow'
<1>1. \A q \in Requests : req'[q] = IF q = r THEN t ELSE NoHandler
  BY AtWork DEF Quiet
<1>2. HandlerKnows(NoHandler)'
  BY DEF HandlerKnows, NoHandler
<1> QED
  BY <1>1, <1>2 DEF OneHandler, HandlersKnow

\* A call of the client that begins with a read writes nothing yet.
LEMMA BeginOK ==
  ASSUME SeqInv, Quiet, deaths = 0, NEW r \in Requests, NEW t \in Handler,
         req' = [req EXCEPT ![r] = t], HandlerKnows(t)',
         UNCHANGED <<rowVars, objectVars, eventVars, jobs, vtask, rtask, budgetVars>>,
         finalized \subseteq finalized'
  PROVE  ClientSide' /\ WorkerSide' /\ Edge /\ Kept
<1> USE DEF rowVars, objectVars, eventVars, budgetVars
<1>1. KeepsWorker
  BY DEF KeepsWorker, Given, Undecided
<1>2. OneHandler' /\ HandlersKnow'
  BY HandlerBegins
<1>3. RowsSettled'
  BY ClientReads DEF RowsSettled
<1>4. OneOpen' /\ ConfirmedRows' /\ FinalizedOnce'
  BY DEF OneOpen, Open, FinalizedOnce, ConfirmedRows, SeqInv, ClientSide
<1> QED
  BY <1>1, <1>2, <1>3, <1>4, WorkerKept DEF Edge, Kept, ClientSide, WorkerSide

\* The first attempt is the only one that is open, and the row says so.
LEMMA FirstAttemptOK ==
  ASSUME SeqInv, Quiet, deaths = 0, NEW a \in Attempts, NEW channel \in {"device", "api"},
         FirstAttempt(a, channel), OneHandler', HandlersKnow', UNCHANGED finalized,
         UNCHANGED <<objectVars, eventVars, jobs, vtask, rtask, budgetVars>>
  PROVE  ClientSide' /\ WorkerSide' /\ Edge /\ Kept
<1> USE DEF FirstAttempt, objectVars, eventVars, budgetVars
<1>1. att.state = "absent" /\ att \in Row /\ attempt \in [Attempts -> AttemptStates]
  BY DEF SeqInv, IInv, TypeOK
<1>2. Open = {} /\ att.confirmed = None
  BY <1>1, ClientReads DEF SeqInv, ClientSide, ConfirmedRows
<1>3. /\ att'.state = "pending" /\ att'.confirmed = att.confirmed /\ att'.root = att.root
      /\ att'.package = att.package /\ att'.receipt = att.receipt
      /\ att'.renamed = att.renamed /\ att'.channel = channel
  BY <1>1 DEF Row
<1>4. \A b \in Attempts : attempt[b] = "absent"
  BY <1>1 DEF SeqInv, ClientSide, ConfirmedRows
<1>5. KeepsWorker
  BY <1>1, <1>3, <1>4 DEF KeepsWorker, Given, Undecided
<1>6. OneOpen' /\ RowsSettled' /\ ConfirmedRows' /\ FinalizedOnce'
  BY <1>1, <1>2, <1>3, <1>4, ConstantsOK
     DEF OneOpen, Open, RowsSettled, FinalizedOnce, ConfirmedRows
<1> QED
  BY <1>1, <1>3, <1>5, <1>6, WorkerKept
     DEF Edge, Kept, LifecycleEdges, ClientSide, WorkerSide

\* Each call of the client reads what its handler will rely on.
LEMMA ClientOK ==
  ASSUME SeqInv, SequentialCall
  PROVE  ClientSide' /\ WorkerSide' /\ Edge /\ Kept
<1> USE DEF SequentialCall
<1>1. ASSUME NEW a \in Attempts, CreateAttestation(a), UNCHANGED finalized
      PROVE  ClientSide' /\ WorkerSide' /\ Edge /\ Kept
  <2>1. OneHandler' /\ HandlersKnow'
    BY <1>1 DEF CreateAttestation, Quiet, OneHandler, HandlersKnow, HandlerKnows, NoHandler
  <2> QED BY <1>1, <2>1, FirstAttemptOK DEF CreateAttestation
<1>2. ASSUME NEW r \in Requests, NEW a \in Attempts, NEW m \in Manifests, SubmitByApi(r, a, m),
             UNCHANGED finalized
      PROVE  ClientSide' /\ WorkerSide' /\ Edge /\ Kept
  <2>1. PICK t \in Handler : t = [op |-> "api", step |-> "put", attempt |-> a, manifest |-> m]
    BY DEF Handler, RequestSteps
  <2>2. att \in Row /\ attempt \in [Attempts -> AttemptStates]
    BY DEF SeqInv, IInv, TypeOK
  <2>3. att'.state = "pending" /\ att'.channel = "api" /\ attempt'[a] = "pending"
    BY <1>2, <2>2 DEF SubmitByApi, FirstAttempt, Row
  <2>4. HandlerKnows(t)'
    BY <2>1, <2>3 DEF HandlerKnows
  <2>5. req' = [req EXCEPT ![r] = t]
    BY <1>2, <2>1 DEF SubmitByApi
  <2>6. OneHandler' /\ HandlersKnow'
    BY <2>4, <2>5, HandlerBegins
  <2> QED BY <1>2, <2>6, FirstAttemptOK DEF SubmitByApi
<1>3. ASSUME NEW r \in Requests, NEW a \in Attempts, NEW m \in Manifests, BeginUpload(r, a, m),
             UNCHANGED finalized
      PROVE  ClientSide' /\ WorkerSide' /\ Edge /\ Kept
  <2> USE <1>3 DEF BeginUpload, Begin
  <2>1. PICK t \in Handler : t = [op |-> "upload", step |-> "put", attempt |-> a, manifest |-> m]
    BY DEF Handler, RequestSteps
  <2>2. attempt[a] = "pending" /\ att.state = "pending"
    BY ClientReads
  <2>3. HandlerKnows(t)'
    BY <2>1, <2>2 DEF HandlerKnows, rowVars
  <2> QED BY <2>1, <2>3, BeginOK
<1>4. ASSUME NEW r \in Requests, BeginCancel(r), UNCHANGED finalized
      PROVE  ClientSide' /\ WorkerSide' /\ Edge /\ Kept
  <2> USE <1>4 DEF BeginCancel, Begin
  <2>1. PICK t \in Handler :
          t = [op |-> "cancel", step |-> "cancel", attempt |-> None, manifest |-> None]
    BY DEF Handler, RequestSteps
  <2>2. HandlerKnows(t)'
    BY <2>1 DEF HandlerKnows, rowVars
  <2> QED BY <2>1, <2>2, BeginOK
<1>5. ASSUME NEW r \in Requests, BeginRepair(r), UNCHANGED finalized
      PROVE  ClientSide' /\ WorkerSide' /\ Edge /\ Kept
  <2> USE <1>5 DEF BeginRepair, Begin
  <2>1. PICK t \in Handler :
          t = [op |-> "repair", step |-> "insert", attempt |-> None, manifest |-> None]
    BY DEF Handler, RequestSteps
  <2>2. Open = {}
    BY ClientReads
  <2>3. HandlerKnows(t)'
    BY <2>1, <2>2 DEF HandlerKnows, Open, rowVars
  <2> QED BY <2>1, <2>3, BeginOK
<1>6. ASSUME NEW r \in Requests, NEW a \in Attempts \ finalized, BeginFinalize(r, a),
             finalized' = finalized \cup {a}
      PROVE  ClientSide' /\ WorkerSide' /\ Edge /\ Kept
  <2> USE <1>6 DEF BeginFinalize, Begin
  <2>1. PICK t \in Handler :
          t = [op |-> "finalize", step |-> "mark", attempt |-> a, manifest |-> None]
    BY DEF Handler, RequestSteps
  <2>2. attempt[a] = "uploaded" /\ att.state = "uploaded"
    BY ClientReads DEF SeqInv, ClientSide, FinalizedOnce
  <2>3. HandlerKnows(t)'
    BY <2>1, <2>2 DEF HandlerKnows, rowVars
  <2> QED BY <2>1, <2>3, BeginOK
<1> QED
  BY <1>1, <1>2, <1>3, <1>4, <1>5, <1>6

-----------------------------------------------------------------------------
(* The worker                                                               *)

\* There is one process.
LEMMA OnlyProcess == \A w, v \in Processes : w = v
BY OneProcess

\* What is known of the tasks, whatever they are at.
LEMMA TasksAtWork ==
  ASSUME SeqInv, NEW w \in Processes
  PROVE  /\ ValidationKnows(vtask[w]) /\ ReceiptKnows(rtask[w])
         /\ vtask[w].step # "idle" => vtask[w].attempt \in Attempts
         /\ rtask[w].step # "idle" =>
              rtask[w].attempt \in Attempts /\ att.confirmed = rtask[w].attempt
         /\ vtask \in [Processes -> Task(ValidationSteps)]
         /\ rtask \in [Processes -> Task(ReceiptSteps)]
         /\ jobs \in [Jobs -> Job]
BY DEF SeqInv, WorkerSide, ValidationsKnow, ReceiptsKnow, IInv, TypeOK, ValidationInv, ReceiptInv

\* Jobs that stay, or go, and that are given when they come.
SameJobs ==
  \A j \in Jobs : jobs'[j].kind = "validate" =>
    jobs[j].kind = "validate" /\ jobs'[j].attempt = jobs[j].attempt

\* The worker's tasks go on; what is published stays, or is written as the task knows.
LEMMA WorkerMoves ==
  ASSUME SeqInv, KeepsClients, SameJobs \/ JobsGiven', NEW w \in Processes,
         ValidationKnows(vtask[w])', ReceiptKnows(rtask[w])', OutcomesAgree'
  PROVE  ClientSide' /\ WorkerSide' /\ Edge
<1>1. ClientSide'
  BY ClientsKept DEF SeqInv
<1>2. JobsGiven'
  BY DEF SameJobs, JobsGiven, Given, Undecided, KeepsClients, SeqInv, WorkerSide
<1>3. ValidationsKnow' /\ ReceiptsKnow'
  BY OnlyProcess DEF ValidationsKnow, ReceiptsKnow
<1> QED
  BY <1>1, <1>2, <1>3 DEF WorkerSide, Edge, KeepsClients

\* One job is taken, removed or put back: it stays what it is, or is none.
LEMMA JobsStay ==
  ASSUME SeqInv
  PROVE  /\ UNCHANGED jobs => SameJobs
         /\ \A j \in Jobs, w \in Processes : jobs' = Taken(j, w) => SameJobs
         /\ \A j \in Jobs : jobs' = [jobs EXCEPT ![j] = FreeJob] => SameJobs
         /\ \A j \in Jobs \cup {None}, w \in Processes : jobs' = Completed(j, w) => SameJobs
         /\ \A j \in Jobs \cup {None}, w \in Processes : jobs' = Retried(j, w) => SameJobs
         /\ \A j \in Jobs : jobs' = [jobs EXCEPT ![j] = Unlocked(jobs[j])] => SameJobs
         /\ \A w \in Processes :
              jobs' = [j \in Jobs |-> IF jobs[j].owner = w THEN Unlocked(jobs[j]) ELSE jobs[j]]
                => SameJobs
<1>1. jobs \in [Jobs -> Job] /\ \A j \in Jobs : jobs[j] \in Job
  BY DEF SeqInv, IInv, TypeOK
<1>2. FreeJob.kind = "none"
  BY DEF FreeJob
<1>3. \A j \in Jobs :
        Unlocked(jobs[j]).kind = jobs[j].kind /\ Unlocked(jobs[j]).attempt = jobs[j].attempt
  BY <1>1, UnlockedKeeps
<1>4. \A j \in Jobs, w \in Processes : jobs' = Taken(j, w) => SameJobs
  BY <1>1 DEF Taken, SameJobs, Job
<1>5. \A j \in Jobs : jobs' = [jobs EXCEPT ![j] = FreeJob] => SameJobs
  BY <1>1, <1>2 DEF SameJobs
<1>6. \A j \in Jobs \cup {None}, w \in Processes : jobs' = Completed(j, w) => SameJobs
  BY <1>1, <1>2 DEF Completed, SameJobs
<1>7. \A j \in Jobs \cup {None}, w \in Processes : jobs' = Retried(j, w) => SameJobs
  BY <1>1 DEF Retried, SameJobs, Job
<1>8. \A j \in Jobs : jobs' = [jobs EXCEPT ![j] = Unlocked(jobs[j])] => SameJobs
  BY <1>1, <1>3 DEF SameJobs
<1>9. \A w \in Processes :
        jobs' = [j \in Jobs |-> IF jobs[j].owner = w THEN Unlocked(jobs[j]) ELSE jobs[j]]
          => SameJobs
  BY <1>3 DEF SameJobs
<1> QED
  BY <1>4, <1>5, <1>6, <1>7, <1>8, <1>9 DEF SameJobs

\* What was published, while the rows it speaks of stay.
LEMMA OutcomesStay ==
  ASSUME SeqInv, KeepsClients, att' = att, UNCHANGED <<links, receiptObj, resultObj, announced>>
  PROVE  OutcomesAgree'
BY DEF SeqInv, WorkerSide, KeepsClients, OutcomesAgree, OneReceipt, AnnouncedOutcomesAgree

\* A task that begins works on an attempt that is not decided.
LEMMA ValidationBeginsOK ==
  ASSUME SeqInv, NEW w \in Processes, NEW j \in Jobs,
         BeginValidation(w, j) \/ RefuseValidation(w, j), UNCHANGED finalized
  PROVE  ClientSide' /\ WorkerSide' /\ Edge /\ Kept
<1> USE DEF BeginValidation, RefuseValidation, rowVars, objectVars, eventVars, budgetVars
<1>1. KeepsClients /\ UNCHANGED att /\ SameJobs /\ OutcomesAgree'
  BY JobsStay, OutcomesStay DEF KeepsClients
<1>2. ReceiptKnows(rtask[w])'
  BY TasksAtWork DEF ReceiptKnows
<1>3. CASE BeginValidation(w, j)
  <2>1. Undecided(jobs[j].attempt)
    BY <1>3 DEF SeqInv, WorkerSide, JobsGiven, Given
  <2>2. vtask'[w].step = "fetch" /\ vtask'[w].attempt = jobs[j].attempt
    BY <1>3, TasksAtWork DEF NoTask
  <2>3. ValidationKnows(vtask[w])'
    BY <1>3, <2>1, <2>2 DEF ValidationKnows, Undecided
  <2> QED BY <1>1, <1>2, <2>3, WorkerMoves DEF Kept
<1>4. CASE RefuseValidation(w, j)
  <2>1. ValidationKnows(vtask[w])'
    BY <1>4, TasksAtWork DEF ValidationKnows, Undecided, Checking
  <2> QED BY <1>1, <1>2, <2>1, WorkerMoves DEF Kept
<1> QED
  BY <1>3, <1>4

\* The manifest is the one that stays, and what is put stays put.
LEMMA ValidationWorksOK ==
  ASSUME SeqInv, NEW w \in Processes,
         \/ AcceptManifest(w) \/ RejectManifest(w) \/ EnvironmentRejects(w)
         \/ PutLeaves(w) \/ PutResult(w) \/ RecordFailure(w),
         UNCHANGED finalized
  PROVE  ClientSide' /\ WorkerSide' /\ Edge /\ Kept
<1> USE DEF AcceptManifest, RejectManifest, EnvironmentRejects, PutLeaves, PutResult,
            RecordFailure, NextValidation, rowVars, objectVars, eventVars, budgetVars
<1>1. KeepsClients /\ UNCHANGED att /\ SameJobs
  BY JobsStay DEF KeepsClients
<1>2. ReceiptKnows(rtask[w])'
  BY TasksAtWork DEF ReceiptKnows
<1>3. /\ vtask \in [Processes -> Task(ValidationSteps)] /\ vtask[w].attempt \in Attempts
      /\ vtask[w].step \in Checking /\ Undecided(vtask[w].attempt)
      /\ resultObj \in [Attempts -> {"validated", "failed", None}]
  BY TasksAtWork DEF ValidationKnows, Checking, SeqInv, IInv, TypeOK
<1>4. ASSUME AcceptManifest(w) PROVE ValidationKnows(vtask[w])'
  <2>1. /\ vtask'[w].step = "leaves" /\ vtask'[w].attempt = vtask[w].attempt
        /\ vtask'[w].manifest = manifestObj[vtask[w].attempt]
    BY <1>3, <1>4 DEF Task
  <2> QED BY <1>1, <1>3, <2>1 DEF ValidationKnows, Undecided, Checking, KeepsClients
<1>5. ASSUME ~AcceptManifest(w) PROVE ValidationKnows(vtask[w])'
  <2>1. PICK step \in {"recordFailure", "result", "commit", "commitFailure"} :
          /\ vtask' = [vtask EXCEPT ![w].step = step]
          /\ step = "result" => vtask[w].step = "leaves"
          /\ step = "commit" => PutResult(w)
    BY <1>5
  <2>2. /\ vtask'[w].step = step /\ vtask'[w].attempt = vtask[w].attempt
        /\ vtask'[w].manifest = vtask[w].manifest
    BY <1>3, <2>1 DEF Task
  <2>3. step = "commit" =>
          vtask[w].step = "result" /\ resultObj'[vtask[w].attempt] = "validated"
    BY <1>3, <2>1
  <2>4. ValidationKnows(vtask[w])
    BY TasksAtWork
  <2>5. Undecided(vtask[w].attempt)' /\ UNCHANGED manifestObj
    BY <1>1, <1>3, <2>2 DEF Undecided, KeepsClients
  <2> QED BY <2>1, <2>2, <2>3, <2>4, <2>5 DEF ValidationKnows, Checking
<1>6. \A a \in Attempts : ~Undecided(a) => resultObj'[a] = resultObj[a]
  BY <1>3
<1>7. ValidationKnows(vtask[w])'
  BY <1>4, <1>5
<1>8. OutcomesAgree'
  BY <1>6 DEF SeqInv, WorkerSide, OutcomesAgree, OneReceipt, AnnouncedOutcomesAgree, Undecided
<1> QED
  BY <1>1, <1>2, <1>7, <1>8, WorkerMoves DEF Kept

\* A decision is announced when it has been written; then the task is done with the rows.
LEMMA ValidationEndsOK ==
  ASSUME SeqInv, NEW w \in Processes,
         \/ AnnounceConfirmed(w) \/ EnqueueReceipt(w) \/ AnnounceFailed(w)
         \/ CompleteValidation(w) \/ ThrowValidation(w),
         UNCHANGED finalized
  PROVE  ClientSide' /\ WorkerSide' /\ Edge /\ Kept
<1> USE DEF AnnounceConfirmed, EnqueueReceipt, AnnounceFailed, CompleteValidation,
            ThrowValidation, NextValidation, rowVars, objectVars, eventVars, budgetVars
<1>1. KeepsClients /\ UNCHANGED att
  BY DEF KeepsClients
<1>2. ReceiptKnows(rtask[w])'
  BY TasksAtWork DEF ReceiptKnows
<1>3. /\ vtask \in [Processes -> Task(ValidationSteps)] /\ vtask[w].attempt \in Attempts
      /\ vtask[w].job \in Jobs \cup {None}
  BY TasksAtWork DEF Task
<1>4. vtask'[w].step \in {"idle", "enqueue", "return"}
  BY <1>3 DEF NoTask, Task
<1>5. ValidationKnows(vtask[w])'
  BY <1>4 DEF ValidationKnows, Checking
<1>6. SameJobs \/ JobsGiven'
  <2>1. CASE EnqueueReceipt(w)
    BY <1>3, <2>1, JobsAdded DEF Given, Undecided
  <2> QED BY <1>3, <2>1, JobsStay
<1>7. OutcomesAgree'
  <2>1. AnnouncedOutcomesAgree
    BY DEF SeqInv, WorkerSide, OutcomesAgree
  <2>2. CASE AnnounceConfirmed(w)
    <3>1. /\ att.confirmed = vtask[w].attempt /\ attempt[vtask[w].attempt] = "validated"
          /\ resultObj[vtask[w].attempt] = "validated"
      BY <2>2, TasksAtWork DEF ValidationKnows
    <3>2. AnnouncedOutcomesAgree'
      BY <2>1, <2>2, <3>1 DEF AnnouncedOutcomesAgree
    <3> QED BY <2>2, <3>2 DEF SeqInv, WorkerSide, OutcomesAgree, OneReceipt
  <2>3. CASE AnnounceFailed(w)
    <3>1. attempt[vtask[w].attempt] = "failed" /\ att.confirmed # vtask[w].attempt
      BY <1>3, <2>3, TasksAtWork DEF ValidationKnows, SeqInv, ClientSide, ConfirmedRows
    <3>2. AnnouncedOutcomesAgree'
      BY <2>1, <2>3, <3>1 DEF AnnouncedOutcomesAgree
    <3> QED BY <2>3, <3>2 DEF SeqInv, WorkerSide, OutcomesAgree, OneReceipt
  <2> QED BY <1>1, <2>2, <2>3, OutcomesStay
<1> QED
  BY <1>1, <1>2, <1>5, <1>6, <1>7, WorkerMoves DEF Kept

\* What is decided is the only open attempt, of a row that says "validating": no handler and
\* no receipt task is at a step that a decision could overtake.
LEMMA AtDecision ==
  ASSUME SeqInv, NEW w \in Processes, vtask[w].step \in {"commit", "commitFailure"}
  PROVE  /\ vtask[w].attempt \in Attempts /\ Undecided(vtask[w].attempt)
         /\ \A a \in Open : a = vtask[w].attempt
         /\ att \in Row /\ attempt \in [Attempts -> AttemptStates]
         /\ vtask \in [Processes -> Task(ValidationSteps)]
         /\ att.confirmed = None /\ att.package = None
         /\ \A a \in Attempts : attempt[a] # "validated"
         /\ \A r \in Requests : req[r].step \in {"idle", "enqueue"}
         /\ \A v \in Processes : rtask[v].step = "idle"
<1>1. /\ vtask[w].attempt \in Attempts /\ Undecided(vtask[w].attempt)
      /\ att \in Row /\ attempt \in [Attempts -> AttemptStates]
      /\ vtask \in [Processes -> Task(ValidationSteps)]
  BY TasksAtWork DEF ValidationKnows, Checking, SeqInv, IInv, TypeOK
<1>2. \A a \in Open : a = vtask[w].attempt
  BY <1>1 DEF SeqInv, ClientSide, OneOpen, Open, Undecided
<1>3. att.confirmed = None /\ \A a \in Attempts : attempt[a] # "validated"
  BY <1>1, ConstantsOK DEF SeqInv, ClientSide, ConfirmedRows, Undecided
<1>4. att.package = None /\ \A v \in Processes : rtask[v].step = "idle"
  BY <1>3, ConstantsOK DEF SeqInv, IInv, ReceiptBindsConfirmedAttempt, ReceiptInv
<1>5. \A r \in Requests : req[r].step \in {"idle", "enqueue"}
  BY <1>1, AtWork DEF HandlerKnows, Undecided, Handler, RequestSteps
<1> QED
  BY <1>1, <1>2, <1>3, <1>4, <1>5

\* Once decided, an attempt is given for good; nobody else learns of it by a write.
LEMMA DecisionKept ==
  ASSUME SeqInv, NEW w \in Processes, vtask[w].step \in {"commit", "commitFailure"},
         NEW outcome \in {"validated", "failed"},
         attempt' = [attempt EXCEPT ![vtask[w].attempt] = outcome],
         att'.state # "validating", UNCHANGED <<req, jobs, rtask>>
  PROVE  /\ OneHandler' /\ HandlersKnow' /\ OneOpen' /\ RowsSettled' /\ FinalizedOnce'
         /\ JobsGiven' /\ ReceiptsKnow'
<1>1. \A a \in Attempts : Given(a) => Given(a)'
  BY AtDecision DEF Given, Undecided, Open
<1>2. \A a \in Attempts : a # vtask[w].attempt =>
        attempt'[a] = attempt[a] /\ attempt'[a] \notin {"pending", "uploaded", "validated"}
  BY AtDecision DEF Open
<1>3. attempt'[vtask[w].attempt] = outcome
  BY AtDecision
<1>4. OneOpen' /\ RowsSettled' /\ FinalizedOnce'
  BY <1>2, <1>3, AtDecision DEF OneOpen, Open, RowsSettled, FinalizedOnce
<1>5. OneHandler' /\ HandlersKnow'
  <2>1. ASSUME NEW r \in Requests PROVE HandlerKnows(req[r])'
    <3>1. req[r].step \in {"idle", "enqueue"} /\ HandlerKnows(req[r])
          /\ (req[r].step = "enqueue" => req[r].attempt \in Attempts)
      BY AtDecision, AtWork DEF WritesAttempt
    <3>2. req[r].step = "enqueue" => Given(req[r].attempt)'
      BY <1>1, <3>1 DEF HandlerKnows, Given, Undecided
    <3> QED BY <3>1, <3>2 DEF HandlerKnows
  <2> QED BY <2>1 DEF SeqInv, ClientSide, OneHandler, HandlersKnow
<1>6. JobsGiven'
  BY <1>1 DEF JobsGiven, SeqInv, WorkerSide, IInv, JobsInv
<1>7. ReceiptsKnow'
  BY AtDecision DEF ReceiptsKnow, ReceiptKnows
<1> QED
  BY <1>4, <1>5, <1>6, <1>7

\* The decision of the only open attempt is the decision of the row.
LEMMA CommitValidatedOK ==
  ASSUME SeqInv, NEW w \in Processes, CommitValidated(w), UNCHANGED finalized
  PROVE  ClientSide' /\ WorkerSide' /\ Edge /\ Kept
<1> USE DEF CommitValidated, NextValidation, objectVars, eventVars, budgetVars
<1>1. /\ vtask[w].attempt \in Attempts /\ att \in Row
      /\ attempt[vtask[w].attempt] = "uploaded" /\ att.state = "validating"
      /\ att.confirmed = None /\ att.package = None
      /\ \A a \in Attempts : attempt[a] # "validated"
      /\ attempt \in [Attempts -> AttemptStates]
      /\ vtask \in [Processes -> Task(ValidationSteps)]
  BY AtDecision DEF Undecided
<1>2. vtask[w].manifest = manifestObj[vtask[w].attempt] /\ resultObj[vtask[w].attempt] = "validated"
  BY TasksAtWork DEF ValidationKnows
<1>3. /\ att'.state = "confirmed" /\ att'.confirmed = vtask[w].attempt
      /\ att'.root = vtask[w].manifest /\ att'.package = None
  BY <1>1 DEF Row
<1>4. /\ OneHandler' /\ HandlersKnow' /\ OneOpen' /\ RowsSettled' /\ FinalizedOnce'
      /\ JobsGiven' /\ ReceiptsKnow'
  BY <1>3, DecisionKept
<1>5. ConfirmedRows'
  BY <1>1, <1>2, <1>3, ConstantsOK DEF ConfirmedRows
<1>6. ValidationsKnow'
  <2>1. vtask'[w].step = "announce" /\ vtask'[w].attempt = vtask[w].attempt
    BY <1>1 DEF Task
  <2>2. ValidationKnows(vtask[w])'
    BY <1>1, <1>2, <1>3, <2>1 DEF ValidationKnows, Checking
  <2> QED BY <2>2, OnlyProcess DEF ValidationsKnow
<1>7. OutcomesAgree'
  BY <1>1, <1>2, <1>3, ConstantsOK
     DEF SeqInv, WorkerSide, OutcomesAgree, OneReceipt, AnnouncedOutcomesAgree
<1> QED
  BY <1>1, <1>3, <1>4, <1>5, <1>6, <1>7
     DEF Edge, Kept, LifecycleEdges, ClientSide, WorkerSide

\* The only open attempt has failed: nothing is open until a repair.
LEMMA CommitFailedOK ==
  ASSUME SeqInv, NEW w \in Processes, CommitFailed(w), UNCHANGED finalized
  PROVE  ClientSide' /\ WorkerSide' /\ Edge /\ Kept
<1> USE DEF CommitFailed, NextValidation, objectVars, eventVars, budgetVars
<1>1. /\ vtask[w].attempt \in Attempts /\ att \in Row
      /\ attempt[vtask[w].attempt] = "uploaded" /\ att.state = "validating"
      /\ att.confirmed = None /\ att.package = None
      /\ \A a \in Attempts : attempt[a] # "validated"
      /\ attempt \in [Attempts -> AttemptStates]
      /\ vtask \in [Processes -> Task(ValidationSteps)]
  BY AtDecision DEF Undecided
<1>2. att'.state = "failed_needs_review" /\ att'.confirmed = None /\ att'.package = None
  BY <1>1 DEF Row
<1>3. /\ OneHandler' /\ HandlersKnow' /\ OneOpen' /\ RowsSettled' /\ FinalizedOnce'
      /\ JobsGiven' /\ ReceiptsKnow'
  BY <1>2, DecisionKept
<1>4. ConfirmedRows'
  BY <1>1, <1>2, ConstantsOK DEF ConfirmedRows
<1>5. ValidationsKnow'
  <2>1. vtask'[w].step = "announceFailure" /\ vtask'[w].attempt = vtask[w].attempt
    BY <1>1 DEF Task
  <2>2. ValidationKnows(vtask[w])'
    BY <1>1, <2>1 DEF ValidationKnows, Checking
  <2> QED BY <2>2, OnlyProcess DEF ValidationsKnow
<1>6. OutcomesAgree'
  BY <1>1, <1>2, ConstantsOK
     DEF SeqInv, WorkerSide, OutcomesAgree, OneReceipt, AnnouncedOutcomesAgree
<1> QED
  BY <1>1, <1>2, <1>3, <1>4, <1>5, <1>6
     DEF Edge, Kept, LifecycleEdges, ClientSide, WorkerSide

-----------------------------------------------------------------------------
(* The receipt                                                              *)

\* A receipt task that begins finds no receipt; one that does not begin leaves no trace.
LEMMA ReceiptBeginsOK ==
  ASSUME SeqInv, NEW w \in Processes, NEW j \in Jobs,
         BeginReceipt(w, j) \/ SkipReceipt(w, j), UNCHANGED finalized
  PROVE  ClientSide' /\ WorkerSide' /\ Edge /\ Kept
<1> USE DEF BeginReceipt, SkipReceipt, rowVars, objectVars, eventVars, budgetVars
<1>1. KeepsClients /\ UNCHANGED att /\ SameJobs /\ OutcomesAgree'
  BY JobsStay, OutcomesStay DEF KeepsClients
<1>2. ValidationKnows(vtask[w])'
  BY TasksAtWork DEF ValidationKnows, Undecided, Checking
<1>3. ReceiptKnows(rtask[w])'
  <2>1. ASSUME BeginReceipt(w, j) PROVE att.package = None /\ rtask'[w].step = "fetch"
    BY <2>1, TasksAtWork DEF CanIssue, NoTask
  <2> QED BY <2>1, TasksAtWork DEF ReceiptKnows
<1> QED
  BY <1>1, <1>2, <1>3, WorkerMoves DEF Kept

\* The receipt is built from the manifest that was confirmed, and stays as it was put until
\* the row names it.
LEMMA ReceiptWorksOK ==
  ASSUME SeqInv, NEW w \in Processes,
         \/ \E p \in Packages : BuildReceipt(w, p)
         \/ FetchForReceiptFails(w) \/ RefuseManifestForReceipt(w) \/ PutReceipt(w),
         UNCHANGED finalized
  PROVE  ClientSide' /\ WorkerSide' /\ Edge /\ Kept
<1> USE DEF BuildReceipt, FetchForReceiptFails, RefuseManifestForReceipt, PutReceipt,
            NextReceipt, rowVars, objectVars, eventVars, budgetVars
<1>1. KeepsClients /\ UNCHANGED att /\ SameJobs
  BY JobsStay DEF KeepsClients
<1>2. ValidationKnows(vtask[w])'
  BY TasksAtWork DEF ValidationKnows, Undecided, Checking
<1>3. /\ rtask \in [Processes -> Task(ReceiptSteps)] /\ rtask[w].attempt \in Attempts
      /\ att.confirmed = rtask[w].attempt /\ att.package = None
      /\ att.root = manifestObj[rtask[w].attempt]
      /\ receiptObj \in [Attempts -> Receipt]
  <2>1. rtask[w].step \in {"fetch", "put"}
    OBVIOUS
  <2>2. /\ rtask[w].attempt \in Attempts /\ att.confirmed = rtask[w].attempt
        /\ att.package = None /\ rtask \in [Processes -> Task(ReceiptSteps)]
    BY <2>1, TasksAtWork DEF ReceiptKnows
  <2>3. att.root = manifestObj[rtask[w].attempt]
    BY <2>2, ConstantsOK DEF SeqInv, ClientSide, ConfirmedRows
  <2> QED BY <2>2, <2>3 DEF SeqInv, IInv, TypeOK
<1>4. OutcomesAgree'
  BY <1>3 DEF SeqInv, WorkerSide, OutcomesAgree, OneReceipt, AnnouncedOutcomesAgree
<1>5. ASSUME NEW p \in Packages, BuildReceipt(w, p) PROVE ReceiptKnows(rtask[w])'
  <2>1. PICK t \in Task(ReceiptSteps) : t = rtask[w]
    BY <1>3
  <2>2. rtask'[w] = [t EXCEPT !.step = "put", !.manifest = manifestObj[rtask[w].attempt],
                               !.package = p]
    BY <1>3, <1>5, <2>1
  <2>3. rtask'[w].step = "put" /\ rtask'[w].manifest = manifestObj[rtask[w].attempt]
    BY <2>2 DEF Task
  <2> QED BY <1>3, <1>5, <2>3 DEF ReceiptKnows
<1>6. ASSUME PutReceipt(w) PROVE ReceiptKnows(rtask[w])'
  <2>1. /\ rtask'[w].step = "commit" /\ rtask'[w].attempt = rtask[w].attempt
        /\ rtask'[w].manifest = rtask[w].manifest /\ rtask'[w].package = rtask[w].package
    BY <1>3, <1>6 DEF Task
  <2>2. receiptObj'[rtask[w].attempt] =
          [package |-> rtask[w].package, root |-> rtask[w].manifest]
    BY <1>3, <1>6
  <2>3. rtask[w].manifest = att.root
    BY <1>6, TasksAtWork DEF ReceiptKnows
  <2> QED BY <1>1, <1>3, <2>1, <2>2, <2>3 DEF ReceiptKnows
<1>7. ASSUME FetchForReceiptFails(w) \/ RefuseManifestForReceipt(w)
      PROVE  ReceiptKnows(rtask[w])'
  <2>1. rtask'[w].step = "return"
    BY <1>3, <1>7 DEF Task
  <2> QED BY <2>1 DEF ReceiptKnows
<1> QED
  BY <1>1, <1>2, <1>4, <1>5, <1>6, <1>7, WorkerMoves DEF Kept

\* The row and its first link name the receipt that was put.
LEMMA CommitReceiptOK ==
  ASSUME SeqInv, NEW w \in Processes, CommitReceipt(w), UNCHANGED finalized
  PROVE  ClientSide' /\ WorkerSide' /\ Edge /\ Kept
<1> USE DEF CommitReceipt, NextReceipt, objectVars, eventVars, budgetVars
<1>1. /\ rtask \in [Processes -> Task(ReceiptSteps)] /\ rtask[w].attempt \in Attempts
      /\ att.package = None /\ att \in Row /\ links = {}
      /\ rtask[w].package \in Packages
      /\ receiptObj[rtask[w].attempt] = [package |-> rtask[w].package, root |-> att.root]
  BY TasksAtWork
     DEF ReceiptKnows, SeqInv, IInv, TypeOK, ReceiptInv, ReceiptBindsConfirmedAttempt
<1>2. /\ att'.state = att.state /\ att'.channel = att.channel /\ att'.renamed = att.renamed
      /\ att'.confirmed = att.confirmed /\ att'.root = att.root
      /\ att'.package = rtask[w].package /\ att'.receipt = rtask[w].attempt
  BY <1>1 DEF Row
<1>3. KeepsClients /\ SameJobs
  BY <1>2, JobsStay DEF KeepsClients
<1>4. ValidationKnows(vtask[w])'
  BY <1>2, TasksAtWork DEF ValidationKnows, Undecided, Checking
<1>5. ReceiptKnows(rtask[w])'
  BY <1>1 DEF ReceiptKnows, Task
<1>6. OneReceipt'
  BY <1>1, <1>2 DEF OneReceipt
<1>7. AnnouncedOutcomesAgree'
  BY <1>2 DEF SeqInv, WorkerSide, OutcomesAgree, AnnouncedOutcomesAgree
<1> QED
  BY <1>2, <1>3, <1>4, <1>5, <1>6, <1>7, WorkerMoves DEF Kept, OutcomesAgree

\* After that the task writes nothing that was published.
LEMMA ReceiptEndsOK ==
  ASSUME SeqInv, NEW w \in Processes,
         \/ AnnounceReceipt(w) \/ RenderReceiptPdf(w) \/ CompleteReceipt(w) \/ ThrowReceipt(w),
         UNCHANGED finalized
  PROVE  ClientSide' /\ WorkerSide' /\ Edge /\ Kept
<1> USE DEF AnnounceReceipt, RenderReceiptPdf, CompleteReceipt, ThrowReceipt,
            NextReceipt, rowVars, objectVars, eventVars, budgetVars
<1>1. att \in Row /\ rtask \in [Processes -> Task(ReceiptSteps)]
      /\ rtask[w].job \in Jobs \cup {None}
  BY TasksAtWork DEF Task, SeqInv, IInv, TypeOK
<1>2. /\ att'.state = att.state /\ att'.channel = att.channel /\ att'.renamed = att.renamed
      /\ att'.confirmed = att.confirmed /\ att'.root = att.root
      /\ att'.package = att.package /\ att'.receipt = att.receipt
  BY <1>1 DEF Row
<1>3. KeepsClients /\ SameJobs
  BY <1>1, <1>2, JobsStay DEF KeepsClients
<1>4. ValidationKnows(vtask[w])'
  BY <1>2, TasksAtWork DEF ValidationKnows, Undecided, Checking
<1>5. rtask'[w].step \in {"pdf", "return", "idle"}
  BY <1>1 DEF Task, NoTask
<1>6. ReceiptKnows(rtask[w])'
  BY <1>5 DEF ReceiptKnows
<1>7. OutcomesAgree'
  BY <1>2 DEF SeqInv, WorkerSide, OutcomesAgree, OneReceipt, AnnouncedOutcomesAgree
<1> QED
  BY <1>2, <1>3, <1>4, <1>6, <1>7, WorkerMoves DEF Kept

\* A process that dies forgets its tasks; a lock that is lost changes none.
LEMMA ProcessFaultsOK ==
  ASSUME SeqInv, UNCHANGED finalized,
         (\E w \in Processes : Crash(w)) \/ (\E j \in Jobs : LoseLock(j))
  PROVE  ClientSide' /\ WorkerSide' /\ Edge /\ Kept
<1> USE DEF rowVars, objectVars, eventVars, budgetVars
<1>1. KeepsClients /\ UNCHANGED att /\ SameJobs /\ OutcomesAgree'
  BY JobsStay, OutcomesStay DEF KeepsClients, Crash, LoseLock
<1>2. PICK w \in Processes : TRUE
  BY OneProcess
<1>3. ASSUME NEW v \in Processes, Crash(v)
      PROVE  ValidationKnows(vtask[w])' /\ ReceiptKnows(rtask[w])'
  <2>1. vtask'[w].step = "idle" /\ rtask'[w].step = "idle"
    BY <1>3, TasksAtWork, OnlyProcess DEF Crash, NoTask
  <2> QED BY <2>1 DEF ValidationKnows, ReceiptKnows, Checking
<1>4. ASSUME NEW j \in Jobs, LoseLock(j)
      PROVE  ValidationKnows(vtask[w])' /\ ReceiptKnows(rtask[w])'
  BY <1>4, TasksAtWork DEF LoseLock, ValidationKnows, ReceiptKnows, Undecided, Checking
<1> QED
  BY <1>1, <1>2, <1>3, <1>4, WorkerMoves DEF Kept

-----------------------------------------------------------------------------
(* The invariant                                                            *)

\* Nothing is there when it starts.
LEMMA SeqInitOK == SeqInit => SeqInv
<1> SUFFICES ASSUME SeqInit PROVE SeqInv
  OBVIOUS
<1>1. IInv
  BY InitOK DEF SeqInit
<1>2. /\ att.state = "absent" /\ att.confirmed = None /\ att.package = None
      /\ \A a \in Attempts : attempt[a] = "absent"
      /\ \A r \in Requests : req[r] = NoHandler
      /\ \A w \in Processes : vtask[w].step = "idle" /\ rtask[w].step = "idle"
      /\ \A j \in Jobs : jobs[j].kind = "none"
      /\ announced = {}
  BY DEF SeqInit, Init, NoTask, FreeJob
<1>3. ClientSide
  BY <1>2, ConstantsOK
     DEF ClientSide, OneHandler, OneOpen, Open, RowsSettled, ConfirmedRows, FinalizedOnce,
         HandlersKnow, HandlerKnows, NoHandler
<1>4. WorkerSide
  BY <1>2
     DEF WorkerSide, JobsGiven, ValidationsKnow, ValidationKnows, Checking, ReceiptsKnow,
         ReceiptKnows, OutcomesAgree, OneReceipt, AnnouncedOutcomesAgree
<1> QED
  BY <1>1, <1>3, <1>4 DEF SeqInv

\* Every step keeps it, follows the lifecycle and does not rename what is confirmed.
LEMMA SeqStepOK == SeqInv /\ SeqNext => ClientSide' /\ WorkerSide' /\ Edge /\ Kept
<1> SUFFICES ASSUME SeqInv, SeqNext PROVE ClientSide' /\ WorkerSide' /\ Edge /\ Kept
  OBVIOUS
<1>1. CASE SequentialCall
  BY <1>1, ClientOK
<1>2. ASSUME NEW r \in Requests, HandlerStep(r) \/ RequestDies(r), UNCHANGED finalized
      PROVE  ClientSide' /\ WorkerSide' /\ Edge /\ Kept
  BY <1>2, PutManifestOK, MarkAttemptOK, MarkAttestationOK, MarkApiOK, MarkValidatingOK,
     EnqueueValidationOK, CancelOK, InsertRepairOK, ReopenOK, RequestDiesOK
     DEF HandlerStep
<1>3. ASSUME NEW w \in Processes, ValidationStep(w), UNCHANGED finalized
      PROVE  ClientSide' /\ WorkerSide' /\ Edge /\ Kept
  BY <1>3, ValidationBeginsOK, ValidationWorksOK, ValidationEndsOK, CommitValidatedOK,
     CommitFailedOK
     DEF ValidationStep
<1>4. ASSUME NEW w \in Processes, ReceiptStep(w), UNCHANGED finalized
      PROVE  ClientSide' /\ WorkerSide' /\ Edge /\ Kept
  BY <1>4, ReceiptBeginsOK, ReceiptWorksOK, CommitReceiptOK, ReceiptEndsOK DEF ReceiptStep
<1>5. ASSUME WorkerFault, UNCHANGED finalized
      PROVE  ClientSide' /\ WorkerSide' /\ Edge /\ Kept
  BY <1>5, ValidationWorksOK, ValidationEndsOK, ReceiptWorksOK, ReceiptEndsOK,
     ProcessFaultsOK
     DEF WorkerFault
<1> QED
  BY <1>1, <1>2, <1>3, <1>4, <1>5 DEF SeqNext

\* A call of this client is a call of Attestation's: what holds there holds here.
LEMMA SeqNextIsNext == SeqNext => Next
BY DEF SeqNext, SequentialCall, Next, ClientCall

\* SeqInv is inductive: it holds in every reachable state.
LEMMA SeqInductive == SeqSpec => []SeqInv
<1>1. SeqInit => SeqInv
  BY SeqInitOK
<1>2. SeqInv /\ [SeqNext]_seqVars => SeqInv'
  <2> SUFFICES ASSUME SeqInv, [SeqNext]_seqVars PROVE SeqInv'
    OBVIOUS
  <2>1. CASE SeqNext
    <3>1. IInv'
      BY <2>1, SeqNextIsNext, ClientStepOK, HandlerStepOK, ValidationStepOK, ReceiptStepOK,
         FaultStepOK
         DEF SeqInv, Next
    <3> QED BY <2>1, <3>1, SeqStepOK DEF SeqInv
  <2>2. CASE UNCHANGED seqVars
    <3> USE <2>2 DEF seqVars, vars, rowVars, objectVars, eventVars, budgetVars
    <3>1. IInv'
      BY DEF SeqInv, IInv, TypeOK, HandlersInv, JobsInv, ValidationInv, ReceiptInv,
             ConfirmedContentValid, PointersResolve, ReceiptBindsConfirmedAttempt
    <3>2. ClientSide'
      BY ClientsKept DEF SeqInv, KeepsClients
    <3>3. WorkerSide'
      BY WorkerKept DEF SeqInv, KeepsWorker, Given, Undecided, WorkerSide
    <3> QED BY <3>1, <3>2, <3>3 DEF SeqInv
  <2> QED BY <2>1, <2>2
<1> QED
  BY <1>1, <1>2, PTL DEF SeqSpec

\* With one call at a time the receipt that was published, its only link and the announced
\* outcomes agree with the rows, whatever of the worker was interrupted, thrown or delivered
\* again.
THEOREM OutcomesAlwaysAgree == SeqSpec => []OutcomesAgree
<1>1. SeqInv => OutcomesAgree
  BY DEF SeqInv, WorkerSide
<1> QED
  BY <1>1, SeqInductive, PTL

\* No late write of a handler or of the worker takes the row along an edge that is not in
\* the lifecycle the header of attestations/routes.ts draws.
THEOREM LifecycleFollowed == SeqSpec => FollowsLifecycle
<1>1. SeqInv /\ [SeqNext]_seqVars
        => [att'.state # att.state => <<att.state, att'.state>> \in LifecycleEdges]_att
  BY SeqStepOK DEF Edge, seqVars, vars, rowVars
<1> QED
  BY <1>1, SeqInductive, PTL DEF SeqSpec, FollowsLifecycle

\* A confirmed attestation is never failed, reopened, renamed or canceled again: the client's
\* next call reads the confirmation, and the worker has one open attempt to decide.
THEOREM ConfirmedStaysConfirmed == SeqSpec => ConfirmedIsImmutable
<1>1. SeqInv /\ [SeqNext]_seqVars
        => [att.confirmed # None => att'.state = "confirmed" /\ att'.renamed = att.renamed]_att
  <2> SUFFICES ASSUME SeqInv, SeqNext, att.confirmed # None
               PROVE  att'.state = "confirmed" /\ att'.renamed = att.renamed
    BY DEF seqVars, vars, rowVars
  <2>1. att.state = "confirmed"
    BY DEF SeqInv, ClientSide, ConfirmedRows
  <2>2. att'.state = "confirmed"
    BY <2>1, SeqStepOK DEF Edge, LifecycleEdges
  <2> QED BY <2>2, SeqStepOK DEF Kept
<1> QED
  BY <1>1, SeqInductive, PTL DEF SeqSpec, ConfirmedIsImmutable
=============================================================================
