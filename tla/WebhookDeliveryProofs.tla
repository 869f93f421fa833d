----------------------- MODULE WebhookDeliveryProofs -----------------------
(***************************************************************************)
(* What the status of a webhook delivery says is true, for any number of   *)
(* endpoints, deliveries, producers, worker processes, retries and faults. *)
(***************************************************************************)
EXTENDS WebhookDelivery, TLAPS

Present(d) == delivery[d].status # "absent"
HasJob(d) == job[d].status # "none" \/ job[d].owner # None

\* whoever is to send a delivery, or to add its job, has its row
HaveRows ==
  /\ \A p \in Producers : \A d \in producer[p].rows : Present(d)
  /\ \A d \in Deliveries : HasJob(d) => Present(d)
  /\ \A w \in Processes : sender[w].step # "idle" =>
       sender[w].delivery \in Deliveries /\ Present(sender[w].delivery)

\* what a worker is about to record has happened
SendersKnow ==
  \A w \in Processes :
    /\ sender[w].step = "delivered" => sender[w].delivery \in received
    /\ sender[w].step = "refuse" => delivery[sender[w].delivery].endpoint \in disabled

WebhookInv == TypeOK /\ HaveRows /\ SendersKnow /\ StatusIsTrue

-----------------------------------------------------------------------------
\* Initially there is nothing to be wrong about.
LEMMA WebhookInitOK == Init => WebhookInv
<1> SUFFICES ASSUME Init PROVE WebhookInv
  OBVIOUS
<1>1. TypeOK
  BY WebhookConstantsOK DEF Init, TypeOK, NoRow, Row, NoJob, Job, IdleSender, Sender,
                            IdleProducer, Producer
<1>2. HaveRows /\ SendersKnow /\ StatusIsTrue
  BY DEF Init, HaveRows, HasJob, SendersKnow, StatusIsTrue, NoRow, NoJob, IdleSender, IdleProducer
<1> QED
  BY <1>1, <1>2 DEF WebhookInv

\* The queue makes jobs of jobs.
LEMMA RetriedIsJob ==
  ASSUME NEW j \in Job
  PROVE  Retried(j) \in Job /\ Retried(j).status # "none"
<1>1. Ended("failed") \in Job /\ Ended("failed").status = "failed"
  BY WebhookConstantsOK DEF Job, Ended, NoJob
<1>2. CASE j.made + 1 < MaxTries
  <2>1. j.made + 1 \in 0..MaxTries - 1
    BY <1>2, WebhookConstantsOK DEF Job
  <2> QED
    BY <1>2, <2>1 DEF Job, Retried
<1> QED
  BY <1>1, <1>2 DEF Retried

\* The queue makes a job of one whose lock was lost.
LEMMA UnlockedIsJob ==
  ASSUME NEW j \in Job
  PROVE  Unlocked(j) \in Job /\ Unlocked(j).status # "none"
<1>1. Ended("failed") \in Job /\ Ended("failed").status = "failed"
  BY WebhookConstantsOK DEF Job, Ended, NoJob
<1>2. CASE j.stalls < MaxStalls
  <2>1. j.stalls + 1 \in 0..MaxStalls
    BY <1>2, WebhookConstantsOK DEF Job
  <2> QED
    BY <1>2, <2>1 DEF Job, Unlocked
<1> QED
  BY <1>1, <1>2 DEF Unlocked

-----------------------------------------------------------------------------
\* A worker whose rows, jobs and disabled endpoints do not change takes a step.
LEMMA SenderMovesOK ==
  ASSUME WebhookInv, NEW w \in Processes, NEW step \in {"delivered", "failure", "return"},
         sender[w].step # "idle",
         NextSend(w, step), UNCHANGED <<disabled, delivery, producer, job>>,
         received \subseteq received', received' \subseteq Deliveries,
         step = "delivered" => sender[w].delivery \in received',
         deaths' = deaths, faults' \in 0..MaxFaults
  PROVE  WebhookInv'
<1>1. /\ sender' \in [Processes -> Sender]
      /\ sender'[w].step = step
      /\ sender'[w].delivery = sender[w].delivery
      /\ \A o \in Processes \ {w} : sender'[o] = sender[o]
  BY DEF WebhookInv, TypeOK, NextSend, Sender
<1>2. TypeOK'
  BY <1>1 DEF WebhookInv, TypeOK
<1>3. HaveRows'
  BY <1>1 DEF WebhookInv, HaveRows, HasJob, Present
<1>4. SendersKnow'
  BY <1>1 DEF WebhookInv, SendersKnow
<1>5. StatusIsTrue'
  BY DEF WebhookInv, StatusIsTrue
<1> QED
  BY <1>2, <1>3, <1>4, <1>5 DEF WebhookInv

\* A worker records a status that is true of the delivery it has.
LEMMA UpdateOK ==
  ASSUME WebhookInv, NEW w \in Processes, NEW status \in {"retrying", "delivered", "failed"},
         NEW step \in {"throw", "return"},
         sender[w].step # "idle",
         Update(w, status), NextSend(w, step),
         UNCHANGED <<disabled, received, producer, job, deaths, faults>>,
         status = "delivered" => sender[w].delivery \in received,
         status = "failed" => \/ sender[w].try = MaxTries
                              \/ delivery[sender[w].delivery].endpoint \in disabled
  PROVE  WebhookInv'
<1> DEFINE d == sender[w].delivery
<1>1. /\ sender' \in [Processes -> Sender]
      /\ sender'[w].step = step
      /\ sender'[w].delivery = d
      /\ \A o \in Processes \ {w} : sender'[o] = sender[o]
  BY DEF WebhookInv, TypeOK, NextSend, Sender
<1>2. d \in Deliveries /\ sender[w].try \in 0..MaxTries
  BY DEF WebhookInv, HaveRows, TypeOK, Sender
<1>3. /\ delivery' \in [Deliveries -> Row]
      /\ delivery'[d].status = status
      /\ delivery'[d].attempts = sender[w].try
      /\ delivery'[d].endpoint = delivery[d].endpoint
      /\ \A e \in Deliveries \ {d} : delivery'[e] = delivery[e]
  BY <1>2 DEF WebhookInv, TypeOK, Update, Row
<1>4. TypeOK'
  BY <1>1, <1>3 DEF WebhookInv, TypeOK
<1>5. \A e \in Deliveries : Present(e) => Present(e)'
  BY <1>3 DEF Present
<1>6. HaveRows'
  <2>1. \A p \in Producers : producer[p].rows \subseteq Deliveries
    BY DEF WebhookInv, TypeOK, Producer
  <2> QED
    BY <1>1, <1>2, <1>5, <2>1 DEF WebhookInv, HaveRows, HasJob
<1>7. SendersKnow'
  BY <1>1, <1>3 DEF WebhookInv, SendersKnow, HaveRows
<1>8. StatusIsTrue'
  BY <1>2, <1>3 DEF WebhookInv, StatusIsTrue
<1> QED
  BY <1>4, <1>6, <1>7, <1>8 DEF WebhookInv

\* Jobs change, and workers end, while the tables stay.
LEMMA QueueMovesOK ==
  ASSUME WebhookInv, UNCHANGED <<tables, producer, deaths>>, faults' \in 0..MaxFaults,
         job' \in [Deliveries -> Job],
         \A d \in Deliveries : HasJob(d)' => Present(d),
         sender' \in [Processes -> Sender],
         \A w \in Processes : sender'[w] = sender[w] \/ sender'[w] = IdleSender
  PROVE  WebhookInv'
<1>1. TypeOK'
  BY DEF WebhookInv, TypeOK, tables
<1>2. \A w \in Processes : sender'[w].step # "idle" => sender'[w] = sender[w]
  BY DEF IdleSender
<1>3. HaveRows'
  BY <1>2 DEF WebhookInv, HaveRows, HasJob, Present, tables
<1>4. SendersKnow'
  BY <1>2 DEF WebhookInv, SendersKnow, tables, IdleSender
<1>5. StatusIsTrue'
  BY DEF WebhookInv, StatusIsTrue, tables
<1> QED
  BY <1>1, <1>3, <1>4, <1>5 DEF WebhookInv

\* The processor of a worker ends.
LEMMA EndSendOK ==
  ASSUME WebhookInv, NEW w \in Processes, sender[w].step # "idle",
         NEW j \in Job, j.status # "none",
         EndSend(w, j), faults' \in 0..MaxFaults
  PROVE  WebhookInv'
<1>1. sender[w].delivery \in Deliveries
  BY DEF WebhookInv, HaveRows, HasJob
<1>2. IdleSender \in Sender
  BY WebhookConstantsOK DEF IdleSender, Sender
<1>3. /\ sender' \in [Processes -> Sender]
      /\ \A o \in Processes : sender'[o] = sender[o] \/ sender'[o] = IdleSender
  BY <1>2 DEF WebhookInv, TypeOK, EndSend
<1>4. /\ job' \in [Deliveries -> Job]
      /\ \A d \in Deliveries \ {sender[w].delivery} : job'[d] = job[d]
  BY <1>1 DEF WebhookInv, TypeOK, EndSend
<1>5. \A d \in Deliveries : HasJob(d)' => Present(d)
  BY <1>4 DEF WebhookInv, HaveRows, HasJob
<1> QED
  BY <1>3, <1>4, <1>5, QueueMovesOK DEF EndSend

-----------------------------------------------------------------------------
\* Rows are inserted where there were none, which nobody has to send.
LEMMA InsertOK ==
  ASSUME WebhookInv, NEW p \in Producers, InsertDeliveries(p)
  PROVE  WebhookInv'
<1>1. PICK new \in SUBSET {d \in Deliveries : delivery[d] = NoRow} :
        \E of \in Bijection(new, producer[p].targets) :
          /\ delivery' = [d \in Deliveries |->
                            IF d \in new
                              THEN [status |-> "pending", endpoint |-> of[d], attempts |-> 0]
                              ELSE delivery[d]]
          /\ producer' = [producer EXCEPT ![p] = [targets |-> {}, rows |-> new]]
  BY DEF InsertDeliveries
<1>2. PICK of \in [new -> producer[p].targets] :
        /\ delivery' = [d \in Deliveries |->
                          IF d \in new
                            THEN [status |-> "pending", endpoint |-> of[d], attempts |-> 0]
                            ELSE delivery[d]]
        /\ producer' = [producer EXCEPT ![p] = [targets |-> {}, rows |-> new]]
  BY <1>1 DEF Bijection, Injection, Surjection
<1>3. producer[p].targets \subseteq Endpoints
  BY DEF WebhookInv, TypeOK, Producer
<1>4. /\ \A d \in Deliveries \ new : delivery'[d] = delivery[d]
      /\ \A d \in new : delivery'[d].status = "pending" /\ ~Present(d)
  BY <1>2 DEF Present, NoRow
<1>5. delivery' \in [Deliveries -> Row]
  <2> SUFFICES ASSUME NEW d \in Deliveries, d \in new
               PROVE  [status |-> "pending", endpoint |-> of[d], attempts |-> 0] \in Row
    BY <1>2 DEF WebhookInv, TypeOK
  <2> QED
    BY <1>2, <1>3, WebhookConstantsOK DEF Row
<1>6. producer' \in [Producers -> Producer]
  BY <1>2 DEF WebhookInv, TypeOK, Producer
<1>7. TypeOK'
  BY <1>5, <1>6 DEF WebhookInv, TypeOK, InsertDeliveries
<1>8. \A d \in Deliveries : Present(d) \/ d \in new => Present(d)'
  BY <1>4 DEF Present
<1>9. HaveRows'
  <2>1. \A q \in Producers : producer[q].rows \subseteq Deliveries
    BY DEF WebhookInv, TypeOK, Producer
  <2>2. \A q \in Producers : producer'[q].rows \subseteq producer[q].rows \cup new
    BY <1>2 DEF WebhookInv, TypeOK
  <2> QED
    BY <1>8, <2>1, <2>2 DEF WebhookInv, HaveRows, HasJob, InsertDeliveries
<1>10. SendersKnow'
  <2>1. \A w \in Processes : sender[w].step # "idle" =>
          delivery'[sender[w].delivery] = delivery[sender[w].delivery]
    BY <1>4 DEF WebhookInv, HaveRows, HasJob
  <2> QED
    BY <2>1 DEF WebhookInv, SendersKnow, InsertDeliveries
<1>11. StatusIsTrue'
  BY <1>4 DEF WebhookInv, StatusIsTrue, InsertDeliveries
<1> QED
  BY <1>7, <1>9, <1>10, <1>11 DEF WebhookInv

\* A worker takes a job whose row it can read.
LEMMA BeginSendOK ==
  ASSUME WebhookInv, NEW w \in Processes, NEW d \in Deliveries, BeginSend(w, d)
  PROVE  WebhookInv'
<1>1. job[d] \in Job /\ job[d].status # "none" /\ Present(d)
  BY DEF WebhookInv, TypeOK, HaveRows, HasJob, BeginSend
<1>2. Try(d) \in 0..MaxTries
  BY <1>1, WebhookConstantsOK DEF Try, Job
<1>3. FirstStep(d) \in {"return", "refuse", "post"}
      /\ (FirstStep(d) = "refuse" => delivery[d].endpoint \in disabled)
  BY DEF FirstStep
<1>4. /\ sender' \in [Processes -> Sender]
      /\ sender'[w] = [step |-> FirstStep(d), delivery |-> d, try |-> Try(d)]
      /\ \A o \in Processes \ {w} : sender'[o] = sender[o]
  BY <1>2, <1>3 DEF WebhookInv, TypeOK, BeginSend, Sender
<1>5. /\ job' \in [Deliveries -> Job]
      /\ \A e \in Deliveries \ {d} : job'[e] = job[e]
  BY <1>1 DEF WebhookInv, TypeOK, BeginSend, Job
<1>6. TypeOK'
  BY <1>4, <1>5 DEF WebhookInv, TypeOK, BeginSend, tables
<1>7. HaveRows'
  BY <1>1, <1>4, <1>5 DEF WebhookInv, HaveRows, HasJob, Present, BeginSend, tables
<1>8. SendersKnow'
  BY <1>3, <1>4 DEF WebhookInv, SendersKnow, BeginSend, tables
<1>9. StatusIsTrue'
  BY DEF WebhookInv, StatusIsTrue, BeginSend, tables
<1> QED
  BY <1>6, <1>7, <1>8, <1>9 DEF WebhookInv

\* Producers and endpoints.
LEMMA ProducerMovesOK ==
  ASSUME WebhookInv,
         \/ \E e \in Endpoints : DisableEndpoint(e)
         \/ \E p \in Producers :
              \/ \E targets \in SUBSET Endpoints : BeginEvent(p, targets)
              \/ \E d \in Deliveries : EnqueueDelivery(p, d)
              \/ ProducerDies(p)
  PROVE  WebhookInv'
<1>1. CASE \E e \in Endpoints : DisableEndpoint(e)
  <2>1. PICK e \in Endpoints : DisableEndpoint(e)
    BY <1>1
  <2> QED
    BY <2>1 DEF DisableEndpoint, WebhookInv, TypeOK, HaveRows, HasJob, Present, SendersKnow,
                StatusIsTrue
<1>2. ASSUME NEW p \in Producers, NEW targets \in SUBSET Endpoints, BeginEvent(p, targets)
      PROVE  WebhookInv'
  <2>1. /\ producer' \in [Producers -> Producer]
        /\ \A q \in Producers : producer'[q].rows = producer[q].rows
    BY <1>2 DEF BeginEvent, WebhookInv, TypeOK, Producer
  <2> QED
    BY <1>2, <2>1 DEF BeginEvent, tables, WebhookInv, TypeOK, HaveRows, HasJob, Present,
                      SendersKnow, StatusIsTrue
<1>3. ASSUME NEW p \in Producers, NEW d \in Deliveries, EnqueueDelivery(p, d)
      PROVE  WebhookInv'
  <2>1. /\ producer' \in [Producers -> Producer]
        /\ \A q \in Producers : producer'[q].rows \subseteq producer[q].rows
    BY <1>3 DEF EnqueueDelivery, WebhookInv, TypeOK, Producer
  <2>2. Present(d)
    BY <1>3 DEF EnqueueDelivery, WebhookInv, HaveRows, HasJob
  <2>3. [NoJob EXCEPT !.status = "waiting"] \in Job
    BY WebhookConstantsOK DEF NoJob, Job
  <2>4. /\ job' \in [Deliveries -> Job]
        /\ \A e \in Deliveries \ {d} : job'[e] = job[e]
    BY <1>3, <2>3 DEF EnqueueDelivery, WebhookInv, TypeOK
  <2> QED
    BY <1>3, <2>1, <2>2, <2>4 DEF EnqueueDelivery, tables, WebhookInv, TypeOK, HaveRows,
                                  HasJob, Present, SendersKnow, StatusIsTrue
<1>4. ASSUME NEW p \in Producers, ProducerDies(p)
      PROVE  WebhookInv'
  <2>1. IdleProducer \in Producer /\ IdleProducer.rows = {}
    BY DEF IdleProducer, Producer
  <2>2. /\ producer' \in [Producers -> Producer]
        /\ \A q \in Producers : producer'[q].rows \subseteq producer[q].rows
    BY <1>4, <2>1 DEF ProducerDies, WebhookInv, TypeOK
  <2>3. deaths' \in 0..MaxDeaths
    BY <1>4, WebhookConstantsOK DEF ProducerDies, WebhookInv, TypeOK
  <2> QED
    BY <1>4, <2>2, <2>3 DEF ProducerDies, tables, WebhookInv, TypeOK, HaveRows, HasJob, Present,
                            SendersKnow, StatusIsTrue
<1> QED
  BY <1>1, <1>2, <1>3, <1>4

\* One more fault is within the bound.
LEMMA FaultCounted ==
  ASSUME TypeOK, faults < MaxFaults, faults' = faults + 1
  PROVE  faults' \in 0..MaxFaults
BY WebhookConstantsOK DEF TypeOK

-----------------------------------------------------------------------------
\* What a worker does with its delivery keeps the invariant.
LEMMA SenderStepOK ==
  ASSUME WebhookInv, NEW w \in Processes, SenderStep(w)
  PROVE  WebhookInv'
<1>0. /\ faults \in 0..MaxFaults
      /\ received \subseteq Deliveries
      /\ sender[w].step # "idle" => sender[w].delivery \in Deliveries
      /\ job \in [Deliveries -> Job]
      /\ sender[w].try \in 0..MaxTries
  BY DEF WebhookInv, TypeOK, HaveRows, Sender
<1>1. CASE \E d \in Deliveries : BeginSend(w, d)
  BY <1>1, BeginSendOK
<1>2. CASE RefuseDelivery(w)
  BY <1>2, UpdateOK DEF RefuseDelivery, WebhookInv, SendersKnow
<1>3. CASE PostAccepted(w)
  BY <1>0, <1>3, SenderMovesOK DEF PostAccepted
<1>4. CASE PostFails(w)
  BY <1>0, <1>4, SenderMovesOK DEF PostFails
<1>5. CASE RecordDelivered(w)
  BY <1>5, UpdateOK DEF RecordDelivered, WebhookInv, SendersKnow
<1>6. CASE RecordFailure(w)
  <2>1. ~WillRetry(w) => sender[w].try = MaxTries
    BY <1>0, WebhookConstantsOK DEF WillRetry
  <2>2. CASE WillRetry(w)
    BY <1>6, <2>2, UpdateOK DEF RecordFailure
  <2>3. CASE ~WillRetry(w)
    BY <1>6, <2>1, <2>3, UpdateOK DEF RecordFailure
  <2> QED
    BY <2>2, <2>3
<1>7. Ended("done") \in Job /\ Ended("done").status # "none"
  BY WebhookConstantsOK DEF Ended, NoJob, Job
<1>8. CASE ThrowToRetry(w)
  BY <1>0, <1>8, RetriedIsJob, EndSendOK DEF ThrowToRetry
<1>9. CASE CompleteSend(w)
  BY <1>0, <1>7, <1>9, EndSendOK DEF CompleteSend
<1> QED
  BY <1>1, <1>2, <1>3, <1>4, <1>5, <1>6, <1>8, <1>9 DEF SenderStep

\* Throws, crashes and lost locks change jobs and workers, never a row.
LEMMA WorkerFaultOK ==
  ASSUME WebhookInv,
         \/ \E w \in Processes : RecordDeliveredRejects(w) \/ SendThrows(w) \/ Crash(w)
         \/ \E d \in Deliveries : LoseLock(d) \/ \E w \in Processes : ReadRejects(w, d)
  PROVE  WebhookInv'
<1>0. /\ TypeOK
      /\ received \subseteq Deliveries
      /\ sender \in [Processes -> Sender]
      /\ job \in [Deliveries -> Job]
      /\ \A d \in Deliveries : HasJob(d) => Present(d)
  BY DEF WebhookInv, TypeOK, HaveRows
<1>1. ASSUME NEW w \in Processes, RecordDeliveredRejects(w)
      PROVE  WebhookInv'
  BY <1>0, <1>1, FaultCounted, SenderMovesOK DEF RecordDeliveredRejects, tables
<1>2. ASSUME NEW w \in Processes, SendThrows(w)
      PROVE  WebhookInv'
  <2>1. sender[w].delivery \in Deliveries
    BY <1>2 DEF SendThrows, WebhookInv, HaveRows, HasJob
  <2> QED
    BY <1>0, <1>2, <2>1, FaultCounted, RetriedIsJob, EndSendOK DEF SendThrows
<1>3. ASSUME NEW w \in Processes, Crash(w)
      PROVE  WebhookInv'
  <2>1. IdleSender \in Sender
    BY WebhookConstantsOK DEF IdleSender, Sender
  <2>2. /\ sender' \in [Processes -> Sender]
        /\ \A o \in Processes : sender'[o] = sender[o] \/ sender'[o] = IdleSender
    BY <1>0, <1>3, <2>1 DEF Crash
  <2>3. job' \in [Deliveries -> Job]
    BY <1>0, <1>3, UnlockedIsJob DEF Crash
  <2>4. \A d \in Deliveries : HasJob(d)' => Present(d)
    <3>1. w # None
      BY WebhookConstantsOK
    <3> QED
      BY <1>0, <1>3, <3>1 DEF Crash, HasJob
  <2> QED
    BY <1>0, <1>3, <2>2, <2>3, <2>4, FaultCounted, QueueMovesOK DEF Crash
<1>4. ASSUME NEW d \in Deliveries, LoseLock(d)
      PROVE  WebhookInv'
  <2>1. Unlocked(job[d]) \in Job
    BY <1>0, UnlockedIsJob
  <2>2. /\ job' \in [Deliveries -> Job]
        /\ \A e \in Deliveries : HasJob(e)' => Present(e)
    BY <1>0, <1>4, <2>1 DEF LoseLock, HasJob
  <2> QED
    BY <1>0, <1>4, <2>2, FaultCounted, QueueMovesOK DEF LoseLock, HasJob
<1>5. ASSUME NEW d \in Deliveries, NEW w \in Processes, ReadRejects(w, d)
      PROVE  WebhookInv'
  <2>1. Retried(job[d]) \in Job
    BY <1>0, RetriedIsJob
  <2>2. /\ job' \in [Deliveries -> Job]
        /\ \A e \in Deliveries : HasJob(e)' => Present(e)
    BY <1>0, <1>5, <2>1 DEF ReadRejects, HasJob
  <2> QED
    BY <1>0, <1>5, <2>2, FaultCounted, QueueMovesOK DEF ReadRejects, HasJob
<1> QED
  BY <1>1, <1>2, <1>3, <1>4, <1>5

\* Every step of the webhooks keeps the invariant.
LEMMA WebhookNextOK == WebhookInv /\ [Next]_vars => WebhookInv'
<1> SUFFICES ASSUME WebhookInv, [Next]_vars PROVE WebhookInv'
  OBVIOUS
<1>1. CASE UNCHANGED vars
  BY <1>1 DEF vars, tables, WebhookInv, TypeOK, HaveRows, HasJob, Present, SendersKnow, StatusIsTrue
<1>2. CASE \E p \in Producers : InsertDeliveries(p)
  BY <1>2, InsertOK
<1>3. CASE \E w \in Processes : SenderStep(w)
  BY <1>3, SenderStepOK
<1> QED
  BY <1>1, <1>2, <1>3, ProducerMovesOK, WorkerFaultOK DEF Next, ProducerStep, Fault

\* Every reachable state of the rows, the queue and the workers is well typed.
THEOREM WebhookTypeCorrect == Spec => []TypeOK
<1>1. WebhookInv => TypeOK
  BY DEF WebhookInv
<1> QED
  BY <1>1, WebhookInitOK, WebhookNextOK, PTL DEF Spec

\* A row that says delivered is of a delivery its endpoint has taken in; one that
\* says failed was tried to the last, or its endpoint is disabled.
THEOREM StatusAlwaysTrue == Spec => []StatusIsTrue
<1>1. WebhookInv => StatusIsTrue
  BY DEF WebhookInv
<1> QED
  BY <1>1, WebhookInitOK, WebhookNextOK, PTL DEF Spec

-----------------------------------------------------------------------------
(* Delivered is final, where there is one worker process                    *)

OneWorker == \E w \in Processes : Processes = {w}

\* what the worker is about to send or to record is not delivered yet
NotYetDelivered ==
  \A w \in Processes :
    sender[w].step \in {"refuse", "post", "delivered", "failure"} =>
      delivery[sender[w].delivery].status # "delivered"

DeliveredStay ==
  \A d \in Deliveries : delivery[d].status = "delivered" => delivery'[d] = delivery[d]

\* Rows are written by producers, which write new ones, and by the worker, which writes the
\* one it works on.
LEMMA OnlyOwnRow ==
  ASSUME WebhookInv, NEW w \in Processes, Processes = {w}, Next, sender' # sender \/ delivery' # delivery
  PROVE  \/ /\ \A d \in Deliveries : delivery[d] # NoRow => delivery'[d] = delivery[d]
            /\ UNCHANGED sender
         \/ \E d \in Deliveries : BeginSend(w, d)
         \/ sender'[w].step = "idle" /\ UNCHANGED delivery
         \/ PostAccepted(w) \/ PostFails(w) \/ RecordDeliveredRejects(w)
         \/ RefuseDelivery(w) \/ RecordDelivered(w) \/ RecordFailure(w)
<1>1. CASE \E e \in Endpoints : DisableEndpoint(e)
  BY <1>1 DEF DisableEndpoint
<1>2. CASE \E p \in Producers :
             \/ \E targets \in SUBSET Endpoints : BeginEvent(p, targets)
             \/ ProducerStep(p) \/ ProducerDies(p)
  BY <1>2 DEF BeginEvent, ProducerStep, InsertDeliveries, EnqueueDelivery, ProducerDies, tables
<1>3. CASE \E d \in Deliveries : LoseLock(d) \/ ReadRejects(w, d)
  BY <1>3 DEF LoseLock, ReadRejects, tables
<1>4. CASE ThrowToRetry(w) \/ CompleteSend(w) \/ SendThrows(w) \/ Crash(w)
  BY <1>4 DEF ThrowToRetry, CompleteSend, SendThrows, Crash, EndSend, IdleSender, tables,
              WebhookInv, TypeOK
<1> QED
  BY <1>1, <1>2, <1>3, <1>4 DEF Next, SenderStep, Fault

\* Each of those leaves a row that says delivered as it is.
LEMMA DeliveredStepOK ==
  ASSUME OneWorker, WebhookInv, NotYetDelivered, [Next]_vars
  PROVE  NotYetDelivered' /\ DeliveredStay
<1>1. PICK w \in Processes : Processes = {w}
  BY DEF OneWorker
<1>2. /\ sender \in [Processes -> Sender] /\ delivery \in [Deliveries -> Row]
      /\ sender[w].step # "idle" =>
           sender[w].delivery \in Deliveries /\ delivery[sender[w].delivery] # NoRow
  BY DEF WebhookInv, TypeOK, HaveRows, Present, NoRow
<1>3. CASE UNCHANGED <<sender, delivery>>
  BY <1>3 DEF NotYetDelivered, DeliveredStay
<1>4. CASE UNCHANGED sender /\ \A d \in Deliveries : delivery[d] # NoRow => delivery'[d] = delivery[d]
  BY <1>1, <1>2, <1>4 DEF NotYetDelivered, DeliveredStay, NoRow
<1>5. ASSUME NEW d \in Deliveries, BeginSend(w, d) PROVE NotYetDelivered' /\ DeliveredStay
  <2>1. sender'[w].step = FirstStep(d) /\ sender'[w].delivery = d /\ UNCHANGED delivery
    BY <1>2, <1>5 DEF BeginSend, tables
  <2> QED BY <1>1, <2>1 DEF NotYetDelivered, DeliveredStay, FirstStep
<1>6. CASE sender'[w].step = "idle" /\ UNCHANGED delivery
  BY <1>1, <1>6 DEF NotYetDelivered, DeliveredStay
<1>7. CASE PostAccepted(w) \/ PostFails(w) \/ RecordDeliveredRejects(w)
  <2>1. /\ sender'[w].delivery = sender[w].delivery /\ UNCHANGED delivery
        /\ sender[w].step \in {"post", "delivered"}
    BY <1>2, <1>7 DEF PostAccepted, PostFails, RecordDeliveredRejects, NextSend, Sender, tables
  <2> QED BY <1>1, <2>1 DEF NotYetDelivered, DeliveredStay
<1>8. CASE RefuseDelivery(w) \/ RecordDelivered(w) \/ RecordFailure(w)
  <2>1. sender'[w].step \in {"return", "throw"}
    BY <1>2, <1>8 DEF RefuseDelivery, RecordDelivered, RecordFailure, NextSend, Sender
  <2>2. /\ delivery[sender[w].delivery].status # "delivered"
        /\ \A d \in Deliveries \ {sender[w].delivery} : delivery'[d] = delivery[d]
    BY <1>2, <1>8 DEF RefuseDelivery, RecordDelivered, RecordFailure, Update, NotYetDelivered
  <2> QED BY <1>1, <2>1, <2>2 DEF NotYetDelivered, DeliveredStay
<1> QED
  BY <1>1, <1>3, <1>4, <1>5, <1>6, <1>7, <1>8, OnlyOwnRow DEF vars, tables

\* With one worker process no retry, redelivery or late failure writes the row of a delivery
\* that was delivered; with two, one whose lock was lost may.
THEOREM DeliveredStaysDelivered ==
  ASSUME OneWorker
  PROVE  Spec => DeliveredIsFinal
<1>1. Init => NotYetDelivered
  BY DEF Init, NotYetDelivered, IdleSender
<1>2. WebhookInv /\ NotYetDelivered /\ [Next]_vars => NotYetDelivered' /\ DeliveredStay
  BY DeliveredStepOK
<1>3. DeliveredStay =>
        [\A d \in Deliveries :
           delivery[d].status = "delivered" => delivery'[d] = delivery[d]]_delivery
  BY DEF DeliveredStay
<1> QED
  BY <1>1, <1>2, <1>3, WebhookInitOK, WebhookNextOK, PTL DEF Spec, DeliveredIsFinal

=============================================================================
