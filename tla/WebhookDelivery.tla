--------------------------- MODULE WebhookDelivery ---------------------------
(***************************************************************************)
(* The webhooks of one tenant: its endpoints, the webhook_deliveries rows  *)
(* written for each event, the webhook-delivery queue and the worker that  *)
(* posts a delivery to its endpoint.                                       *)
(*                                                                         *)
(* Rows are committed first and their jobs added afterwards; the worker    *)
(* reads a row, posts, and then updates the row by its id alone.  Delivery *)
(* is at least once: the endpoint may get a delivery again after a crash,  *)
(* a lost lock, or an answer that was lost.                                *)
(***************************************************************************)
EXTENDS Naturals, Functions

CONSTANTS
  Endpoints,   \* ids of webhook_endpoints rows
  Deliveries,  \* ids of webhook_deliveries rows
  Producers,   \* handlers that write events at the same time
  Processes,   \* worker processes; each sends one delivery at a time
  None,        \* no endpoint, no owner
  MaxTries,    \* WEBHOOK_DELIVERY_ATTEMPTS
  MaxStalls,   \* BullMQ maxStalledCount
  MaxDeaths,   \* bound: producers that may die half-way
  MaxFaults    \* bound: worker faults (throw, crash, lost lock)

ASSUME WebhookConstantsOK ==
  /\ None \notin Endpoints \cup Deliveries \cup Processes
  /\ MaxTries \in Nat \ {0}
  /\ {MaxStalls, MaxDeaths, MaxFaults} \subseteq Nat

VARIABLES
  disabled,  \* webhook_endpoints whose disabled_at is set
  delivery,  \* webhook_deliveries
  received,  \* deliveries their endpoint has taken in
  producer,  \* createWebhookDeliveries in each handler
  job,       \* the job of each delivery
  sender,    \* sendWebhookDelivery in each process
  deaths,    \* producers that died
  faults     \* worker faults that happened

tables == <<disabled, delivery, received>>
vars == <<tables, producer, job, sender, deaths, faults>>

Row ==
  [status   : {"absent", "pending", "retrying", "delivered", "failed"},
   endpoint : Endpoints \cup {None},
   attempts : 0..MaxTries]
NoRow == [status |-> "absent", endpoint |-> None, attempts |-> 0]

Job ==
  [status : {"none", "waiting", "active", "done", "failed"},
   owner  : Processes \cup {None},
   made   : 0..MaxTries - 1,         \* attemptsMade
   stalls : 0..MaxStalls]            \* stalledCounter
NoJob == [status |-> "none", owner |-> None, made |-> 0, stalls |-> 0]

\* nothing looks at the counters of a job that ended
Ended(status) == [NoJob EXCEPT !.status = status]

Sender ==
  [step     : {"idle", "refuse", "post", "delivered", "failure", "throw", "return"},
   delivery : Deliveries \cup {None},
   try      : 0..MaxTries]           \* attemptNumber
IdleSender == [step |-> "idle", delivery |-> None, try |-> 0]

Producer == [targets : SUBSET Endpoints, rows : SUBSET Deliveries]
IdleProducer == [targets |-> {}, rows |-> {}]

TypeOK ==
  /\ disabled \subseteq Endpoints
  /\ delivery \in [Deliveries -> Row]
  /\ received \subseteq Deliveries
  /\ producer \in [Producers -> Producer]
  /\ job \in [Deliveries -> Job]
  /\ sender \in [Processes -> Sender]
  /\ deaths \in 0..MaxDeaths
  /\ faults \in 0..MaxFaults

Init ==
  /\ disabled = {}
  /\ delivery = [d \in Deliveries |-> NoRow]
  /\ received = {}
  /\ producer = [p \in Producers |-> IdleProducer]
  /\ job = [d \in Deliveries |-> NoJob]
  /\ sender = [w \in Processes |-> IdleSender]
  /\ deaths = 0
  /\ faults = 0

-----------------------------------------------------------------------------
(* The public API: endpoints                                                *)

\* 409 already_disabled when it is; nothing enables an endpoint again.  One that
\* is not created yet is, to everything here, one that no event targets.
DisableEndpoint(e) ==
  /\ e \notin disabled
  /\ disabled' = disabled \cup {e}
  /\ UNCHANGED <<delivery, received, producer, job, sender, deaths, faults>>

-----------------------------------------------------------------------------
(* createWebhookDeliveries and the jobs its callers add for the rows.  The  *)
(* test route does the same for its one endpoint.                           *)

\* the enabled endpoints interested in the event are read
BeginEvent(p, targets) ==
  /\ producer[p] = IdleProducer
  /\ targets \subseteq Endpoints \ disabled
  /\ targets # {}
  /\ producer' = [producer EXCEPT ![p].targets = targets]
  /\ UNCHANGED <<tables, job, sender, deaths, faults>>

\* one INSERT of a row per endpoint
InsertDeliveries(p) ==
  /\ producer[p].targets # {}
  /\ \E new \in SUBSET {d \in Deliveries : delivery[d] = NoRow} :
       \E of \in Bijection(new, producer[p].targets) :
         /\ delivery' = [d \in Deliveries |->
                           IF d \in new
                             THEN [status |-> "pending", endpoint |-> of[d], attempts |-> 0]
                             ELSE delivery[d]]
         /\ producer' = [producer EXCEPT ![p] = [targets |-> {}, rows |-> new]]
  /\ UNCHANGED <<disabled, received, job, sender, deaths, faults>>

\* the jobs of an event are added in any order (Promise.all)
EnqueueDelivery(p, d) ==
  /\ d \in producer[p].rows
  /\ job' = [job EXCEPT ![d] = [NoJob EXCEPT !.status = "waiting"]]
  /\ producer' = [producer EXCEPT ![p].rows = producer[p].rows \ {d}]
  /\ UNCHANGED <<tables, sender, deaths, faults>>

\* the process of the handler stops, or a call of it is refused
ProducerDies(p) ==
  /\ producer[p] # IdleProducer
  /\ deaths < MaxDeaths
  /\ deaths' = deaths + 1
  /\ producer' = [producer EXCEPT ![p] = IdleProducer]
  /\ UNCHANGED <<tables, job, sender, faults>>

-----------------------------------------------------------------------------
(* The worker: webhook-delivery (sendWebhookDelivery)                       *)

NextSend(w, step) == sender' = [sender EXCEPT ![w].step = step]

\* mutant: a row already delivered is sent again
SendsAlways(d) ==
  IF delivery[d].endpoint \in disabled THEN "refuse" ELSE "post"

\* what the worker does with the row and the endpoint it reads
FirstStep(d) ==
  IF delivery[d].status = "delivered" THEN "return"
  ELSE IF delivery[d].endpoint \in disabled THEN "refuse"
  ELSE "post"

Try(d) == job[d].made + 1

BeginSend(w, d) ==
  /\ sender[w] = IdleSender
  /\ job[d].status = "waiting"
  /\ job' = [job EXCEPT ![d] = [@ EXCEPT !.status = "active", !.owner = w]]
  /\ sender' = [sender EXCEPT ![w] = [step |-> FirstStep(d), delivery |-> d,
                                      try |-> Try(d)]]
  /\ UNCHANGED <<tables, producer, deaths, faults>>

Update(w, status) ==
  delivery' = [delivery EXCEPT ![sender[w].delivery] =
                 [@ EXCEPT !.status = status, !.attempts = sender[w].try]]

\* endpoint_disabled
RefuseDelivery(w) ==
  /\ sender[w].step = "refuse"
  /\ Update(w, "failed")
  /\ NextSend(w, "return")
  /\ UNCHANGED <<disabled, received, producer, job, deaths, faults>>

\* mutant: any answer counts as delivered
AnyAnswerAccepted(w) ==
  /\ sender[w].step = "post"
  /\ NextSend(w, "delivered")
  /\ UNCHANGED <<tables, producer, job, deaths, faults>>

\* the endpoint answers 2xx
PostAccepted(w) ==
  /\ sender[w].step = "post"
  /\ received' = received \cup {sender[w].delivery}
  /\ NextSend(w, "delivered")
  /\ UNCHANGED <<disabled, delivery, producer, job, deaths, faults>>

\* it answers anything else, or not at all: it may have taken the delivery in
PostFails(w) ==
  /\ sender[w].step = "post"
  /\ \/ received' = received \cup {sender[w].delivery}
     \/ UNCHANGED received
  /\ NextSend(w, "failure")
  /\ UNCHANGED <<disabled, delivery, producer, job, deaths, faults>>

RecordDelivered(w) ==
  /\ sender[w].step = "delivered"
  /\ Update(w, "delivered")
  /\ NextSend(w, "return")
  /\ UNCHANGED <<disabled, received, producer, job, deaths, faults>>

\* the update rejects inside the try block: the catch block records a failure
RecordDeliveredRejects(w) ==
  /\ sender[w].step = "delivered"
  /\ faults < MaxFaults
  /\ faults' = faults + 1
  /\ NextSend(w, "failure")
  /\ UNCHANGED <<tables, producer, job, deaths>>

WillRetry(w) == sender[w].try < MaxTries

RecordFailure(w) ==
  /\ sender[w].step = "failure"
  /\ Update(w, IF WillRetry(w) THEN "retrying" ELSE "failed")
  /\ NextSend(w, IF WillRetry(w) THEN "throw" ELSE "return")
  /\ UNCHANGED <<disabled, received, producer, job, deaths, faults>>

\* BullMQ retries a job that threw until its attempts are used up
Retried(j) ==
  IF j.made + 1 < MaxTries
    THEN [j EXCEPT !.status = "waiting", !.owner = None, !.made = j.made + 1]
    ELSE Ended("failed")

\* the processor of w ends; a job whose lock was lost is not touched
EndSend(w, j) ==
  /\ job' = [job EXCEPT ![sender[w].delivery] = IF @.owner = w THEN j ELSE @]
  /\ sender' = [sender EXCEPT ![w] = IdleSender]
  /\ UNCHANGED <<tables, producer, deaths>>

\* mutant: the failure is returned, not thrown
ReturnAfterFailure(w) ==
  /\ sender[w].step = "throw"
  /\ EndSend(w, Ended("done"))
  /\ UNCHANGED faults

\* status retrying: the processor throws so that the queue retries
ThrowToRetry(w) ==
  /\ sender[w].step = "throw"
  /\ EndSend(w, Retried(job[sender[w].delivery]))
  /\ UNCHANGED faults

CompleteSend(w) ==
  /\ sender[w].step = "return"
  /\ EndSend(w, Ended("done"))
  /\ UNCHANGED faults

\* an update outside the try block rejects
SendThrows(w) ==
  /\ sender[w].step \in {"refuse", "failure"}
  /\ faults < MaxFaults
  /\ faults' = faults + 1
  /\ EndSend(w, Retried(job[sender[w].delivery]))

\* the job is taken, and the read of its row rejects
ReadRejects(w, d) ==
  /\ sender[w] = IdleSender
  /\ job[d].status = "waiting"
  /\ faults < MaxFaults
  /\ faults' = faults + 1
  /\ job' = [job EXCEPT ![d] = Retried(job[d])]
  /\ UNCHANGED <<tables, producer, sender, deaths>>

\* the lock expired or its process died: the stalled check puts the job back
Unlocked(j) ==
  IF j.stalls < MaxStalls
    THEN [j EXCEPT !.status = "waiting", !.owner = None, !.stalls = j.stalls + 1]
    ELSE Ended("failed")

LoseLock(d) ==
  /\ job[d].status = "active"
  /\ faults < MaxFaults
  /\ faults' = faults + 1
  /\ job' = [job EXCEPT ![d] = Unlocked(job[d])]
  /\ UNCHANGED <<tables, producer, sender, deaths>>

Crash(w) ==
  /\ sender[w] # IdleSender
  /\ faults < MaxFaults
  /\ faults' = faults + 1
  /\ sender' = [sender EXCEPT ![w] = IdleSender]
  /\ job' = [d \in Deliveries |-> IF job[d].owner = w THEN Unlocked(job[d]) ELSE job[d]]
  /\ UNCHANGED <<tables, producer, deaths>>

-----------------------------------------------------------------------------
ProducerStep(p) ==
  \/ InsertDeliveries(p)
  \/ \E d \in Deliveries : EnqueueDelivery(p, d)

SenderStep(w) ==
  \/ \E d \in Deliveries : BeginSend(w, d)
  \/ RefuseDelivery(w)
  \/ PostAccepted(w)
  \/ PostFails(w)
  \/ RecordDelivered(w)
  \/ RecordFailure(w)
  \/ ThrowToRetry(w)
  \/ CompleteSend(w)

Fault ==
  \/ \E p \in Producers : ProducerDies(p)
  \/ \E w \in Processes : RecordDeliveredRejects(w) \/ SendThrows(w) \/ Crash(w)
  \/ \E d \in Deliveries : LoseLock(d) \/ \E w \in Processes : ReadRejects(w, d)

Next ==
  \/ \E e \in Endpoints : DisableEndpoint(e)
  \/ \E p \in Producers : (\E targets \in SUBSET Endpoints : BeginEvent(p, targets))
                            \/ ProducerStep(p)
  \/ \E w \in Processes : SenderStep(w)
  \/ Fault

Spec == Init /\ [][Next]_vars

\* answered awaits resume, fetch gives up on an endpoint that does not answer,
\* and BullMQ gives a waiting job to an idle worker
FairSpec ==
  /\ Spec
  /\ \A p \in Producers : WF_vars(ProducerStep(p))
  /\ \A w \in Processes : WF_vars(SenderStep(w))

-----------------------------------------------------------------------------
\* A delivery the row says was delivered has been taken in by its endpoint, and
\* one that says failed was tried as often as promised or refused for an
\* endpoint that is disabled.
StatusIsTrue ==
  \A d \in Deliveries :
    /\ delivery[d].status = "delivered" => d \in received
    /\ delivery[d].status = "failed" =>
         delivery[d].attempts = MaxTries \/ delivery[d].endpoint \in disabled

\* With one worker process, delivered is final: no retry, redelivery or late
\* failure sends the delivery again or takes the status back.
DeliveredIsFinal ==
  [][\A d \in Deliveries :
       delivery[d].status = "delivered" => delivery'[d] = delivery[d]]_delivery

\* A delivery whose job was added is settled in the end, or its job is in the
\* failed set: since a job never goes back to "none", it is enough that this is
\* so again and again.
DeliverySettles ==
  \A d \in Deliveries :
    []<>(\/ job[d].status \in {"none", "failed"}
         \/ delivery[d].status \in {"delivered", "failed"})

=============================================================================
