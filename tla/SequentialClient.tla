-------------------------- MODULE SequentialClient --------------------------
(***************************************************************************)
(* Attestation as the desktop app drives it, in the deployment the compose *)
(* file and the terraform describe: one worker process.                    *)
(*                                                                         *)
(* The desktop's submit awaits create, then upload-manifest, then finalize, *)
(* calls each once and stops at the first error.  The model adds the       *)
(* API's cancel and repair calls under the same discipline: one call in    *)
(* flight at a time, and no attempt finalized twice.  Crashes, throws and  *)
(* redelivered jobs are those of Attestation.                              *)
(***************************************************************************)
EXTENDS Attestation

ASSUME OneProcess == \E w \in Processes : Processes = {w}

VARIABLE finalized  \* the attempts the client has called finalize for

seqVars == <<vars, finalized>>

SeqInit == Init /\ finalized = {}

Quiet == \A r \in Requests : req[r] = NoHandler

\* the next call of the client; an error answer ended the submit
SequentialCall ==
  /\ Quiet
  /\ deaths = 0
  /\ \/ /\ \/ \E a \in Attempts : CreateAttestation(a)
           \/ \E r \in Requests :
                \/ \E a \in Attempts, m \in Manifests : SubmitByApi(r, a, m)
                \/ \E a \in Attempts, m \in Manifests : BeginUpload(r, a, m)
                \/ BeginCancel(r)
                \/ BeginRepair(r)
        /\ UNCHANGED finalized
     \/ \E r \in Requests, a \in Attempts \ finalized :
          /\ BeginFinalize(r, a)
          /\ finalized' = finalized \cup {a}

SeqNext ==
  \/ SequentialCall
  \/ /\ \/ \E r \in Requests : HandlerStep(r) \/ RequestDies(r)
        \/ \E w \in Processes : ValidationStep(w) \/ ReceiptStep(w)
        \/ WorkerFault
     /\ UNCHANGED finalized

SeqSpec ==
  /\ SeqInit
  /\ [][SeqNext]_seqVars
  /\ \A r \in Requests : WF_vars(HandlerStep(r))
  /\ \A w \in Processes : WF_vars(ValidationStep(w)) /\ WF_vars(ReceiptStep(w))

-----------------------------------------------------------------------------
(* What holds under that discipline                                        *)

\* The lifecycle the header of attestations/routes.ts draws, with its repair
\* and cancel edges: a late write never takes the row along another edge.
LifecycleEdges ==
  {<<"absent", "pending">>, <<"pending", "uploaded">>,
   <<"pending", "validating">>, <<"uploaded", "validating">>,
   <<"validating", "confirmed">>, <<"validating", "failed_needs_review">>,
   <<"failed_needs_review", "pending">>,
   <<"pending", "canceled">>, <<"uploaded", "canceled">>}
FollowsLifecycle ==
  [][att'.state # att.state => <<att.state, att'.state>> \in LifecycleEdges]_att

\* The receipt that was published is the one the row and its only link name,
\* and carries the root the attestation was confirmed with, however often the
\* receipt job was interrupted and run again.
OneReceipt ==
  att.package # None =>
    /\ links = {att.package}
    /\ receiptObj[att.receipt] = [package |-> att.package, root |-> att.root]

\* attestation.confirmed and attestation.failed are announced for what the rows
\* say, and never both for one attempt.
AnnouncedOutcomesAgree ==
  \A a \in Attempts :
    /\ <<"attestation.confirmed", a>> \in announced =>
         att.confirmed = a /\ attempt[a] = "validated" /\ resultObj[a] = "validated"
    /\ <<"attestation.failed", a>> \in announced =>
         att.confirmed # a /\ attempt[a] = "failed"

\* What the outside sees of an attestation, its receipt, its link and its
\* events, agrees with its rows, whatever was interrupted and run again.
OutcomesAgree == OneReceipt /\ AnnouncedOutcomesAgree

\* Every finalized attempt is decided, or its job is in the failed set where
\* the operator finds it: throws, crashes and lost locks delay it, they do not
\* lose it.  (An API handler that dies before it enqueues is excluded.)
GivenUp(a) ==
  \E j \in Jobs :
    jobs[j].kind = "validate" /\ jobs[j].attempt = a /\ jobs[j].status = "failed"
FinalizedIsDecided ==
  \A a \in Attempts :
    (\E r \in Requests : req[r].step = "enqueue" /\ req[r].attempt = a)
      ~> (attempt[a] \in {"validated", "failed"} \/ GivenUp(a) \/ deaths > 0)

\* In a run without faults every confirmation gets its receipt.
ConfirmedGetsReceipt ==
  (att.confirmed # None) ~> (att.package # None \/ faults > 0)

\* A signed receipt is generated at confirmation (docs/v1 18.2): every
\* confirmed attestation ends up with one, faults of the worker included.
EveryConfirmationGetsReceipt == (att.confirmed # None) ~> (att.package # None)

=============================================================================
