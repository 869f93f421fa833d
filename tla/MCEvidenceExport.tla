-------------------------- MODULE MCEvidenceExport --------------------------
(***************************************************************************)
(* Two questions in one run.  With focus "writes" the routes that take a   *)
(* key run against each other; with focus "exports" the export route runs  *)
(* together with the queue, the workers and the cleanup.                   *)
(***************************************************************************)
EXTENDS EvidenceExport, FiniteSets

CONSTANTS k1, k2, k3, k4, k5, k6

MCRouteOf ==
  [k \in Keys |->
     CASE k = k1 -> "exports"
       [] k = k2 -> "projects"
       [] k = k3 -> "verifier-access"
       [] k = k4 -> "attestations"
       [] k = k5 -> "webhook-endpoints"
       [] OTHER  -> "webhook-tests"]

VARIABLE focus
mcVars == <<vars, focus>>

\* bound: there is one key of each route, and two routes share no row
OneKey ==
  Cardinality({k \in Keys : replay'[k] # None \/ \E r \in Requests : request'[r].key = k}) <= 1

MCInit == Init /\ focus \in {"writes", "exports"}

MCNext ==
  /\ \/ focus = "writes" /\ IdemNext /\ OneKey /\ UNCHANGED exportVars
     \/ focus = "exports" /\ Next
  /\ UNCHANGED focus

MCSpec ==
  /\ MCInit /\ [][MCNext]_mcVars
  /\ \A w \in Workers : WF_mcVars(focus = "exports" /\ BuilderStep(w) /\ UNCHANGED focus)
=============================================================================
