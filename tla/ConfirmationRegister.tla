------------------------ MODULE ConfirmationRegister ------------------------
(***************************************************************************)
(* What Proveria promises of a confirmation, whatever clients, queues and  *)
(* workers do: an attestation is confirmed at most once, by a manifest     *)
(* that passed validation, and a receipt is only ever issued for the       *)
(* confirmed attempt, after the confirmation.  A receipt may be issued     *)
(* again under another package id; its attempt may not change.             *)
(***************************************************************************)
CONSTANTS Attempts, ValidManifests, Packages

VARIABLES
  confirmation,  \* {}, or the confirmed attempt and the root it was confirmed with
  receipt        \* {}, or the package of the receipt and the attempt it is for

vars == <<confirmation, receipt>>

Init == confirmation = {} /\ receipt = {}

Confirm(a, m) ==
  /\ confirmation = {}
  /\ confirmation' = {[attempt |-> a, root |-> m]}
  /\ UNCHANGED receipt

Issue(p) ==
  /\ \E c \in confirmation : receipt' = {[package |-> p, attempt |-> c.attempt]}
  /\ UNCHANGED confirmation

Next ==
  \/ \E a \in Attempts, m \in ValidManifests : Confirm(a, m)
  \/ \E p \in Packages : Issue(p)

Spec == Init /\ [][Next]_vars

=============================================================================
