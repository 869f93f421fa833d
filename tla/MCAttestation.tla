--------------------------- MODULE MCAttestation ---------------------------
(***************************************************************************)
(* Attestation for TLC: clients that call the API in any order and         *)
(* concurrently, over several worker processes.                            *)
(***************************************************************************)
EXTENDS Attestation, TLC

Symmetric ==
  Permutations(Attempts) \cup Permutations(Requests) \cup Permutations(Processes)
    \cup Permutations(Jobs) \cup Permutations(Packages)

=============================================================================
