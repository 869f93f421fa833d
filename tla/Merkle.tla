------------------------------- MODULE Merkle -------------------------------
(***************************************************************************)
(* The Merkle tree over the leaves of a manifest, the proof that a match   *)
(* package carries, and its verification.  A leaf hash is a number, which  *)
(* stands for its place in the order of the hashes.  The hash of an inner  *)
(* node is the pair of its children: as for the code, whose hash input     *)
(* starts with a byte no leaf hash input starts with, no node equals a     *)
(* leaf and no two nodes with different children are equal.                *)
(***************************************************************************)
EXTENDS SequencesExt, FiniteSets, Integers

CONSTANT MaxLeaves   \* bound: leaves of a tree

ASSUME MerkleAssumption == MaxLeaves \in Nat

VARIABLE leafSet     \* the leaf hashes of the manifest

MerkleInit == leafSet \in (SUBSET (1..MaxLeaves)) \ {{}}

Leaf(x) == <<x>>
Node(l, r) == <<l, r>>

\* validateAndSort of distinct leaves
Rank(S, x) == Cardinality({y \in S : y <= x})
SortedLeaves(S) == [i \in 1..Cardinality(S) |-> Leaf(CHOOSE x \in S : Rank(S, x) = i)]

HalfUp(n) == (n + 1) \div 2

Pairs(level) == [i \in 1..(Len(level) \div 2) |-> Node(level[2 * i - 1], level[2 * i])]

\* mutant: the odd node is paired with itself
NextLevelPairingOdd(level) ==
  IF Len(level) % 2 = 0 THEN Pairs(level)
                        ELSE Append(Pairs(level), Node(Last(level), Last(level)))

\* buildNextLevel: the last node of an odd level is carried up unchanged
NextLevel(level) ==
  IF Len(level) % 2 = 0 THEN Pairs(level) ELSE Append(Pairs(level), Last(level))

\* n rounds are more than any tree of n leaves needs, and a level of one node
\* is its own next level
Levels(S) ==
  LET level[n \in 0..Cardinality(S)] ==
        IF n = 0 THEN SortedLeaves(S)
        ELSE LET below == level[n - 1]
             IN  IF Len(below) > 1 THEN NextLevel(below) ELSE below
  IN  level

\* computeMerkleRoot
Root(S) == Levels(S)[Cardinality(S)][1]

Step(sibling, position) == [sibling |-> sibling, position |-> position]

\* the steps that one level adds to the proof for its node i
StepsAt(level, i) ==
  CASE i = Len(level) /\ Len(level) % 2 = 1 -> <<>>
    [] i < Len(level) /\ i % 2 = 1          -> <<Step(level[i + 1], "right")>>
    [] OTHER                                -> <<Step(level[i - 1], "left")>>

\* The proof as it grows, with the level it has reached and the node it is at there.
Climb(S, x) ==
  LET leaves == SortedLeaves(S)
      climb[n \in 0..Cardinality(S)] ==
        IF n = 0
        THEN [level |-> leaves, proof |-> <<>>,
              at |-> CHOOSE i \in DOMAIN leaves : leaves[i] = Leaf(x)]
        ELSE LET s == climb[n - 1]
             IN  IF Len(s.level) > 1
                 THEN [level |-> NextLevel(s.level),
                       proof |-> s.proof \o StepsAt(s.level, s.at),
                       at    |-> HalfUp(s.at)]
                 ELSE s
  IN  climb

\* buildMerkleProof
Proof(S, x) == Climb(S, x)[Cardinality(S)].proof

\* verifyMerkleProof, and the node it has after each step of the proof
Ascent(leaf, proof) ==
  LET node[n \in 0..Len(proof)] ==
        IF n = 0 THEN leaf
        ELSE IF proof[n].position = "left" THEN Node(proof[n].sibling, node[n - 1])
                                           ELSE Node(node[n - 1], proof[n].sibling)
  IN  node
Verifies(leaf, proof, root) == Ascent(leaf, proof)[Len(proof)] = root

-----------------------------------------------------------------------------
\* The proof of a match verifies against the root, for every leaf of a tree of
\* every size, odd levels and promoted nodes included; it proves no other leaf,
\* and neither the root of a tree with a leaf less nor of one with a leaf more
\* accepts it.
ProofsVerify ==
  \A x \in leafSet :
    LET proof == Proof(leafSet, x)
    IN  /\ Verifies(Leaf(x), proof, Root(leafSet))
        /\ \A y \in 1..MaxLeaves :
             /\ Verifies(Leaf(y), proof, Root(leafSet)) => y = x
             /\ LET other == IF y \in leafSet THEN leafSet \ {y} ELSE leafSet \cup {y}
                IN  other # {} => ~Verifies(Leaf(x), proof, Root(other))
=============================================================================
