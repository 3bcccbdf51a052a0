------------------------------- MODULE Merkle -------------------------------
(***************************************************************************)
(* The Merkle tree of merkle.py and its verification by the contract       *)
(* (verifymerkle of assets.py).  Hashing is symbolic: the hash of a value  *)
(* or of two nodes is a record that holds them, so that two hashes are     *)
(* equal exactly when what was hashed is.  Indices count from 0, as in the *)
(* code.                                                                   *)
(***************************************************************************)
EXTENDS Naturals, Sequences

Leaf(value) == [leaf |-> value]

ZeroNode == Leaf(<<>>)

Hash(left, right) == [left |-> left, right |-> right]

(***************************************************************************)
(* The depth is the natural logarithm of the number of values, rounded up: *)
(* the least d for which the values are no more than e to the d.  Exact up *)
(* to MaxLeaves values.                                                    *)
(***************************************************************************)
PowersOfE == <<2, 7, 20, 54>>

MaxLeaves == 54

Depth(n) ==
    IF n = 1 THEN 1
    ELSE CHOOSE d \in 1 .. 4 : n <= PowersOfE[d] /\ (d = 1 \/ n > PowersOfE[d - 1])

\* The leaves: the values, padded with zero nodes up to 2^depth if they are fewer.
NumLeaves(n) == IF n < 2 ^ Depth(n) THEN 2 ^ Depth(n) ELSE n

(***************************************************************************)
(* _buildtree splits the leaves into those at even and those at odd        *)
(* indices down to pairs, and asserts at each split that they are even in  *)
(* number: only a power of two survives.  MaxLeaves is below 2^6.          *)
(***************************************************************************)
Heights == 1 .. 5

BuildsTree(n) == n # 0 /\ \E height \in Heights : NumLeaves(n) = 2 ^ height

Height(n) == CHOOSE height \in Heights : NumLeaves(n) = 2 ^ height

Leaves(values) ==
    [i \in 0 .. NumLeaves(Len(values)) - 1 |->
        IF i < Len(values) THEN Leaf(values[i + 1]) ELSE ZeroNode]

\* A row of nodes above one that is twice as wide.
Parents(row, width) == [i \in 0 .. width - 1 |-> Hash(row[i], row[i + width])]

(***************************************************************************)
(* The nodes k levels above the leaves: the one numbered i covers the      *)
(* leaves whose index is i modulo the number of nodes there.               *)
(***************************************************************************)
Nodes(values) ==
    LET height == Height(Len(values))
        nodes[k \in 0 .. height] ==
            IF k = 0 THEN Leaves(values) ELSE Parents(nodes[k - 1], 2 ^ (height - k))
    IN nodes

RootHash(values) == Nodes(values)[Height(Len(values))][0]

(***************************************************************************)
(* _createlevels: the nodes at depth d from left to right, by their        *)
(* numbers.                                                                *)
(***************************************************************************)
LevelOrder(n) ==
    LET order[d \in 0 .. Height(n)] ==
            IF d = 0 THEN <<0>>
            ELSE [k \in 1 .. 2 ^ d |->
                     LET parent == order[d - 1][(k + 1) \div 2]
                     IN IF k % 2 = 1 THEN parent ELSE parent + 2 ^ (d - 1)]
    IN order

Level(values, d) ==
    LET order == LevelOrder(Len(values))[d]
        nodes == Nodes(values)[Height(Len(values)) - d]
    IN [k \in 1 .. 2 ^ d |-> nodes[order[k]]]

(***************************************************************************)
(* createproof: from depth to 1, the sibling of the node at index in the   *)
(* order of its level.  An index outside the first level used is an error. *)
(***************************************************************************)
CanProve(n, index) == index < 2 ^ Depth(n)

Sibling(index) == IF index % 2 = 0 THEN index + 1 ELSE index - 1

CreateProof(values, index) ==
    LET depth == Depth(Len(values))
    IN [k \in 1 .. depth |->
            Level(values, depth + 1 - k)[Sibling(index \div 2 ^ (k - 1)) + 1]]

\* Mutant of RunningHash: the sides are swapped.
RunningHashSwapped(leaf, index, proof) ==
    LET running[k \in 0 .. Len(proof)] ==
            IF k = 0 THEN leaf
            ELSE IF (index \div 2 ^ (k - 1)) % 2 = 1
            THEN Hash(running[k - 1], proof[k])
            ELSE Hash(proof[k], running[k - 1])
    IN running[Len(proof)]

\* verifymerkle: hash up from the leaf, on the side the index says.
RunningHash(leaf, index, proof) ==
    LET running[k \in 0 .. Len(proof)] ==
            IF k = 0 THEN leaf
            ELSE IF (index \div 2 ^ (k - 1)) % 2 = 0
            THEN Hash(running[k - 1], proof[k])
            ELSE Hash(proof[k], running[k - 1])
    IN running[Len(proof)]

VerifyMerkle(leaf, index, proof, root) == RunningHash(leaf, index, proof) = root
=============================================================================
