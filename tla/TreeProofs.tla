----------------------------- MODULE TreeProofs -----------------------------
(***************************************************************************)
(* Proofs about DistributionTree, for every snapshot, number of assets and *)
(* schedule of the registration.                                           *)
(***************************************************************************)
EXTENDS DistributionTree, AsaProofs

LEMMA TreeTypeInit == TreeInit => TreeTypeOK
<1> SUFFICES ASSUME TreeInit PROVE TreeTypeOK
  OBVIOUS
<1> USE TreeAssumption
<1>1. NoHolding \in Holding
  BY DEF NoHolding, Holding
<1>2. ledger \in [ElectionAssets -> [Accounts -> Holding]]
  BY <1>1 DEF TreeInit
<1>3. claimed \in [ElectionAssets -> [People -> 0 .. MaxClaimed]]
  BY DEF TreeInit
<1> QED
  BY <1>2, <1>3 DEF TreeInit, TreeTypeOK

LEMMA InitElectionTokenType ==
    ASSUME TreeTypeOK, NEW p \in People, NEW units \in Totals, InitElectionToken(p, units)
    PROVE  TreeTypeOK'
<1> USE TreeAssumption DEF TreeTypeOK, InitElectionToken
<1>1. created + 1 \in ElectionAssets /\ created' = created + 1
  BY DEF ElectionAssets
<1>2. NewAsset(Accounts, TreeAddr, units) \in [Accounts -> Holding]
  BY DEF NewAsset, NoHolding, Holding
<1>3. ledger' \in [ElectionAssets -> [Accounts -> Holding]]
  BY <1>1, <1>2
<1>4. created' \in 0 .. MaxAssets /\ assetId' \in 0 .. created'
  BY <1>1
<1> QED
  BY <1>3, <1>4

LEMMA PayType ==
    ASSUME TreeTypeOK, NEW asset \in 1 .. created, NEW from \in Accounts, NEW to \in Accounts,
           NEW n \in Nat, CanTransfer(ledger[asset], from, to, n)
    PROVE  /\ asset \in ElectionAssets
           /\ [ledger EXCEPT ![asset] = Transfer(@, from, to, n)]
                 \in [ElectionAssets -> [Accounts -> Holding]]
<1>1. asset \in ElectionAssets
  BY TreeAssumption DEF TreeTypeOK, ElectionAssets
<1>2. ledger[asset] \in [Accounts -> Holding]
  BY <1>1 DEF TreeTypeOK
<1>3. Transfer(ledger[asset], from, to, n) \in [Accounts -> Holding]
  BY <1>2, TransferType
<1> QED
  BY <1>1, <1>3 DEF TreeTypeOK

LEMMA ClaimType ==
    ASSUME TreeTypeOK, NEW p \in People, NEW index \in 0 .. MaxLeaves - 1, Claim(p, index)
    PROVE  TreeTypeOK'
<1> USE TreeAssumption
<1>1. Share(index) \in Nat
  <2>1. snapshot \in Snapshots /\ index < Len(snapshot)
    BY DEF Claim, Live, TreeTypeOK
  <2>2. Len(snapshot) \in Nat /\ index \in Nat
    <3>1. Len(snapshot) \in 1 .. 54 /\ index \in 0 .. 53
      BY <2>1 DEF MaxLeaves
    <3> HIDE TreeAssumption
    <3> QED
      BY <3>1
  <2>3. index + 1 \in DOMAIN snapshot
    BY <2>1, <2>2
  <2> QED
    BY <2>1, <2>3 DEF Share
<1>2. assetId \in 1 .. created
  BY DEF TreeTypeOK, Claim
<1>3. assetId \in ElectionAssets /\ ledger' \in [ElectionAssets -> [Accounts -> Holding]]
  BY <1>1, <1>2, PayType DEF Claim, PayUnits
<1>4. claimed[assetId][p] + Share(index) \in 0 .. MaxClaimed
  <2>1. claimed[assetId][p] \in Nat
    BY <1>3 DEF TreeTypeOK
  <2>2. claimed[assetId][p] + Share(index) <= MaxClaimed
    BY DEF Claim
  <2> HIDE DEF Share
  <2> QED
    BY <1>1, <2>1, <2>2
<1>5. claimed' = [claimed EXCEPT ![assetId][p] = claimed[assetId][p] + Share(index)]
  BY DEF Claim
<1>6. claimed' \in [ElectionAssets -> [People -> 0 .. MaxClaimed]]
  BY <1>3, <1>4, <1>5 DEF TreeTypeOK
<1> QED
  BY <1>3, <1>6 DEF TreeTypeOK, Claim

LEMMA TreeStep == TreeTypeOK /\ [TreeNext]_treeVars => TreeTypeOK'
<1> SUFFICES ASSUME TreeTypeOK, [TreeNext]_treeVars PROVE TreeTypeOK'
  OBVIOUS
<1> USE TreeAssumption
<1>1. ASSUME NEW values \in Snapshots, DeployTree(values) PROVE TreeTypeOK'
  BY <1>1 DEF DeployTree, TreeTypeOK
<1>2. ASSUME NEW p \in People, NEW units \in Totals, InitElectionToken(p, units)
      PROVE  TreeTypeOK'
  BY <1>2, InitElectionTokenType
<1>3. ASSUME NEW p \in People, NEW asset \in ElectionAssets, OptInElectionToken(p, asset)
      PROVE  TreeTypeOK'
  <2>1. asset \in 1 .. created /\ CanTransfer(ledger[asset], TreeAddr, TreeAddr, 0)
    BY <1>3 DEF OptInElectionToken, CanTransfer
  <2>2. ledger' \in [ElectionAssets -> [Accounts -> Holding]]
    BY <1>3, <2>1, PayType DEF OptInElectionToken
  <2>3. assetId' \in 0 .. created'
    BY <1>3, <2>1 DEF OptInElectionToken, TreeTypeOK
  <2> QED
    BY <1>3, <2>2, <2>3 DEF OptInElectionToken, TreeTypeOK
<1>4. ASSUME NEW p \in People, NEW fate \in {"deleted", "replaced"}, EndTree(p, fate)
      PROVE  TreeTypeOK'
  BY <1>4 DEF EndTree, TreeTypeOK
<1>5. ASSUME NEW asset \in ElectionAssets, NEW from \in People, NEW to \in Accounts,
             NEW units \in 0 .. 1, MoveUnits(asset, from, to, units)
      PROVE  TreeTypeOK'
  <2>1. ledger' \in [ElectionAssets -> [Accounts -> Holding]]
    BY <1>5, PayType DEF MoveUnits
  <2> QED
    BY <1>5, <2>1 DEF MoveUnits, TreeTypeOK
<1>6. ASSUME NEW p \in People, NEW index \in 0 .. MaxLeaves - 1, Claim(p, index)
      PROVE  TreeTypeOK'
  BY <1>6, ClaimType
<1>7. CASE TreeTick
  BY <1>7 DEF TreeTick, TreeTypeOK
<1>8. CASE UNCHANGED treeVars
  BY <1>8 DEF treeVars, TreeTypeOK
<1> QED
  BY <1>1, <1>2, <1>3, <1>4, <1>5, <1>6, <1>7, <1>8 DEF TreeNext

(***************************************************************************)
(* The state of the tree keeps its type: the contract gives out an asset   *)
(* it created itself, and no account's holding goes below zero.            *)
(***************************************************************************)
THEOREM TreeTypes == TreeSpec => []TreeTypeOK
  BY TreeTypeInit, TreeStep, PTL DEF TreeSpec
-----------------------------------------------------------------------------
(***************************************************************************)
(* The tree and its verification.  Heights are small numbers, so that what *)
(* is needed of powers of two can be read off them.                        *)
(***************************************************************************)
LEMMA Doubling ==
    ASSUME NEW d \in 0 .. 5
    PROVE  /\ 2 ^ d \in Nat /\ 2 ^ d >= 1
           /\ d # 5 => 2 ^ (d + 1) = 2 * 2 ^ d
<1>1. 2 ^ 0 = 1 /\ 2 ^ 1 = 2 /\ 2 ^ 2 = 4 /\ 2 ^ 3 = 8 /\ 2 ^ 4 = 16 /\ 2 ^ 5 = 32
  OBVIOUS
<1>2. CASE d = 0
  BY <1>1, <1>2
<1>3. CASE d = 1
  BY <1>1, <1>3
<1>4. CASE d = 2
  BY <1>1, <1>4
<1>5. CASE d = 3
  BY <1>1, <1>5
<1>6. CASE d = 4
  BY <1>1, <1>6
<1>7. CASE d = 5
  BY <1>1, <1>7
<1> QED
  BY <1>2, <1>3, <1>4, <1>5, <1>6, <1>7

LEMMA HeightOfTree ==
    ASSUME NEW n, BuildsTree(n)
    PROVE  /\ Height(n) \in 1 .. 5 /\ NumLeaves(n) = 2 ^ Height(n)
           /\ NumLeaves(n) \in Nat
<1>1. Height(n) \in 1 .. 5 /\ NumLeaves(n) = 2 ^ Height(n)
  BY DEF BuildsTree, Height, Heights
<1>2. PICK height \in 0 .. 5 : height = Height(n)
  BY <1>1
<1>3. 2 ^ height \in Nat
  BY Doubling
<1> QED
  BY <1>1, <1>2, <1>3

\* Hashes are equal only if what was hashed is.
LEMMA HashesDiffer ==
    /\ \A v, w : Leaf(v) = Leaf(w) => v = w
    /\ \A v, a, b : Leaf(v) # Hash(a, b)
    /\ \A a, b, c, d : Hash(a, b) = Hash(c, d) => a = c /\ b = d
<1>1. ASSUME NEW v, NEW w, Leaf(v) = Leaf(w) PROVE v = w
  <2>1. Leaf(v).leaf = v /\ Leaf(w).leaf = w
    BY DEF Leaf
  <2> QED
    BY <1>1, <2>1
<1>2. ASSUME NEW v, NEW a, NEW b PROVE Leaf(v) # Hash(a, b)
  <2>1. "leaf" \in DOMAIN Leaf(v) /\ "leaf" \notin DOMAIN Hash(a, b)
    BY DEF Leaf, Hash
  <2> QED
    BY <2>1
<1>3. ASSUME NEW a, NEW b, NEW c, NEW d, Hash(a, b) = Hash(c, d) PROVE a = c /\ b = d
  <2>1. Hash(a, b).left = a /\ Hash(c, d).left = c /\ Hash(a, b).right = b /\ Hash(c, d).right = d
    BY DEF Hash
  <2> QED
    BY <1>3, <2>1
<1> QED
  BY <1>1, <1>2, <1>3

\* What makes nodes the rows of a tree, from the leaves to the root.
AreNodes(values, nodes) ==
    nodes = [k \in 0 .. Height(Len(values)) |->
                IF k = 0 THEN Leaves(values)
                ELSE Parents(nodes[k - 1], 2 ^ (Height(Len(values)) - k))]

LEMMA NodesExist ==
    ASSUME NEW values, Height(Len(values)) \in Nat
    PROVE  \E nodes : AreNodes(values, nodes)
<1> DEFINE height == Height(Len(values))
           row(g, k) == IF k = 0 THEN Leaves(values) ELSE Parents(g[k - 1], 2 ^ (height - k))
           upTo(g, n) == g = [k \in 0 .. n |-> row(g, k)]
           good == {n \in Nat : \E g : upTo(g, n)}
<1>1. 0 \in good
  <2> DEFINE g == [k \in 0 .. 0 |-> Leaves(values)]
  <2>1. upTo(g, 0)
    OBVIOUS
  <2> QED
    BY <2>1
<1>2. ASSUME NEW n \in Nat, n \in good PROVE n + 1 \in good
  <2>1. PICK g : upTo(g, n)
    BY <1>2
  <2> DEFINE h == [k \in 0 .. n + 1 |-> IF k = n + 1 THEN row(g, n + 1) ELSE g[k]]
  <2>2. upTo(h, n + 1)
    <3> SUFFICES ASSUME NEW k \in 0 .. n + 1 PROVE h[k] = row(h, k)
      OBVIOUS
    <3>1. CASE k = n + 1
      BY <3>1
    <3>2. CASE k # n + 1
      <4>1. k \in 0 .. n
        BY <3>2
      <4>2. h[k] = row(g, k)
        BY <2>1, <3>2, <4>1
      <4>3. row(g, k) = row(h, k)
        BY <4>1
      <4> QED
        BY <4>2, <4>3
    <3> QED
      BY <3>1, <3>2
  <2> HIDE DEF upTo, h
  <2> QED
    BY <2>2
<1>3. height \in good
  <2> HIDE DEF good
  <2> QED
    BY <1>1, <1>2, NatSetInduction
<1> QED
  BY <1>3 DEF AreNodes

LEMMA RowsOfTree ==
    ASSUME NEW values, Height(Len(values)) \in Nat
    PROVE  AreNodes(values, Nodes(values))
<1>1. Nodes(values) = CHOOSE nodes : AreNodes(values, nodes)
  BY Zenon DEF Nodes, AreNodes
<1> QED
  BY <1>1, NodesExist

LEMMA TreeRows ==
    ASSUME NEW values, BuildsTree(Len(values))
    PROVE  LET height == Height(Len(values)) IN
           /\ height \in 1 .. 5
           /\ Nodes(values)[0] = Leaves(values)
           /\ \A k \in 0 .. height - 1 :
                  /\ 2 ^ (height - k) = 2 * 2 ^ (height - (k + 1))
                  /\ 2 ^ (height - (k + 1)) \in Nat
                  /\ Nodes(values)[k + 1] = Parents(Nodes(values)[k], 2 ^ (height - (k + 1)))
<1> DEFINE height == Height(Len(values))
<1>1. height \in 1 .. 5
  BY HeightOfTree
<1>2. AreNodes(values, Nodes(values))
  BY <1>1, RowsOfTree
<1> HIDE DEF height
<1>3. Nodes(values) = [k \in 0 .. height |->
          IF k = 0 THEN Leaves(values) ELSE Parents(Nodes(values)[k - 1], 2 ^ (height - k))]
  BY <1>2 DEF AreNodes, height
<1>4. Nodes(values)[0] = Leaves(values)
  BY <1>1, <1>3
<1>5. ASSUME NEW k \in 0 .. height - 1
      PROVE  /\ 2 ^ (height - k) = 2 * 2 ^ (height - (k + 1))
             /\ 2 ^ (height - (k + 1)) \in Nat
             /\ Nodes(values)[k + 1] = Parents(Nodes(values)[k], 2 ^ (height - (k + 1)))
  <2>1. k + 1 \in 0 .. height /\ k + 1 # 0 /\ (k + 1) - 1 = k
    BY <1>1
  <2>2. Nodes(values)[k + 1] = Parents(Nodes(values)[k], 2 ^ (height - (k + 1)))
    BY <1>3, <2>1
  <2> DEFINE d == height - (k + 1)
  <2>3. d \in 0 .. 5 /\ d # 5 /\ d + 1 = height - k
    BY <1>1
  <2>4. 2 ^ d \in Nat /\ 2 ^ (d + 1) = 2 * 2 ^ d
    <3> HIDE DEF d
    <3> QED
      BY <2>3, Doubling
  <2> QED
    BY <2>2, <2>3, <2>4
<1> QED
  BY <1>1, <1>4, <1>5 DEF height

\* What makes running the hashes on the way up from a leaf.
AreRunning(leaf, index, proof, running) ==
    running = [k \in 0 .. Len(proof) |->
                  IF k = 0 THEN leaf
                  ELSE IF (index \div 2 ^ (k - 1)) % 2 = 0
                  THEN Hash(running[k - 1], proof[k])
                  ELSE Hash(proof[k], running[k - 1])]

LEMMA RunningExists ==
    ASSUME NEW leaf, NEW index, NEW proof, Len(proof) \in Nat
    PROVE  \E running : AreRunning(leaf, index, proof, running)
<1> DEFINE node(g, k) == IF k = 0 THEN leaf
                         ELSE IF (index \div 2 ^ (k - 1)) % 2 = 0
                         THEN Hash(g[k - 1], proof[k])
                         ELSE Hash(proof[k], g[k - 1])
           upTo(g, n) == g = [k \in 0 .. n |-> node(g, k)]
           good == {n \in Nat : \E g : upTo(g, n)}
<1>1. 0 \in good
  <2> DEFINE g == [k \in 0 .. 0 |-> leaf]
  <2>1. upTo(g, 0)
    OBVIOUS
  <2> QED
    BY <2>1
<1>2. ASSUME NEW n \in Nat, n \in good PROVE n + 1 \in good
  <2>1. PICK g : upTo(g, n)
    BY <1>2
  <2> DEFINE h == [k \in 0 .. n + 1 |-> IF k = n + 1 THEN node(g, n + 1) ELSE g[k]]
  <2>2. upTo(h, n + 1)
    <3> SUFFICES ASSUME NEW k \in 0 .. n + 1 PROVE h[k] = node(h, k)
      OBVIOUS
    <3>1. \A j \in 0 .. n : h[j] = g[j]
      OBVIOUS
    <3>2. k # 0 => k - 1 \in 0 .. n
      OBVIOUS
    <3>3. node(h, k) = node(g, k)
      BY <3>1, <3>2
    <3>4. h[k] = node(g, k)
      BY <2>1
    <3> QED
      BY <3>3, <3>4
  <2> HIDE DEF upTo, h
  <2> QED
    BY <2>2
<1>3. Len(proof) \in good
  <2> HIDE DEF good
  <2> QED
    BY <1>1, <1>2, NatSetInduction
<1> QED
  BY <1>3 DEF AreRunning

LEMMA RunningHashes ==
    ASSUME NEW leaf, NEW index, NEW proof, Len(proof) \in Nat
    PROVE  \E running : /\ AreRunning(leaf, index, proof, running)
                        /\ RunningHash(leaf, index, proof) = running[Len(proof)]
<1> DEFINE running == CHOOSE running : AreRunning(leaf, index, proof, running)
<1>1. RunningHash(leaf, index, proof) = running[Len(proof)]
  BY Zenon DEF RunningHash, AreRunning
<1>2. AreRunning(leaf, index, proof, running)
  BY RunningExists
<1> QED
  BY <1>1, <1>2

(***************************************************************************)
(* Where the hashes on the way up from a leaf meet a node of the tree,     *)
(* they meet it as high above a leaf as it is: the nodes below agree in    *)
(* turn, down to a leaf of the tree.                                       *)
(***************************************************************************)
MeetAtHeight(values, value, proof, running) ==
    LET height == Height(Len(values)) IN
    \A k \in 0 .. height : \A m \in 0 .. Len(proof), i \in 0 .. 2 ^ (height - k) - 1 :
        running[m] = Nodes(values)[k][i] =>
            m = k /\ \E l \in 0 .. NumLeaves(Len(values)) - 1 : Leaf(value) = Leaves(values)[l]

LEMMA HashesMeetAtHeight ==
    ASSUME NEW values, BuildsTree(Len(values)), NEW value, NEW index, NEW proof,
           Len(proof) \in Nat, NEW running, AreRunning(Leaf(value), index, proof, running)
    PROVE  MeetAtHeight(values, value, proof, running)
<1> DEFINE height == Height(Len(values))
           nodes  == Nodes(values)
           meets  == \E l \in 0 .. NumLeaves(Len(values)) - 1 :
                         Leaf(value) = Leaves(values)[l]
           good == {k \in Nat : k <= height =>
                       \A m \in 0 .. Len(proof), i \in 0 .. 2 ^ (height - k) - 1 :
                           running[m] = nodes[k][i] => m = k /\ meets}
<1>1. /\ height \in 1 .. 5 /\ nodes[0] = Leaves(values)
      /\ \A k \in 0 .. height - 1 :
             /\ 2 ^ (height - k) = 2 * 2 ^ (height - (k + 1))
             /\ 2 ^ (height - (k + 1)) \in Nat
             /\ nodes[k + 1] = Parents(nodes[k], 2 ^ (height - (k + 1)))
  BY TreeRows
<1>2. /\ running[0] = Leaf(value)
      /\ \A m \in 1 .. Len(proof) :
             \/ running[m] = Hash(running[m - 1], proof[m])
             \/ running[m] = Hash(proof[m], running[m - 1])
  <2>1. running[0] = Leaf(value)
    BY DEF AreRunning
  <2> SUFFICES ASSUME NEW m \in 1 .. Len(proof)
               PROVE  \/ running[m] = Hash(running[m - 1], proof[m])
                      \/ running[m] = Hash(proof[m], running[m - 1])
    BY <2>1
  <2>2. m \in 0 .. Len(proof) /\ m # 0
    OBVIOUS
  <2> QED
    BY <2>2 DEF AreRunning
<1>3. NumLeaves(Len(values)) = 2 ^ (height - 0)
  BY <1>1, HeightOfTree
<1> HIDE DEF height, nodes
<1>4. 0 \in good
  <2> SUFFICES ASSUME NEW m \in 0 .. Len(proof), NEW i \in 0 .. 2 ^ (height - 0) - 1,
                      running[m] = nodes[0][i]
               PROVE  m = 0 /\ meets
    BY <1>1
  <2>1. i \in 0 .. NumLeaves(Len(values)) - 1
    BY <1>3
  <2>2. \E v : nodes[0][i] = Leaf(v)
    BY <1>1, <2>1 DEF Leaves, ZeroNode
  <2>3. m = 0
    BY <1>2, <2>2, HashesDiffer
  <2> QED
    BY <1>1, <1>2, <2>1, <2>3
<1>5. ASSUME NEW k \in Nat, k \in good PROVE k + 1 \in good
  <2> SUFFICES ASSUME k + 1 <= height, NEW m \in 0 .. Len(proof),
                      NEW i \in 0 .. 2 ^ (height - (k + 1)) - 1,
                      running[m] = nodes[k + 1][i]
               PROVE  m = k + 1 /\ meets
    OBVIOUS
  <2> DEFINE width == 2 ^ (height - (k + 1))
  <2>1. k \in 0 .. height - 1
    BY <1>1
  <2>2. width \in Nat /\ 2 ^ (height - k) = 2 * width /\ nodes[k + 1] = Parents(nodes[k], width)
    BY <1>1, <2>1
  <2> HIDE DEF width
  <2>3. /\ nodes[k + 1][i] = Hash(nodes[k][i], nodes[k][i + width])
        /\ i \in 0 .. 2 ^ (height - k) - 1 /\ i + width \in 0 .. 2 ^ (height - k) - 1
    BY <2>2 DEF Parents, width
  <2>4. m # 0
    BY <1>2, <2>3, HashesDiffer
  <2>5. running[m - 1] = nodes[k][i] \/ running[m - 1] = nodes[k][i + width]
    BY <1>2, <2>3, <2>4, HashesDiffer
  <2>6. \A j \in 0 .. Len(proof), l \in 0 .. 2 ^ (height - k) - 1 :
            running[j] = nodes[k][l] => j = k /\ meets
    <3>1. k <= height
      BY <1>1, <2>1
    <3> HIDE DEF meets
    <3> QED
      BY <1>5, <3>1
  <2>7. m - 1 \in 0 .. Len(proof)
    BY <2>4
  <2>8. m - 1 = k /\ meets
    <3> HIDE DEF meets
    <3> QED
      BY <2>3, <2>5, <2>6, <2>7
  <2> QED
    BY <2>8
<1>6. \A k \in Nat : k \in good
  <2> HIDE DEF good
  <2> QED
    BY <1>4, <1>5, NatSetInduction
<1> QED
  BY <1>6 DEF height, nodes, MeetAtHeight

(***************************************************************************)
(* Whatever the proof and the index, a leaf that the contract verifies     *)
(* against the root of a tree is that of a value the tree was built of,    *)
(* and the proof is as long as the tree is high.                           *)
(***************************************************************************)
THEOREM VerifiedValueIsInTree ==
    ASSUME NEW values, Len(values) \in Nat, BuildsTree(Len(values)),
           NEW value, value # <<>>, NEW index, NEW proof, Len(proof) \in Nat,
           VerifyMerkle(Leaf(value), index, proof, RootHash(values))
    PROVE  /\ Len(proof) = Height(Len(values))
           /\ \E i \in 1 .. Len(values) : values[i] = value
<1> DEFINE height == Height(Len(values))
<1>1. PICK running : /\ AreRunning(Leaf(value), index, proof, running)
                     /\ RunningHash(Leaf(value), index, proof) = running[Len(proof)]
  BY RunningHashes
<1>2. running[Len(proof)] = Nodes(values)[height][0]
  BY <1>1 DEF VerifyMerkle, RootHash
<1>3. /\ height \in 0 .. height /\ Len(proof) \in 0 .. Len(proof)
      /\ 0 \in 0 .. 2 ^ (height - height) - 1
  <2>1. height \in 1 .. 5
    BY TreeRows
  <2>2. height - height = 0 /\ 2 ^ 0 = 1
    BY <2>1
  <2> HIDE DEF height
  <2> QED
    BY <2>1, <2>2
<1>4. /\ Len(proof) = height
      /\ \E l \in 0 .. NumLeaves(Len(values)) - 1 : Leaf(value) = Leaves(values)[l]
  <2>1. \A k \in 0 .. height : \A m \in 0 .. Len(proof), i \in 0 .. 2 ^ (height - k) - 1 :
            running[m] = Nodes(values)[k][i] =>
                m = k /\ \E l \in 0 .. NumLeaves(Len(values)) - 1 : Leaf(value) = Leaves(values)[l]
    <3>1. MeetAtHeight(values, value, proof, running)
      BY <1>1, HashesMeetAtHeight
    <3> QED
      BY <3>1 DEF MeetAtHeight
  <2> HIDE DEF height
  <2> QED
    BY <1>2, <1>3, <2>1
<1>5. PICK l \in 0 .. NumLeaves(Len(values)) - 1 : Leaf(value) = Leaves(values)[l]
  BY <1>4
<1>6. IF l < Len(values) THEN Leaf(value) = Leaf(values[l + 1]) ELSE Leaf(value) = Leaf(<<>>)
  BY <1>5 DEF Leaves, ZeroNode
<1>7. l < Len(values) /\ value = values[l + 1]
  BY <1>6, HashesDiffer
<1>8. l \in Nat
  BY HeightOfTree
<1> QED
  BY <1>4, <1>7, <1>8

LEMMA DepthOfTree ==
    ASSUME NEW n \in 1 .. MaxLeaves PROVE Depth(n) \in 1 .. 4
<1>1. CASE n = 1
  BY <1>1 DEF Depth
<1>2. CASE n # 1
  <2>1. \E d \in 1 .. 4 : n <= PowersOfE[d] /\ (d = 1 \/ n > PowersOfE[d - 1])
    <3>1. /\ PowersOfE[1] = 2 /\ PowersOfE[2] = 7 /\ PowersOfE[3] = 20 /\ PowersOfE[4] = 54
          /\ n \in 1 .. 54
      BY DEF PowersOfE, MaxLeaves
    <3>2. n <= 2 \/ (n > 2 /\ n <= 7) \/ (n > 7 /\ n <= 20) \/ (n > 20 /\ n <= 54)
      BY <3>1
    <3> QED
      BY <3>1, <3>2
  <2> QED
    BY <1>2, <2>1 DEF Depth
<1> QED
  BY <1>1, <1>2

LEMMA LengthOfProof ==
    ASSUME NEW values, Len(values) \in 1 .. MaxLeaves, NEW index
    PROVE  /\ Len(CreateProof(values, index)) = Depth(Len(values))
           /\ Len(CreateProof(values, index)) \in Nat
<1> DEFINE depth == Depth(Len(values))
           node(k) == Level(values, depth + 1 - k)[Sibling(index \div 2 ^ (k - 1)) + 1]
<1>1. depth \in Nat
  BY DepthOfTree
<1>2. CreateProof(values, index) = [k \in 1 .. depth |-> node(k)]
  BY DEF CreateProof
<1> HIDE DEF depth, node
<1>3. Len([k \in 1 .. depth |-> node(k)]) = depth
  BY <1>1
<1> QED
  BY <1>1, <1>2, <1>3 DEF depth
-----------------------------------------------------------------------------
(***************************************************************************)
(* Shares.  A running tree can be built, and an account has been paid its  *)
(* own share, some number of times.                                        *)
(***************************************************************************)
SharesInv == OwnShareOnly /\ (snapshot # <<>> => BuildsTree(Len(snapshot)))

LEMMA SharesInit == TreeInit => SharesInv
<1> SUFFICES ASSUME TreeInit PROVE SharesInv
  OBVIOUS
<1>1. OwnShareOnly
  <2> SUFFICES ASSUME NEW asset \in ElectionAssets, NEW p \in People
               PROVE  \E times \in 0 .. claimed[asset][p] :
                          claimed[asset][p] = times * ShareOf(p)
    BY DEF OwnShareOnly
  <2>1. claimed[asset][p] = 0
    BY DEF TreeInit
  <2>2. ShareOf(p) = 0
    BY DEF TreeInit, ShareOf
  <2> QED
    BY <2>1, <2>2
<1> QED
  BY <1>1 DEF SharesInv, TreeInit

LEMMA ShareNat == ASSUME TreeTypeOK, NEW p PROVE ShareOf(p) \in Nat
<1>1. \A i \in DOMAIN snapshot : snapshot[i][2] \in Nat
  BY TreeAssumption DEF TreeTypeOK
<1> QED
  BY <1>1 DEF ShareOf

(***************************************************************************)
(* What the contract pays in a claim is the caller's own share.            *)
(***************************************************************************)
LEMMA ClaimPaysOwnShare ==
    ASSUME TreeTypeOK, SharesInv, NEW p \in People, NEW index \in 0 .. MaxLeaves - 1,
           Claim(p, index)
    PROVE  Share(index) = ShareOf(p)
<1>1. /\ snapshot \in Snapshots /\ snapshot # <<>>
      /\ VerifyMerkle(Leaf(<<p, Share(index)>>), index, CreateProof(snapshot, index),
                      RootHash(snapshot))
  BY DEF Claim, Live, Verifies, TreeTypeOK
<1>2. /\ Len(snapshot) \in 1 .. MaxLeaves /\ DOMAIN snapshot = 1 .. Len(snapshot)
      /\ \A i, j \in DOMAIN snapshot : snapshot[i][1] = snapshot[j][1] => i = j
  BY <1>1, TreeAssumption
<1>3. Len(CreateProof(snapshot, index)) \in Nat /\ Len(snapshot) \in Nat
  <2>1. Len(snapshot) \in Nat
    BY <1>2
  <2> QED
    BY <1>2, <2>1, LengthOfProof
<1>4. BuildsTree(Len(snapshot))
  BY <1>1 DEF SharesInv
<1>5. \E i \in 1 .. Len(snapshot) : snapshot[i] = <<p, Share(index)>>
  <2> DEFINE value == <<p, Share(index)>>
             proof == CreateProof(snapshot, index)
  <2>1. value # <<>>
    OBVIOUS
  <2>2. VerifyMerkle(Leaf(value), index, proof, RootHash(snapshot)) /\ Len(proof) \in Nat
    BY <1>1, <1>3
  <2> HIDE DEF value, proof
  <2>3. \E i \in 1 .. Len(snapshot) : snapshot[i] = value
    BY <1>3, <1>4, <2>1, <2>2, VerifiedValueIsInTree
  <2> QED
    BY <2>3 DEF value
<1>6. PICK i \in DOMAIN snapshot : snapshot[i] = <<p, Share(index)>>
  BY <1>2, <1>5
<1>7. snapshot[i][1] = p /\ snapshot[i][2] = Share(index)
  BY <1>6
<1>8. (CHOOSE j \in DOMAIN snapshot : snapshot[j][1] = p) = i
  BY <1>2, <1>7
<1> QED
  BY <1>7, <1>8 DEF ShareOf

LEMMA ClaimShares ==
    ASSUME TreeTypeOK, SharesInv, NEW p \in People, NEW index \in 0 .. MaxLeaves - 1,
           Claim(p, index)
    PROVE  SharesInv'
<1>1. Share(index) = ShareOf(p)
  BY ClaimPaysOwnShare
<1>2. /\ claimed' = [claimed EXCEPT ![assetId][p] = @ + Share(index)]
      /\ UNCHANGED snapshot
  BY DEF Claim
<1>3. OwnShareOnly'
  <2> SUFFICES ASSUME NEW asset \in ElectionAssets, NEW q \in People
               PROVE  \E times \in 0 .. claimed'[asset][q] :
                          claimed'[asset][q] = times * ShareOf(q)
    BY <1>2 DEF OwnShareOnly, ShareOf
  <2> DEFINE share == ShareOf(q)
             paid  == claimed[asset][q]
  <2>1. share \in Nat /\ paid \in Nat
    BY ShareNat DEF TreeTypeOK
  <2>2. PICK times \in 0 .. paid : paid = times * share
    BY DEF SharesInv, OwnShareOnly
  <2>3. claimed'[asset][q] = paid \/ claimed'[asset][q] = paid + share
    BY <1>1, <1>2 DEF TreeTypeOK
  <2> HIDE DEF share, paid
  <2>4. CASE claimed'[asset][q] = paid
    BY <2>2, <2>4 DEF share
  <2>5. CASE claimed'[asset][q] = paid + share
    <3>1. CASE share = 0
      <4>1. claimed'[asset][q] = paid
        BY <2>1, <2>5, <3>1
      <4> QED
        BY <2>4, <4>1
    <3>2. CASE share # 0
      <4>1. times + 1 \in 0 .. paid + share
        BY <2>1, <2>2, <3>2
      <4>2. (times + 1) * share = times * share + share
        BY <2>1, <2>2
      <4>3. claimed'[asset][q] = (times + 1) * share
        BY <2>2, <2>5, <4>2
      <4> QED
        BY <2>5, <4>1, <4>3 DEF share
    <3> QED
      BY <3>1, <3>2
  <2> QED
    BY <2>3, <2>4, <2>5
<1> QED
  BY <1>2, <1>3 DEF SharesInv

(***************************************************************************)
(* Nothing was paid before the tree was deployed, so that any shares will  *)
(* do for its snapshot.                                                    *)
(***************************************************************************)
LEMMA DeployShares ==
    ASSUME TreeTypeOK, SharesInv, NEW values \in Snapshots, DeployTree(values)
    PROVE  SharesInv'
<1>1. /\ snapshot = <<>> /\ snapshot' = values /\ BuildsTree(Len(values))
      /\ UNCHANGED claimed
  BY DEF DeployTree
<1>2. \A asset \in ElectionAssets, p \in People : claimed[asset][p] = 0
  <2> SUFFICES ASSUME NEW asset \in ElectionAssets, NEW p \in People
               PROVE  claimed[asset][p] = 0
    OBVIOUS
  <2>1. ShareOf(p) = 0
    BY <1>1 DEF ShareOf
  <2>2. PICK times \in 0 .. claimed[asset][p] : claimed[asset][p] = times * ShareOf(p)
    BY DEF SharesInv, OwnShareOnly
  <2> QED
    BY <2>1, <2>2
<1>3. OwnShareOnly'
  <2> SUFFICES ASSUME NEW asset \in ElectionAssets, NEW p \in People
               PROVE  \E times \in 0 .. claimed[asset][p] :
                          claimed[asset][p] = times * ShareOf(p)'
    BY <1>1 DEF OwnShareOnly
  <2>1. ShareOf(p)' \in Nat
    <3>1. \A i \in DOMAIN values : values[i][2] \in Nat
      BY TreeAssumption
    <3> QED
      BY <1>1, <3>1 DEF ShareOf
  <2>2. claimed[asset][p] = 0 /\ 0 * ShareOf(p)' = 0
    BY <1>2, <2>1
  <2> QED
    BY <2>2
<1> QED
  BY <1>1, <1>3 DEF SharesInv

LEMMA SharesStep == TreeTypeOK /\ SharesInv /\ [TreeNext]_treeVars => SharesInv'
<1> SUFFICES ASSUME TreeTypeOK, SharesInv, [TreeNext]_treeVars PROVE SharesInv'
  OBVIOUS
<1>1. ASSUME UNCHANGED <<snapshot, claimed>> PROVE SharesInv'
  <2>1. \A p \in People : ShareOf(p)' = ShareOf(p)
    BY <1>1 DEF ShareOf
  <2>2. OwnShareOnly'
    BY <1>1, <2>1 DEF SharesInv, OwnShareOnly
  <2> QED
    BY <1>1, <2>2 DEF SharesInv
<1>2. ASSUME NEW values \in Snapshots, DeployTree(values) PROVE SharesInv'
  BY <1>2, DeployShares
<1>3. ASSUME NEW p \in People, NEW index \in 0 .. MaxLeaves - 1, Claim(p, index)
      PROVE  SharesInv'
  BY <1>3, ClaimShares
<1>4. ASSUME \/ \E p \in People, units \in Totals : InitElectionToken(p, units)
             \/ \E p \in People, asset \in ElectionAssets : OptInElectionToken(p, asset)
             \/ \E p \in People, fate \in {"deleted", "replaced"} : EndTree(p, fate)
             \/ \E asset \in ElectionAssets, from \in People, to \in Accounts, units \in 0 .. 1 :
                   MoveUnits(asset, from, to, units)
             \/ TreeTick
             \/ UNCHANGED treeVars
      PROVE  SharesInv'
  BY <1>1, <1>4
  DEF InitElectionToken, OptInElectionToken, EndTree, MoveUnits, TreeTick, treeVars
<1> QED
  BY <1>2, <1>3, <1>4, Zenon DEF TreeNext

(***************************************************************************)
(* An account is paid its own share, whole, or nothing, whatever it claims *)
(* with: the tree binds each count to its account.                         *)
(***************************************************************************)
THEOREM SharesArePersonal == TreeSpec => []OwnShareOnly
<1>1. TreeSpec => []SharesInv
  BY SharesInit, SharesStep, TreeTypes, PTL DEF TreeSpec
<1>2. SharesInv => OwnShareOnly
  BY DEF SharesInv
<1> QED
  BY <1>1, <1>2, PTL
-----------------------------------------------------------------------------
(***************************************************************************)
(* The levels of the tree, from the root to the leaves and from left to    *)
(* right, as createproof reads them.                                       *)
(***************************************************************************)
AreOrdered(n, order) ==
    order = [d \in 0 .. Height(n) |->
                IF d = 0 THEN <<0>>
                ELSE [k \in 1 .. 2 ^ d |->
                         LET parent == order[d - 1][(k + 1) \div 2]
                         IN IF k % 2 = 1 THEN parent ELSE parent + 2 ^ (d - 1)]]

LEMMA OrderExists ==
    ASSUME NEW n, Height(n) \in Nat
    PROVE  \E order : AreOrdered(n, order)
<1> DEFINE row(g, d) == IF d = 0 THEN <<0>>
                        ELSE [k \in 1 .. 2 ^ d |->
                                 LET parent == g[d - 1][(k + 1) \div 2]
                                 IN IF k % 2 = 1 THEN parent ELSE parent + 2 ^ (d - 1)]
           upTo(g, m) == g = [d \in 0 .. m |-> row(g, d)]
           good == {m \in Nat : \E g : upTo(g, m)}
<1>1. 0 \in good
  <2> DEFINE g == [d \in 0 .. 0 |-> <<0>>]
  <2>1. upTo(g, 0)
    OBVIOUS
  <2> QED
    BY <2>1
<1>2. ASSUME NEW m \in Nat, m \in good PROVE m + 1 \in good
  <2>1. PICK g : upTo(g, m)
    BY <1>2
  <2> DEFINE h == [d \in 0 .. m + 1 |-> IF d = m + 1 THEN row(g, m + 1) ELSE g[d]]
  <2>2. upTo(h, m + 1)
    <3> SUFFICES ASSUME NEW d \in 0 .. m + 1 PROVE h[d] = row(h, d)
      OBVIOUS
    <3>1. \A j \in 0 .. m : h[j] = g[j]
      OBVIOUS
    <3>2. d # 0 => d - 1 \in 0 .. m
      OBVIOUS
    <3>3. d # 0 => h[d - 1] = g[d - 1]
      BY <3>1, <3>2
    <3> HIDE DEF h
    <3>4. row(h, d) = row(g, d)
      BY <3>3
    <3>5. h[d] = row(g, d)
      <4>1. CASE d = m + 1
        BY <4>1 DEF h
      <4>2. CASE d # m + 1
        <5>1. d \in 0 .. m
          BY <4>2
        <5>2. g[d] = row(g, d)
          <6> HIDE DEF row
          <6> QED
            BY <2>1, <5>1
        <5> QED
          BY <3>1, <5>1, <5>2
      <4> QED
        BY <4>1, <4>2
    <3> QED
      BY <3>4, <3>5
  <2> HIDE DEF upTo, h
  <2> QED
    BY <2>2
<1>3. Height(n) \in good
  <2> HIDE DEF good
  <2> QED
    BY <1>1, <1>2, NatSetInduction
<1> QED
  BY <1>3 DEF AreOrdered

LEMMA OrderOfTree ==
    ASSUME NEW n, Height(n) \in Nat
    PROVE  AreOrdered(n, LevelOrder(n))
<1>1. LevelOrder(n) = CHOOSE order : AreOrdered(n, order)
  BY Zenon DEF LevelOrder, AreOrdered
<1> QED
  BY <1>1, OrderExists

\* The number of the node at a place of a level, places counted from 0.
NodeAt(n, d, q) == LevelOrder(n)[d][q + 1]

LEMMA ChildrenAt ==
    ASSUME NEW n, BuildsTree(n), NEW d \in 0 .. Height(n) - 1, NEW q \in 0 .. 2 ^ d - 1
    PROVE  /\ NodeAt(n, d + 1, 2 * q) = NodeAt(n, d, q)
           /\ NodeAt(n, d + 1, 2 * q + 1) = NodeAt(n, d, q) + 2 ^ d
<1> DEFINE order == LevelOrder(n)
           row == [k \in 1 .. 2 ^ (d + 1) |->
                      LET parent == order[d][(k + 1) \div 2]
                      IN IF k % 2 = 1 THEN parent ELSE parent + 2 ^ d]
<1>1. Height(n) \in 1 .. 5
  BY HeightOfTree
<1>2. AreOrdered(n, order)
  BY <1>1, OrderOfTree
<1>3. d + 1 \in 0 .. Height(n) /\ d + 1 # 0 /\ (d + 1) - 1 = d
  BY <1>1
<1>4. order[d + 1] = row
  <2> HIDE DEF order
  <2> QED
    BY <1>2, <1>3 DEF AreOrdered
<1>5. 2 ^ d \in Nat /\ 2 ^ (d + 1) = 2 * 2 ^ d
  <2>1. d \in 0 .. 5 /\ d # 5
    BY <1>1
  <2> QED
    BY <2>1, Doubling
<1>6. q \in Nat /\ 2 * q + 1 \in 1 .. 2 ^ (d + 1) /\ 2 * q + 2 \in 1 .. 2 ^ (d + 1)
  BY <1>5
<1>7. /\ ((2 * q + 1) + 1) \div 2 = q + 1 /\ (2 * q + 1) % 2 = 1
      /\ ((2 * q + 2) + 1) \div 2 = q + 1 /\ (2 * q + 2) % 2 # 1
  BY <1>6
<1> HIDE DEF order
<1>8. row[2 * q + 1] = order[d][q + 1] /\ row[2 * q + 2] = order[d][q + 1] + 2 ^ d
  BY <1>6, <1>7
<1>9. (2 * q + 1) + 1 = 2 * q + 2
  BY <1>6
<1> QED
  BY <1>4, <1>8, <1>9 DEF NodeAt, order

\* The places of a level hold nodes of that level.
LEMMA NodeAtType ==
    ASSUME NEW n, BuildsTree(n), NEW d \in 0 .. Height(n), NEW q \in 0 .. 2 ^ d - 1
    PROVE  NodeAt(n, d, q) \in 0 .. 2 ^ d - 1
<1> DEFINE good == {e \in Nat : e <= Height(n) =>
                       \A p \in 0 .. 2 ^ e - 1 : NodeAt(n, e, p) \in 0 .. 2 ^ e - 1}
<1>1. Height(n) \in 1 .. 5
  BY HeightOfTree
<1>2. 0 \in good
  <2>1. LevelOrder(n)[0] = <<0>>
    <3>1. PICK order : order = LevelOrder(n)
      OBVIOUS
    <3>2. AreOrdered(n, order) /\ 0 \in 0 .. Height(n)
      BY <1>1, <3>1, OrderOfTree
    <3>3. order[0] = <<0>>
      BY <3>2, Zenon DEF AreOrdered
    <3> QED
      BY <3>1, <3>3
  <2>2. 2 ^ 0 = 1
    OBVIOUS
  <2>3. \A p \in 0 .. 2 ^ 0 - 1 : p = 0
    BY <2>2
  <2>4. NodeAt(n, 0, 0) = 0
    BY <2>1 DEF NodeAt
  <2> QED
    BY <2>2, <2>3, <2>4
<1>3. ASSUME NEW e \in Nat, e \in good PROVE e + 1 \in good
  <2> SUFFICES ASSUME e + 1 <= Height(n), NEW p \in 0 .. 2 ^ (e + 1) - 1
               PROVE  NodeAt(n, e + 1, p) \in 0 .. 2 ^ (e + 1) - 1
    OBVIOUS
  <2>1. e \in 0 .. Height(n) - 1 /\ e \in 0 .. 5 /\ e # 5 /\ e <= Height(n)
    BY <1>1
  <2>2. 2 ^ e \in Nat /\ 2 ^ (e + 1) = 2 * 2 ^ e
    BY <2>1, Doubling
  <2>3. p \in Nat /\ p <= 2 * 2 ^ e - 1
    BY <2>2
  <2>4. PICK half \in 0 .. 2 ^ e - 1 : p = 2 * half \/ p = 2 * half + 1
    <3>1. p \div 2 \in 0 .. 2 ^ e - 1 /\ (p = 2 * (p \div 2) \/ p = 2 * (p \div 2) + 1)
      BY <2>2, <2>3
    <3> QED
      BY <3>1
  <2>5. NodeAt(n, e, half) \in 0 .. 2 ^ e - 1
    BY <1>3, <2>1
  <2>6. \/ NodeAt(n, e + 1, p) = NodeAt(n, e, half)
        \/ NodeAt(n, e + 1, p) = NodeAt(n, e, half) + 2 ^ e
    BY <2>1, <2>4, ChildrenAt
  <2> QED
    BY <2>2, <2>5, <2>6
<1>4. \A e \in Nat : e \in good
  <2> HIDE DEF good
  <2> QED
    BY <1>2, <1>3, NatSetInduction
<1> QED
  BY <1>1, <1>4

(***************************************************************************)
(* From left to right, too, a node is the hash of the two below it: the    *)
(* children of the node at place q are at the places 2q and 2q + 1.        *)
(***************************************************************************)
LEMMA LevelParent ==
    ASSUME NEW values, BuildsTree(Len(values)), NEW d \in 0 .. Height(Len(values)) - 1,
           NEW q \in 0 .. 2 ^ d - 1
    PROVE  Level(values, d)[q + 1] =
               Hash(Level(values, d + 1)[2 * q + 1], Level(values, d + 1)[2 * q + 2])
<1> DEFINE n == Len(values)
           height == Height(n)
           nodes == Nodes(values)
           place == NodeAt(n, d, q)
<1>1. /\ height \in 1 .. 5
      /\ \A k \in 0 .. height - 1 :
             nodes[k + 1] = Parents(nodes[k], 2 ^ (height - (k + 1)))
  BY TreeRows
<1>2. d \in 0 .. height /\ d \in 0 .. 5 /\ d # 5
  BY <1>1
<1>3. 2 ^ d \in Nat /\ 2 ^ (d + 1) = 2 * 2 ^ d
  BY <1>2, Doubling
<1>4. place \in 0 .. 2 ^ d - 1
  BY <1>2, NodeAtType
<1>5. NodeAt(n, d + 1, 2 * q) = place /\ NodeAt(n, d + 1, 2 * q + 1) = place + 2 ^ d
  BY ChildrenAt
<1>6. /\ q + 1 \in 1 .. 2 ^ d /\ 2 * q + 1 \in 1 .. 2 ^ (d + 1) /\ 2 * q + 2 \in 1 .. 2 ^ (d + 1)
      /\ (2 * q + 1) + 1 = 2 * q + 2
  BY <1>3
<1> HIDE DEF height, nodes, place
<1>7. nodes[height - d] = Parents(nodes[height - (d + 1)], 2 ^ d)
  <2> DEFINE k == height - (d + 1)
  <2>1. k \in 0 .. height - 1 /\ k + 1 = height - d /\ height - (k + 1) = d
    BY <1>1, <1>2 DEF height
  <2> QED
    BY <1>1, <2>1
<1>8. Level(values, d)[q + 1] = nodes[height - d][place]
  BY <1>6 DEF Level, NodeAt, nodes, height, place
<1>9. /\ Level(values, d + 1)[2 * q + 1] = nodes[height - (d + 1)][place]
      /\ Level(values, d + 1)[2 * q + 2] = nodes[height - (d + 1)][place + 2 ^ d]
  BY <1>5, <1>6 DEF Level, NodeAt, nodes, height
<1>10. nodes[height - d][place] =
           Hash(nodes[height - (d + 1)][place], nodes[height - (d + 1)][place + 2 ^ d])
  BY <1>4, <1>7 DEF Parents
<1> QED
  BY <1>8, <1>9, <1>10

(***************************************************************************)
(* The index of the ancestor of a leaf, k levels up.                       *)
(***************************************************************************)
Ancestor(index, k) == index \div 2 ^ k

LEMMA AncestorHalves ==
    ASSUME NEW index \in Nat, NEW k \in 0 .. 4
    PROVE  /\ Ancestor(index, k) \in Nat
           /\ Ancestor(index, k + 1) = Ancestor(index, k) \div 2
<1>1. 2 ^ 0 = 1 /\ 2 ^ 1 = 2 /\ 2 ^ 2 = 4 /\ 2 ^ 3 = 8 /\ 2 ^ 4 = 16 /\ 2 ^ 5 = 32
  OBVIOUS
<1>2. CASE k = 0
  BY <1>1, <1>2 DEF Ancestor
<1>3. CASE k = 1
  BY <1>1, <1>3 DEF Ancestor
<1>4. CASE k = 2
  BY <1>1, <1>4 DEF Ancestor
<1>5. CASE k = 3
  BY <1>1, <1>5 DEF Ancestor
<1>6. CASE k = 4
  BY <1>1, <1>6 DEF Ancestor
<1> QED
  BY <1>2, <1>3, <1>4, <1>5, <1>6

LEMMA AncestorAtLevel ==
    ASSUME NEW height \in 1 .. 5, NEW index \in 0 .. 2 ^ height - 1, NEW k \in 0 .. height
    PROVE  /\ Ancestor(index, 0) = index
           /\ Ancestor(index, k) \in 0 .. 2 ^ (height - k) - 1
<1> DEFINE good == {j \in Nat : j <= height => Ancestor(index, j) \in 0 .. 2 ^ (height - j) - 1}
<1>1. 2 ^ height \in Nat /\ index \in Nat
  BY Doubling
<1>2. Ancestor(index, 0) = index
  BY <1>1 DEF Ancestor
<1>3. 0 \in good
  <2>1. height - 0 = height
    OBVIOUS
  <2> QED
    BY <1>2, <2>1
<1>4. ASSUME NEW j \in Nat, j \in good PROVE j + 1 \in good
  <2> SUFFICES ASSUME j + 1 <= height
               PROVE  Ancestor(index, j + 1) \in 0 .. 2 ^ (height - (j + 1)) - 1
    OBVIOUS
  <2> DEFINE d == height - (j + 1)
  <2>1. d \in 0 .. 5 /\ d # 5 /\ d + 1 = height - j /\ j \in 0 .. 4 /\ j <= height
    OBVIOUS
  <2>2. 2 ^ d \in Nat /\ 2 ^ (d + 1) = 2 * 2 ^ d
    <3> HIDE DEF d
    <3> QED
      BY <2>1, Doubling
  <2>3. Ancestor(index, j) \in 0 .. 2 ^ (d + 1) - 1
    BY <1>4, <2>1
  <2>4. Ancestor(index, j + 1) = Ancestor(index, j) \div 2
    BY <1>1, <2>1, AncestorHalves
  <2>5. Ancestor(index, j + 1) \in 0 .. 2 ^ d - 1
    <3> HIDE DEF d
    <3> QED
      BY <2>2, <2>3, <2>4
  <2> QED
    BY <2>5
<1>5. \A j \in Nat : j \in good
  <2> HIDE DEF good
  <2> QED
    BY <1>3, <1>4, NatSetInduction
<1> QED
  BY <1>2, <1>5

(***************************************************************************)
(* A proof as long as the tree is high holds, at each level, the sibling   *)
(* of the leaf's ancestor there.                                           *)
(***************************************************************************)
LEMMA ProofFollowsLevels ==
    ASSUME NEW values, BuildsTree(Len(values)), Depth(Len(values)) = Height(Len(values)),
           NEW index, NEW k \in 0 .. Height(Len(values)) - 1
    PROVE  /\ CreateProof(values, index)[k + 1] =
                 Level(values, Height(Len(values)) - k)[Sibling(Ancestor(index, k)) + 1]
           /\ Len(CreateProof(values, index)) = Height(Len(values))
<1> DEFINE height == Height(Len(values))
           node(j) == Level(values, height + 1 - j)[Sibling(index \div 2 ^ (j - 1)) + 1]
<1>1. height \in 1 .. 5
  BY HeightOfTree
<1>2. CreateProof(values, index) = [j \in 1 .. height |-> node(j)]
  BY DEF CreateProof
<1>3. k + 1 \in 1 .. height /\ height + (1 - (k + 1)) = height - k /\ (k + 1) - 1 = k
  BY <1>1
<1>4. node(k + 1) = Level(values, height - k)[Sibling(Ancestor(index, k)) + 1]
  <2>1. node(k + 1) =
            Level(values, height + (1 - (k + 1)))[Sibling(index \div 2 ^ ((k + 1) - 1)) + 1]
    OBVIOUS
  <2> HIDE DEF height, node
  <2> QED
    BY <1>3, <2>1, Zenon DEF Ancestor
<1> HIDE DEF height, node
<1>5. CreateProof(values, index)[k + 1] = node(k + 1)
  BY <1>2, <1>3
<1>6. Len([j \in 1 .. height |-> node(j)]) = height
  BY <1>1
<1> QED
  BY <1>2, <1>4, <1>5, <1>6 DEF height

(***************************************************************************)
(* With such a proof the hashes on the way up are the ancestors of the     *)
(* leaf at the index, all of them or none: all if it is the leaf hashed.   *)
(***************************************************************************)
MeetAncestors(values, leaf, index, running) ==
    LET height == Height(Len(values)) IN
    \A k \in 0 .. height :
        running[k] = Level(values, height - k)[Ancestor(index, k) + 1] <=>
            leaf = Level(values, height)[index + 1]

LEMMA HashesMeetAncestors ==
    ASSUME NEW values, BuildsTree(Len(values)), Depth(Len(values)) = Height(Len(values)),
           NEW leaf, NEW index \in 0 .. 2 ^ Height(Len(values)) - 1,
           NEW running, AreRunning(leaf, index, CreateProof(values, index), running)
    PROVE  MeetAncestors(values, leaf, index, running)
<1> DEFINE height == Height(Len(values))
           proof == CreateProof(values, index)
           meets == leaf = Level(values, height)[index + 1]
           good == {k \in Nat : k <= height =>
                       (running[k] = Level(values, height - k)[Ancestor(index, k) + 1] <=> meets)}
<1>1. height \in 1 .. 5
  BY HeightOfTree
<1>2. Len(proof) = height
  <2>1. 0 \in 0 .. height - 1
    BY <1>1
  <2> QED
    BY <2>1, ProofFollowsLevels
<1>3. /\ running[0] = leaf
      /\ \A k \in 0 .. height - 1 :
             running[k + 1] = IF Ancestor(index, k) % 2 = 0
                              THEN Hash(running[k], proof[k + 1])
                              ELSE Hash(proof[k + 1], running[k])
  <2> HIDE DEF height, proof
  <2>1. running = [k \in 0 .. height |->
                      IF k = 0 THEN leaf
                      ELSE IF (index \div 2 ^ (k - 1)) % 2 = 0
                      THEN Hash(running[k - 1], proof[k])
                      ELSE Hash(proof[k], running[k - 1])]
    BY <1>2 DEF AreRunning, proof
  <2>2. running[0] = leaf
    BY <1>1, <2>1
  <2>3. ASSUME NEW k \in 0 .. height - 1
        PROVE  running[k + 1] = IF Ancestor(index, k) % 2 = 0
                                THEN Hash(running[k], proof[k + 1])
                                ELSE Hash(proof[k + 1], running[k])
    <3>1. k + 1 \in 0 .. height /\ k + 1 # 0 /\ (k + 1) - 1 = k
      BY <1>1
    <3> QED
      BY <2>1, <3>1 DEF Ancestor
  <2> QED
    BY <2>2, <2>3
<1>4. \A k \in 0 .. height :
          Ancestor(index, 0) = index /\ Ancestor(index, k) \in 0 .. 2 ^ (height - k) - 1
  <2> SUFFICES ASSUME NEW k \in 0 .. height
               PROVE  Ancestor(index, 0) = index /\ Ancestor(index, k) \in 0 .. 2 ^ (height - k) - 1
    OBVIOUS
  <2> QED
    BY <1>1, AncestorAtLevel
<1>5. \A k \in 0 .. height - 1 :
          proof[k + 1] = Level(values, height - k)[Sibling(Ancestor(index, k)) + 1]
  BY ProofFollowsLevels
<1>6. 0 \in good
  <2>1. Ancestor(index, 0) = index /\ height - 0 = height
    BY <1>1, <1>4
  <2> HIDE DEF height
  <2> QED
    BY <1>3, <2>1
<1>7. ASSUME NEW k \in Nat, k \in good PROVE k + 1 \in good
  <2> SUFFICES ASSUME k + 1 <= height
               PROVE  running[k + 1] = Level(values, height - (k + 1))[Ancestor(index, k + 1) + 1]
                          <=> meets
    OBVIOUS
  <2> DEFINE d == height - (k + 1)
             a == Ancestor(index, k)
             q == Ancestor(index, k + 1)
  <2>1. /\ k \in 0 .. height - 1 /\ k \in 0 .. 4 /\ k \in 0 .. height /\ k + 1 \in 0 .. height
        /\ d \in 0 .. height - 1 /\ d + 1 = height - k
    BY <1>1
  <2>2. index \in Nat
    <3>1. 2 ^ height \in Nat
      BY <1>1, Doubling
    <3> QED
      BY <3>1
  <2>3. a \in Nat /\ q = a \div 2 /\ q \in 0 .. 2 ^ d - 1
    BY <1>4, <2>1, <2>2, AncestorHalves
  <2>4. Level(values, d)[q + 1] =
            Hash(Level(values, d + 1)[2 * q + 1], Level(values, d + 1)[2 * q + 2])
    <3> HIDE DEF d, q
    <3> QED
      BY <2>1, <2>3, LevelParent
  <2>5. running[k] = Level(values, d + 1)[a + 1] <=> meets
    <3>1. k <= height
      BY <2>1
    <3>2. running[k] = Level(values, height - k)[a + 1] <=> meets
      <4> HIDE DEF meets, a
      <4> QED
        BY <1>7, <3>1 DEF a
    <3> QED
      BY <2>1, <3>2
  <2>6. proof[k + 1] = Level(values, d + 1)[Sibling(a) + 1]
    BY <1>5, <2>1
  <2>7. running[k + 1] = IF a % 2 = 0 THEN Hash(running[k], proof[k + 1])
                                     ELSE Hash(proof[k + 1], running[k])
    BY <1>3, <2>1
  <2> HIDE DEF d, a, q, meets, height, proof
  <2>8. CASE a % 2 = 0
    <3>1. a + 1 = 2 * q + 1 /\ Sibling(a) + 1 = 2 * q + 2
      BY <2>3, <2>8 DEF Sibling
    <3>2. running[k + 1] = Hash(running[k], Level(values, d + 1)[2 * q + 2])
      BY <2>6, <2>7, <2>8, <3>1
    <3>3. running[k + 1] = Level(values, d)[q + 1] <=> running[k] = Level(values, d + 1)[2 * q + 1]
      BY <2>4, <3>2, HashesDiffer
    <3> QED
      BY <2>5, <3>1, <3>3 DEF d, q
  <2>9. CASE a % 2 # 0
    <3>1. a + 1 = 2 * q + 2 /\ Sibling(a) + 1 = 2 * q + 1
      BY <2>3, <2>9 DEF Sibling
    <3>2. running[k + 1] = Hash(Level(values, d + 1)[2 * q + 1], running[k])
      BY <2>6, <2>7, <2>9, <3>1
    <3>3. running[k + 1] = Level(values, d)[q + 1] <=> running[k] = Level(values, d + 1)[2 * q + 2]
      BY <2>4, <3>2, HashesDiffer
    <3> QED
      BY <2>5, <3>1, <3>3 DEF d, q
  <2> QED
    BY <2>8, <2>9
<1>8. \A k \in Nat : k \in good
  <2> HIDE DEF good
  <2> QED
    BY <1>6, <1>7, NatSetInduction
<1> QED
  BY <1>8 DEF MeetAncestors

\* What is hashed up along the proof of an index is the root exactly if it is the leaf there.
LEMMA ProofVerifiesLeafThere ==
    ASSUME NEW values, BuildsTree(Len(values)), Depth(Len(values)) = Height(Len(values)),
           NEW leaf, NEW index \in 0 .. 2 ^ Height(Len(values)) - 1
    PROVE  VerifyMerkle(leaf, index, CreateProof(values, index), RootHash(values)) <=>
               leaf = Leaves(values)[NodeAt(Len(values), Height(Len(values)), index)]
<1> DEFINE n == Len(values)
           height == Height(n)
           proof == CreateProof(values, index)
<1>1. height \in 1 .. 5 /\ Nodes(values)[0] = Leaves(values)
  BY TreeRows
<1>2. Len(proof) = height
  <2>1. 0 \in 0 .. height - 1
    BY <1>1
  <2> QED
    BY <2>1, ProofFollowsLevels
<1>3. PICK running : /\ AreRunning(leaf, index, proof, running)
                     /\ RunningHash(leaf, index, proof) = running[height]
  <2>1. Len(proof) \in Nat
    BY <1>1, <1>2
  <2> QED
    BY <1>2, <2>1, RunningHashes
<1>4. running[height] = Level(values, 0)[Ancestor(index, height) + 1] <=>
          leaf = Level(values, height)[index + 1]
  <2>1. height \in 0 .. height /\ height - height = 0
    BY <1>1
  <2>2. MeetAncestors(values, leaf, index, running)
    BY <1>3, HashesMeetAncestors
  <2> HIDE DEF height
  <2> QED
    BY <2>1, <2>2 DEF MeetAncestors, height
<1>5. Level(values, 0)[Ancestor(index, height) + 1] = RootHash(values)
  <2>1. height \in 0 .. height /\ index \in 0 .. 2 ^ height - 1
    BY <1>1
  <2>2. height - height = 0 /\ 2 ^ 0 = 1 /\ height - 0 = height
    BY <1>1
  <2> HIDE DEF height
  <2>3. Ancestor(index, height) + 1 = 1
    <3>1. Ancestor(index, height) \in 0 .. 2 ^ (height - height) - 1
      BY <1>1, <2>1, AncestorAtLevel
    <3>2. Ancestor(index, height) \in 0 .. 2 ^ 0 - 1
      BY <2>2, <3>1, Zenon
    <3> QED
      BY <2>2, <3>2
  <2>4. LevelOrder(n)[0] = <<0>>
    <3>1. 0 \in 0 .. Height(n) /\ AreOrdered(n, LevelOrder(n))
      BY <1>1, OrderOfTree DEF height
    <3> QED
      BY <3>1 DEF AreOrdered
  <2>5. Level(values, 0)[1] = Nodes(values)[height][0]
    BY <2>2, <2>4 DEF Level, height
  <2> QED
    BY <2>3, <2>5 DEF RootHash, height
<1>6. Level(values, height)[index + 1] = Leaves(values)[NodeAt(n, height, index)]
  <2>1. 2 ^ height \in Nat /\ height - height = 0
    BY <1>1, Doubling
  <2>2. index + 1 \in 1 .. 2 ^ height
    BY <2>1
  <2> HIDE DEF height
  <2> QED
    BY <1>1, <2>1, <2>2 DEF Level, NodeAt, height
<1> QED
  BY <1>3, <1>4, <1>5, <1>6 DEF VerifyMerkle

(***************************************************************************)
(* Which leaf of a snapshot is that of a voter: the one at its index.      *)
(***************************************************************************)
LEMMA OneLeafPerVoter ==
    ASSUME NEW values \in Snapshots, BuildsTree(Len(values)),
           NEW index \in 0 .. Len(values) - 1, NEW o \in 0 .. NumLeaves(Len(values)) - 1
    PROVE  Leaf(values[index + 1]) = Leaves(values)[o] <=> o = index
<1>1. /\ Len(values) \in 1 .. MaxLeaves /\ DOMAIN values = 1 .. Len(values)
      /\ \A i \in DOMAIN values : values[i] = <<values[i][1], values[i][2]>>
      /\ \A i, j \in DOMAIN values : values[i][1] = values[j][1] => i = j
  BY TreeAssumption
<1>2. Len(values) \in Nat /\ index + 1 \in DOMAIN values /\ NumLeaves(Len(values)) \in Nat
  BY <1>1, HeightOfTree DEF MaxLeaves
<1>3. Leaves(values)[o] = IF o < Len(values) THEN Leaf(values[o + 1]) ELSE Leaf(<<>>)
  BY DEF Leaves, ZeroNode
<1>4. values[index + 1] # <<>>
  <2>1. values[index + 1] = <<values[index + 1][1], values[index + 1][2]>>
    BY <1>1, <1>2
  <2>2. \A x, y : <<x, y>> # <<>>
    OBVIOUS
  <2> QED
    BY <2>1, <2>2
<1>5. CASE o < Len(values)
  <2>1. o + 1 \in DOMAIN values
    BY <1>1, <1>2, <1>5
  <2>2. values[index + 1] = values[o + 1] <=> o = index
    BY <1>1, <1>2, <2>1
  <2> QED
    BY <1>3, <1>5, <2>2, HashesDiffer
<1>6. CASE ~(o < Len(values))
  <2>1. o # index
    BY <1>2, <1>6
  <2>2. Leaf(values[index + 1]) # Leaf(<<>>)
    BY <1>4, HashesDiffer
  <2> QED
    BY <1>3, <1>6, <2>1, <2>2
<1> QED
  BY <1>5, <1>6

(***************************************************************************)
(* The claims a tree accepts, in terms of its snapshot alone.              *)
(***************************************************************************)
LEMMA AcceptedClaims ==
    ASSUME NEW values \in Snapshots, BuildsTree(Len(values)),
           NEW index \in 0 .. Len(values) - 1
    PROVE  (/\ CanProve(Len(values), index)
            /\ VerifyMerkle(Leaf(<<values[index + 1][1], values[index + 1][2]>>), index,
                            CreateProof(values, index), RootHash(values)))
           <=> (/\ Depth(Len(values)) = Height(Len(values))
                /\ LevelOrder(Len(values))[Depth(Len(values))][index + 1] = index)
<1> DEFINE n == Len(values)
           value == <<values[index + 1][1], values[index + 1][2]>>
           proof == CreateProof(values, index)
<1>1. /\ n \in 1 .. MaxLeaves /\ DOMAIN values = 1 .. n
      /\ \A i \in DOMAIN values : values[i] = <<values[i][1], values[i][2]>>
  BY TreeAssumption
<1>2. n \in Nat /\ index + 1 \in DOMAIN values
  BY <1>1 DEF MaxLeaves
<1>3. value = values[index + 1] /\ value # <<>>
  BY <1>1, <1>2
<1>4. /\ Height(n) \in 1 .. 5 /\ NumLeaves(n) = 2 ^ Height(n) /\ NumLeaves(n) \in Nat
  BY HeightOfTree
<1>5. VerifyMerkle(Leaf(value), index, proof, RootHash(values)) => Depth(n) = Height(n)
  <2>1. Len(proof) = Depth(n) /\ Len(proof) \in Nat
    BY <1>1, LengthOfProof
  <2> HIDE DEF value, proof
  <2> QED
    BY <1>2, <1>3, <2>1, VerifiedValueIsInTree
<1>6. ASSUME Depth(n) = Height(n)
      PROVE  /\ CanProve(n, index)
             /\ VerifyMerkle(Leaf(value), index, proof, RootHash(values)) <=>
                    LevelOrder(n)[Depth(n)][index + 1] = index
  <2>1. n <= NumLeaves(n)
    <3>1. NumLeaves(n) = n \/ n < NumLeaves(n)
      BY DEF NumLeaves
    <3> HIDE DEF n
    <3> QED
      BY <1>2, <1>4, <3>1
  <2>2. index \in 0 .. 2 ^ Height(n) - 1
    BY <1>2, <1>4, <2>1
  <2>3. CanProve(n, index)
    BY <1>4, <1>6, <2>2 DEF CanProve
  <2>4. VerifyMerkle(Leaf(value), index, proof, RootHash(values)) <=>
            Leaf(value) = Leaves(values)[NodeAt(n, Height(n), index)]
    <3> HIDE DEF value
    <3> QED
      BY <1>6, <2>2, ProofVerifiesLeafThere
  <2>5. PICK o : o = NodeAt(n, Height(n), index)
    OBVIOUS
  <2>6. o \in 0 .. NumLeaves(n) - 1
    <3>1. Height(n) \in 0 .. Height(n)
      BY <1>4
    <3> QED
      BY <1>4, <2>2, <2>5, <3>1, NodeAtType
  <2>7. Leaf(values[index + 1]) = Leaves(values)[o] <=> o = index
    BY <2>6, OneLeafPerVoter
  <2> HIDE DEF value, proof
  <2> QED
    BY <1>3, <1>6, <2>3, <2>4, <2>5, <2>7 DEF NodeAt
<1> QED
  BY <1>5, <1>6

(***************************************************************************)
(* Which voters can claim at all is a matter of how many voters there are  *)
(* and where each is in the snapshot: for every snapshot a tree can be     *)
(* built of, the contract accepts the client's claim for a voter exactly   *)
(* if the tree is as high as proofs are long and the voter's place among   *)
(* the leaves from left to right is its place in the snapshot.             *)
(***************************************************************************)
THEOREM ClaimsAcceptedInPlace == TreeSpec => AcceptsInPlace
<1>1. ASSUME TreeNext, snapshot # snapshot'
      PROVE  \A index \in 0 .. Len(snapshot') - 1 : (Accepted(index) <=> InPlace(index))'
  <2>1. PICK values \in Snapshots : DeployTree(values)
    BY <1>1, Zenon
    DEF TreeNext, InitElectionToken, OptInElectionToken, EndTree, MoveUnits, Claim, TreeTick
  <2>2. snapshot' = values /\ BuildsTree(Len(values))
    BY <2>1 DEF DeployTree
  <2> SUFFICES ASSUME NEW index \in 0 .. Len(values) - 1 PROVE (Accepted(index) <=> InPlace(index))'
    BY <2>2
  <2> QED
    BY <2>2, AcceptedClaims DEF Accepted, InPlace, Verifies, Share
<1>2. [TreeNext]_treeVars => [snapshot # snapshot' =>
          \A index \in 0 .. Len(snapshot') - 1 : (Accepted(index) <=> InPlace(index))']_treeVars
  BY <1>1 DEF treeVars
<1> QED
  BY <1>2, PTL DEF TreeSpec, AcceptsInPlace
=============================================================================
