---------------------------- MODULE MerkleProof -----------------------------
(***************************************************************************)
(* Merkle proofs of entries (merkletree/proof.rs, Tree::get_proof).        *)
(*                                                                         *)
(* A proof path is                                                         *)
(*   [sn, left, right, upper, root]                                        *)
(* with the twig's leaves and active bits as its left and right parts lead *)
(* to them, and one node per level of the tree above the twigs.  As in     *)
(* UpperTree a hash is the content it was computed from, so the 11 levels  *)
(* of left_of_twig are the set of leaves they hash to, and the 3 levels of *)
(* right_of_twig the active bits.                                          *)
(***************************************************************************)
EXTENDS UpperTree, Sequences

\* n ^ 1
Sibling(n) == IF n % 2 = 0 THEN n + 1 ELSE n - 1

ProofNode(self, peer, n) == [self |-> self, peer |-> peer, peerAtLeft |-> n % 2 = 1]

\* get_upper_path_and_root: a twig's sibling that is not found counts as a null
\* twig; a node above that is not found makes the code panic, and is Missing
\* here.
GetUpperPath(tw, nd, t, youngest) ==
    LET peer == GetTwigRoot(tw, nd, Sibling(t))
        bottom == ProofNode(GetTwigRoot(tw, nd, t),
                            IF peer = Missing THEN NullTwig.root ELSE peer, t)
        above(level, n) == ProofNode(GetNode(nd, <<level, n>>),
                                     GetNode(nd, <<level, Sibling(n)>>), n)
    IN  [i \in 1..MaxLevel(youngest) |->
            IF i = 1 THEN bottom ELSE above(i - 1, t \div 2 ^ (i - 1))]

\* get_right_path: the part of the active bits with the entry's own bit is
\* taken from the bits, the hashes beside it from the twig.
GetRightPath(twig, bits, sn) ==
    [twig.bits EXCEPT ![GroupOf(sn)] = BitsOf(bits)[GroupOf(sn)]]

\* hash2x
Hash2x(node) ==
    IF node.peerAtLeft THEN NodeHash(node.peer, node.self) ELSE NodeHash(node.self, node.peer)

\* ProofPath::check(false): every hash of the path is the one computed from the
\* level below it.
Check(path) ==
    LET len == Len(path.upper)
    IN  /\ path.upper[1].self = TwigHash(path.left, path.right)
        /\ \A i \in 1..(len - 1) : Hash2x(path.upper[i]) = path.upper[i + 1].self
        /\ Hash2x(path.upper[len]) = path.root

\* to_bytes: above the twig only the peers are written.
ToBytes(path) ==
    [sn |-> path.sn, left |-> path.left, right |-> path.right, root |-> path.root,
     peers |-> [i \in 1..Len(path.upper) |-> path.upper[i].peer]]

\* Mutant: the side of a peer is read from the bit above.
BytesToProofPathHigh(bz) ==
    [sn |-> bz.sn, left |-> bz.left, right |-> bz.right, root |-> bz.root,
     upper |-> [i \in 1..Len(bz.peers) |->
                    ProofNode(Missing, bz.peers[i], TwigOf(bz.sn) \div 2 ^ i)]]

\* bytes_to_proof_path: the side of each peer comes from the serial number.
BytesToProofPath(bz) ==
    [sn |-> bz.sn, left |-> bz.left, right |-> bz.right, root |-> bz.root,
     upper |-> [i \in 1..Len(bz.peers) |->
                    ProofNode(Missing, bz.peers[i], TwigOf(bz.sn) \div 2 ^ (i - 1))]]

\* ProofPath::check(true): the hashes are filled in from the bottom up, and
\* only the last one is compared.
CheckComplete(path) ==
    LET self[i \in 1..(Len(path.upper) + 1)] ==
            IF i = 1 THEN TwigHash(path.left, path.right)
            ELSE Hash2x([path.upper[i - 1] EXCEPT !.self = self[i - 1]])
    IN  self[Len(path.upper) + 1] = path.root

\* check_proof
CheckProof(path) == Check(path) /\ CheckComplete(BytesToProofPath(ToBytes(path)))
=============================================================================
