----------------------------- MODULE UpperTree ------------------------------
(***************************************************************************)
(* The Merkle tree above the twigs (merkletree/tree.rs, UpperTree), as     *)
(* operators on                                                            *)
(*   tw : twig id -> twig held in DRAM (active_twig_shards)                *)
(*   nd : <<level, nth>> -> hash of a node (nodes)                         *)
(* Level 0 is TWIG_ROOT_LEVEL, level 1 FIRST_LEVEL_ABOVE_TWIG.  A hash is  *)
(* the term it was computed from, so two hashes are equal exactly when     *)
(* they were computed from the same content.                               *)
(***************************************************************************)
EXTENDS Integers

CONSTANTS
    LeafCount,      \* entries per twig, LEAF_COUNT_IN_TWIG
    Groups,         \* parts of a twig's active bits that are synced on their own
    MaxTwigs        \* bound on twig ids

ASSUME TreeAssumption ==
    /\ LeafCount \in Nat \ {0} /\ Groups \in Nat \ {0} /\ MaxTwigs \in Nat \ {0}
    /\ LeafCount % Groups = 0

TwigOf(sn) == sn \div LeafCount
SnsOf(t) == (t * LeafCount)..(t * LeafCount + LeafCount - 1)
GroupOf(sn) == (sn % LeafCount) \div (LeafCount \div Groups)
NoBits == [g \in 0..(Groups - 1) |-> {}]
BitsOf(active) == [g \in 0..(Groups - 1) |-> {sn \in active : GroupOf(sn) = g}]

Missing == <<"missing">>
TwigHash(left, bits) == <<"twig", left, bits>>
NodeHash(l, r) == <<"node", l, r>>
NullTwig == [left |-> {}, bits |-> NoBits, root |-> TwigHash({}, NoBits)]
NullNode[k \in 0..MaxTwigs] ==
    IF k = 0 THEN NullTwig.root ELSE NodeHash(NullNode[k - 1], NullNode[k - 1])

Overlay(f, g) == [x \in DOMAIN f \cup DOMAIN g |-> IF x \in DOMAIN g THEN g[x] ELSE f[x]]
Without(f, S) == [x \in DOMAIN f \ S |-> f[x]]
Even(n) == n - (n % 2)

\* calc_max_level and max_n_at_level
MaxLevel(youngest) == 1 + CHOOSE k \in 0..youngest : 2 ^ k <= youngest /\ youngest < 2 ^ (k + 1)
MaxN(youngest, level) == youngest \div 2 ^ level

GetNode(nd, p) == IF p \in DOMAIN nd THEN nd[p] ELSE Missing
GetTwigRoot(tw, nd, n) == IF n \in DOMAIN tw THEN tw[n].root ELSE GetNode(nd, <<0, n>>)

\* do_sync_job for node i of a level: a left twig that cannot be found and any
\* upper child that cannot be found make the code panic; here the parent then
\* has a Missing child.
SyncNode(tw, nd, level, i) ==
    IF level = 1
      THEN LET right == GetTwigRoot(tw, nd, 2 * i + 1)
           IN  NodeHash(GetTwigRoot(tw, nd, 2 * i),
                        IF right = Missing THEN NullTwig.root ELSE right)
      ELSE NodeHash(GetNode(nd, <<level - 1, 2 * i>>), GetNode(nd, <<level - 1, 2 * i + 1>>))

\* sync_nodes_by_level: the last node of the level and the one after it become
\* null nodes, then the nodes of the list are recomputed from their children.
SyncNodesByLevel(tw, nd, level, list, youngest) ==
    LET maxN == MaxN(youngest, level)
        nulls == [p \in {<<level, maxN>>, <<level, maxN + 1>>} |-> NullNode[level]]
    IN  Overlay(Overlay(nd, nulls), [p \in {<<level, i>> : i \in list} |->
                                        SyncNode(tw, nd, level, p[2])])

\* sync_upper_nodes, for the twigs whose roots changed.
SyncUpperNodes(tw, nd, touched, youngest) ==
    LET upTo[k \in 0..MaxTwigs] ==
            IF k = 0 THEN nd
            ELSE SyncNodesByLevel(tw, upTo[k - 1], k, {t \div 2 ^ k : t \in touched}, youngest)
    IN  IF touched = {} THEN nd ELSE upTo[MaxLevel(youngest)]

Root(nd, youngest) == GetNode(nd, <<MaxLevel(youngest), 0>>)

\* Mutant: a right node may be the first one kept.
EdgePosOdd(end, level) == end \div 2 ^ level

\* The node of a level that is an edge node when the twigs before end are
\* pruned: end itself among the twigs, above them the left one of a pair.
EdgePos(end, level) == IF level = 0 THEN end ELSE Even(end \div 2 ^ level)

\* remove_useless_nodes
RemoveUselessNodes(nd, start, end, maxLevel) ==
    LET first(level) == IF start \div 2 ^ level = 0 THEN 0 ELSE start \div 2 ^ level - 1
    IN  Without(nd, {p \in DOMAIN nd : /\ p[1] <= maxLevel
                                       /\ first(p[1]) <= p[2]
                                       /\ p[2] < EdgePos(end, p[1])})

\* get_edge_nodes
GetEdgeNodes(nd, end, maxLevel) ==
    LET edges == {<<level, EdgePos(end, level)>> : level \in 0..maxLevel}
    IN  [p \in edges |-> GetNode(nd, p)]

\* No hash was computed or saved from a node that was not there.
NothingMissing(nd) ==
    \A p \in DOMAIN nd : nd[p] # Missing /\ (nd[p][1] = "node" => Missing \notin {nd[p][2], nd[p][3]})

-----------------------------------------------------------------------------
\* Reference: the root of the balanced tree over all entries ever appended,
\* with nothing cached, evicted or pruned.
ReferenceRoot(nextSN, active) ==
    LET youngest == TwigOf(nextSN)
        twigRoot(t) == TwigHash({sn \in SnsOf(t) : sn < nextSN}, BitsOf(SnsOf(t) \cap active))
        node[k \in 0..MaxTwigs, n \in 0..(2 * MaxTwigs)] ==
            IF k = 0 THEN twigRoot(n) ELSE NodeHash(node[k - 1, 2 * n], node[k - 1, 2 * n + 1])
    IN  node[MaxLevel(youngest), 0]
=============================================================================
