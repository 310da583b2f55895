------------------------------ MODULE Witness ------------------------------
(***************************************************************************)
(* The witness that a stateless validator gets for one shard: the nodes    *)
(* of the Merkle tree that get_witness_from_tree (seqads/proof.rs) selects *)
(* for a set of serial numbers, their encoding, and verify_witness, which  *)
(* recomputes the roots before and after the change (stateless/).          *)
(*                                                                         *)
(* Nodes are at (level, nth) as in the code: the entries of a twig are the *)
(* left half of its subtree at level 0, its active bits the right half, in *)
(* groups of 2^GroupBits bits at level GroupBits (8 in the code).  A hash  *)
(* is what it hashes: the level, and the entries and set bits below it.    *)
(* A tree is a record: leaves (the log), active (the set bits), youngest.  *)
(***************************************************************************)
EXTENDS Integers, Sequences, FiniteSetsExt, SequencesExt

CONSTANTS LeafBits, GroupBits   \* TWIG_SHIFT (11) and 8

Zeros == [sn |-> -1]      \* no entry hashes to 32 zero bytes

Groups == 2^(LeafBits - GroupBits)          \* active-bit groups of a twig

SnToLevel0Nth(sn) == (sn \div 2^LeafBits) * 2^(LeafBits + 1) + (sn % 2^LeafBits)

SnToLevel8Nth(sn) ==
  LET nth == SnToLevel0Nth(sn)
  IN 2 * Groups * (nth \div 2^(LeafBits + 1)) + Groups
       + ((nth \div 2^GroupBits) % Groups)

\* FIRST_LEVEL_ABOVE_TWIG + 63 - leading_zeros, which is the level of a twig's
\* root for twig 0.
CalcMaxLevel(twig) == LeafBits + 1 + Min({b \in 0 .. twig : twig < 2^b})

\* get_hash_by_node, for a tree that is synced.  The left tree of a twig that
\* is not the youngest comes from the twig file; behind its end the buffer stays zero.
HashOf(t, level, nth) ==
  LET width == 2^(LeafBits + 1 - level)
  IN IF level <= LeafBits /\ nth % width < width \div 2 /\ nth \div width > t.youngest
     THEN [level |-> level, leaves |-> {Zeros}, bits |-> {}]
     ELSE [level |-> level,
           leaves |-> {t.leaves[n] : n \in {n \in DOMAIN t.leaves :
                                              SnToLevel0Nth(n) \div 2^level = nth}},
           bits |-> IF level < GroupBits THEN {}
                    ELSE {n \in t.active :
                            SnToLevel8Nth(n) \div 2^(level - GroupBits) = nth}]

NullHash(level) == [level |-> level, leaves |-> {}, bits |-> {}]

LeafHash(e) == [level |-> 0, leaves |-> {e}, bits |-> {}]

NodeHash(left, right) ==
  [level |-> left.level + 1, leaves |-> left.leaves \cup right.leaves,
   bits |-> left.bits \cup right.bits]

-----------------------------------------------------------------------------
(* get_witness_from_tree.                                                  *)

Sibling(nth) == IF nth % 2 = 0 THEN nth + 1 ELSE nth - 1

\* _get_pos_list
PathOf(level, nth, maxLevel) ==
  {<<level, nth>>} \cup
    {<<l, Sibling(nth \div 2^(l - level))>> : l \in level .. maxLevel - 1}

LeafPath(sn, maxLevel) == PathOf(0, SnToLevel0Nth(sn), maxLevel)
BitsPath(sn, maxLevel) == PathOf(GroupBits, SnToLevel8Nth(sn), maxLevel)

Ancestors(sn, maxLevel) ==
  {<<l, SnToLevel0Nth(sn) \div 2^l>> : l \in 1 .. maxLevel} \cup
    {<<l, SnToLevel8Nth(sn) \div 2^(l - GroupBits)>> : l \in GroupBits + 1 .. maxLevel}

\* The ancestors of the touched leaves are taken out again; those of the
\* entries that compaction only scanned are not.
PosSet(touched, onlyBits, maxLevel) ==
  (UNION {LeafPath(sn, maxLevel) \cup BitsPath(sn, maxLevel) : sn \in touched} \cup
     UNION {BitsPath(sn, maxLevel) : sn \in onlyBits})
  \ UNION {Ancestors(sn, maxLevel) : sn \in touched}

\* _sort_pos_list: by the first leaf below the node.
RECURSIVE SortPosList(_)
SortPosList(S) ==
  IF S = {} THEN << >>
  ELSE LET first == CHOOSE p \in S : \A q \in S :
                      \/ p[2] * 2^p[1] < q[2] * 2^q[1]
                      \/ p[2] * 2^p[1] = q[2] * 2^q[1] /\ p[1] <= q[1]
       IN <<first>> \o SortPosList(S \ {first})

\* `touched' is a sequence: its last element decides the level of the root.
GetWitnessFromTree(t, touched, onlyBits) ==
  LET maxLevel == CalcMaxLevel(IF touched = << >> THEN t.youngest
                               ELSE Last(touched) \div 2^LeafBits)
      pos == IF touched = << >> THEN <<<<maxLevel, 0>>>>
             ELSE SortPosList(PosSet(ToSet(touched), onlyBits, maxLevel))
  IN [i \in 1 .. Len(pos) |->
        [level |-> pos[i][1], nth |-> pos[i][2],
         old |-> HashOf(t, pos[i][1], pos[i][2])]]

-----------------------------------------------------------------------------
(* Encoding.  `entries' is the shard's list in the EntryVec.               *)

Kind(node, entries) ==
  IF node.old = NullHash(node.level) THEN "null"
  ELSE IF node.level = 0 /\ \E e \in ToSet(entries) : SnToLevel0Nth(e.sn) = node.nth
  THEN "calculated"
  ELSE IF node.level = GroupBits THEN "bits" ELSE "merkle"

\* encode_witness: witness_bz and merkle_nodes.  A later entry with the same
\* serial number hides an earlier one.
EncodeWitness(nodes, entries) ==
  LET kind == [i \in 1 .. Len(nodes) |-> Kind(nodes[i], entries)]
  IN [bz |-> [i \in 1 .. Len(nodes) |->
                [level |-> nodes[i].level, nth |-> nodes[i].nth, kind |-> kind[i],
                 idx |-> IF kind[i] # "calculated" THEN 0
                         ELSE Max({j \in 1 .. Len(entries) :
                                     SnToLevel0Nth(entries[j].sn) = nodes[i].nth}),
                 hash |-> IF kind[i] = "bits" THEN nodes[i].old ELSE NullHash(0)]],
      merkle |-> LET only == SelectSeq(nodes, LAMBDA n : Kind(n, entries) = "merkle")
                 IN [i \in 1 .. Len(only) |-> only[i].old]]

\* try_from_witness_bz; the places of the merkle nodes are filled in the same
\* order by verify_witness.  Each node starts with the same old and new hash.
DecodeWitness(enc, entries) ==
  [i \in 1 .. Len(enc.bz) |->
     LET item == enc.bz[i]
         hash == CASE item.kind = "null" -> NullHash(item.level)
                   [] item.kind = "bits" -> item.hash
                   [] item.kind = "calculated" -> LeafHash(entries[item.idx])
                   [] item.kind = "merkle" ->
                        enc.merkle[Cardinality({j \in 1 .. i : enc.bz[j].kind = "merkle"})]
     IN [level |-> item.level, nth |-> item.nth, old |-> hash, new |-> hash]]

-----------------------------------------------------------------------------
(* Witness.                                                                *)

\* level0map and level8map
IndexOf(nodes, level, nth) ==
  {i \in 1 .. Len(nodes) : nodes[i].level = level /\ nodes[i].nth = nth}

GroupIndex(nodes, sn) == IndexOf(nodes, GroupBits, SnToLevel8Nth(sn))

\* verify_entries: every entry handed over was active.
VerifyEntries(nodes, entries) ==
  \A e \in ToSet(entries) : \E i \in GroupIndex(nodes, e.sn) : e.sn \in nodes[i].old.bits

SetBit(nodes, sn, on) ==
  [i \in 1 .. Len(nodes) |->
     IF i \in GroupIndex(nodes, sn)
     THEN [nodes[i] EXCEPT !.new.bits = IF on THEN @ \cup {sn} ELSE @ \ {sn}]
     ELSE nodes[i]]


\* add_entry fails if the leaf or a group of active bits is not in the witness.
AddEntry(nodes, e) ==
  LET leaf == IndexOf(nodes, 0, SnToLevel0Nth(e.sn))
      set == [i \in 1 .. Len(nodes) |->
                IF i \in leaf THEN [nodes[i] EXCEPT !.new = LeafHash(e)] ELSE nodes[i]]
  IN IF leaf = {} \/ GroupIndex(nodes, e.sn) = {} THEN [nodes |-> set, ok |-> FALSE]
     ELSE [nodes |-> FoldSet(LAMBDA d, ns : SetBit(ns, d, FALSE),
                             SetBit(set, e.sn, TRUE), e.dsn),
           ok |-> \A d \in e.dsn : GroupIndex(nodes, d) # {}]

\* find_next_active_sn, -1 when a group on the way is not in the witness.
RECURSIVE FindNextActiveSn(_, _)
FindNextActiveSn(nodes, sn) ==
  IF GroupIndex(nodes, sn) = {} THEN -1
  ELSE LET found == {n \in UNION {nodes[i].new.bits : i \in GroupIndex(nodes, sn)} : n >= sn}
       IN IF found # {} THEN Min(found)
          ELSE FindNextActiveSn(nodes, (sn \div 2^GroupBits + 1) * 2^GroupBits)

\* The loop of verify_witness: nodes are pushed one by one, and the two at the
\* top of the stack are combined while they are siblings.
RECURSIVE Reduce(_, _)
Reduce(stack, nodes) ==
  LET n == Len(stack) IN
  IF n >= 2 /\ stack[n].level = stack[n - 1].level /\ stack[n].nth = Sibling(stack[n - 1].nth)
  THEN LET left == stack[n - 1] right == stack[n]
       IN Reduce(Append(SubSeq(stack, 1, n - 2),
                        [level |-> left.level + 1, nth |-> left.nth \div 2,
                         old |-> NodeHash(left.old, right.old),
                         new |-> NodeHash(left.new, right.new)]), nodes)
  ELSE IF nodes = << >> THEN stack
  ELSE Reduce(Append(stack, Head(nodes)), Tail(nodes))

VerifyWitness(nodes, oldRoot, newRoot) ==
  LET stack == Reduce(<< >>, nodes)
  IN Len(stack) = 1 /\ stack[1].old = oldRoot /\ stack[1].new = newRoot
=============================================================================
