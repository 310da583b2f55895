----------------------------- MODULE InMemUnit -----------------------------
(***************************************************************************)
(* A unit of the in-memory indexer (qmdb/src/indexer/inmem.rs): the pairs  *)
(* (key, file position) of 1/65536 of the keys, in sorted leaves that a    *)
(* B-tree finds by their lowest possible key.  Leaves are allocated in     *)
(* large buffers; a full leaf is split, an empty one forgotten, and a      *)
(* background thread rewrites the unit when enough of it has changed.      *)
(*                                                                         *)
(* Every method runs under the unit's RwLock, so a method is one step; the *)
(* compacting thread releases the lock between its test and its work.      *)
(* Units share nothing, so one is modelled.  Updater.tla uses the indexer  *)
(* as a set of pairs; LookupsExact says that this is what a unit is.       *)
(*                                                                         *)
(* A key is the k56, a number; Hi and Lo are its upper and lower parts.    *)
(* The bytes of a leaf are its capacity and its pairs; a leaf no position  *)
(* leads to is dropped from the state.  Sizes are in bytes.  The limits of *)
(* 65535 pairs in a leaf and 4 GiB in a buffer are not reached.            *)
(***************************************************************************)
EXTENDS Integers, Sequences, SequencesExt, FiniteSetsExt, Functions, TLC

CONSTANTS
    Keys,             \* the k56 that are used
    HiSpan,           \* number of keys with the same upper part
    Positions,        \* file positions, multiples of 8
    LEAF_INIT_CAP,
    DEFAULT_LEAF_LEN,
    EXTRA_KV_PAIRS,
    ExtraDiv,         \* 8 in extra_bytes
    MarginDiv,        \* 4 in the margin of a split leaf
    BUF_SIZE,
    COMPACT_RATIO,
    COMPACT_THRES,
    MaxChanges        \* bound: no call when change_count has reached this

ASSUME InMemAssumption ==
    /\ Keys \subseteq Nat
    /\ \A p \in Positions : p \in Nat /\ p % 8 = 0
    /\ {HiSpan, LEAF_INIT_CAP, DEFAULT_LEAF_LEN, ExtraDiv, MarginDiv} \subseteq Nat \ {0}
    /\ BUF_SIZE >= LEAF_INIT_CAP * 12 + 4

VARIABLES
    unit,       \* the Unit, see NewUnit
    size,       \* its share of the shard's counter in `sizes'
    compactor,  \* the compacting thread: "idle", or "chosen" once it found the unit compactible
    panicked,   \* a call has panicked
    pairs       \* history: the pairs the calls have left, as a set

vars == <<unit, size, compactor, panicked, pairs>>

None == -1
KV_SIZE == 12
HEADER == 4

\* split_hi_lo
Hi(k) == k - (k % HiSpan)
Lo(k) == k % HiSpan

(* ------------------------------ leaves --------------------------------- *)

IsFull(leaf) == Len(leaf.kvs) = leaf.cap

\* The first pair whose key is no less than k; 0 if there is none.
Seek(leaf, k) == SelectInSeq(leaf.kvs, LAMBDA kv : kv[1] >= k)

\* find_kv gives up at the first greater key.
FindKv(leaf, k, v) ==
    LET i == SelectInSeq(leaf.kvs, LAMBDA kv : kv = <<k, v>> \/ kv[1] > k)
    IN  IF i # 0 /\ leaf.kvs[i] = <<k, v>> THEN i ELSE 0

LeafBytes(cap) == cap * KV_SIZE + HEADER

\* The position of a new leaf, and the buffers after it.  A buffer is its length.
Allocate(buf, cap) ==
    LET fits == buf.offset + LeafBytes(cap) <= Last(buf.list)
        b == IF fits THEN buf
             ELSE [list |-> Append(buf.list, Max({BUF_SIZE, LeafBytes(cap)})), offset |-> 0]
    IN  [pos |-> <<Len(b.list), b.offset>>,
         buf |-> [b EXCEPT !.offset = @ + LeafBytes(cap)]]

(* ------------------------------- a unit -------------------------------- *)

NewUnit ==
    [bt |-> << >>,            \* leaf key -> position
     leaves |-> << >>,        \* position -> leaf
     buf |-> [list |-> <<BUF_SIZE>>, offset |-> 0],
     last_size |-> 0,
     change_count |-> 0]

\* The key of the leaf that k would be in: the last one in [Hi(k), k].
LeafKey(u, k) == Max({None} \cup {x \in DOMAIN u.bt : Hi(k) <= x /\ x <= k})

LeafAt(u, key) == u.leaves[u.bt[key]]

\* Enter a new leaf in the tree, under a key that may have had another.
Link(u, key, a, leaf) ==
    LET bt == (key :> a.pos) @@ u.bt
    IN  [u EXCEPT !.bt = bt,
                  !.leaves = Restrict((a.pos :> leaf) @@ u.leaves, Range(bt)),
                  !.buf = a.buf]

CreateLeaf(u, key, k, v) ==
    LET leaf == [cap |-> LEAF_INIT_CAP, kvs |-> << <<k, v>> >>]
    IN  [Link(u, key, Allocate(u.buf, LEAF_INIT_CAP), leaf)
            EXCEPT !.change_count = @ + LEAF_INIT_CAP]

\* Mutant: the new leaf is always linked next to the old one.
SplitLeafNext(u, key, idx, k56, v) ==
    LET old == LeafAt(u, key)
        tail == SubSeq(old.kvs, idx, Len(old.kvs))
        cap == 1 + Len(tail) + Min({Len(tail) \div MarginDiv, 2})
        leaf == [cap |-> cap, kvs |-> << <<Lo(k56), v>> >> \o tail]
        cut == [u EXCEPT !.leaves[u.bt[key]].kvs = SubSeq(@, 1, idx - 1)]
    IN  [Link(cut, k56, Allocate(u.buf, cap), leaf) EXCEPT !.change_count = @ + cap]

\* A full leaf gives its pairs from idx on to a new leaf that begins with the
\* new pair; the new leaf takes the old one's place when nothing stays there.
SplitLeaf(u, key, idx, k56, v) ==
    LET old == LeafAt(u, key)
        tail == SubSeq(old.kvs, idx, Len(old.kvs))
        cap == 1 + Len(tail) + Min({Len(tail) \div MarginDiv, 2})
        leaf == [cap |-> cap, kvs |-> << <<Lo(k56), v>> >> \o tail]
        cut == [u EXCEPT !.leaves[u.bt[key]].kvs = SubSeq(@, 1, idx - 1)]
        a == Allocate(u.buf, cap)
    IN  IF idx = 1
        THEN [Link(cut, key, a, leaf) EXCEPT !.change_count = @ + cap - Len(tail)]
        ELSE [Link(cut, k56, a, leaf) EXCEPT !.change_count = @ + cap]

AddKv(u, k56, v) ==
    LET key == LeafKey(u, k56)
        k == Lo(k56)
    IN  IF key = None THEN CreateLeaf(u, Hi(k56), k, v)
        ELSE LET full == IsFull(LeafAt(u, key))
                 idx == Seek(LeafAt(u, key), k)
             IN  CASE full /\ idx # 0 -> SplitLeaf(u, key, idx, k56, v)
                   [] full /\ idx = 0 -> CreateLeaf(u, k56, k, v)
                   [] ~full /\ idx # 0 ->
                        [u EXCEPT !.leaves[u.bt[key]].kvs = InsertAt(@, idx, <<k, v>>)]
                   [] ~full /\ idx = 0 ->
                        [u EXCEPT !.leaves[u.bt[key]].kvs = Append(@, <<k, v>>),
                                  !.change_count = @ + 1]

\* erase_kv and change_kv panic when this is 0.
IndexOf(u, k56, v) ==
    LET key == LeafKey(u, k56)
    IN  IF key = None THEN 0 ELSE FindKv(LeafAt(u, key), Lo(k56), v)

EraseKv(u, k56, v) ==
    LET key == LeafKey(u, k56)
        w == [u EXCEPT !.leaves[u.bt[key]].kvs = RemoveAt(@, IndexOf(u, k56, v)),
                       !.change_count = @ + 1]
        bt == Restrict(w.bt, DOMAIN w.bt \ {key})
    IN  IF LeafAt(w, key).kvs = << >>
        THEN [w EXCEPT !.bt = bt, !.leaves = Restrict(@, Range(bt))]
        ELSE w

ChangeKv(u, k56, old, new) ==
    [u EXCEPT !.leaves[u.bt[LeafKey(u, k56)]].kvs[IndexOf(u, k56, old)][2] = new,
              !.change_count = @ + 1]

(* ------------------------------ compaction ----------------------------- *)

IsCompactible(u) == u.change_count * COMPACT_RATIO > Max({u.last_size, COMPACT_THRES})

\* A UnitBuilder: finished leaves and buffers, and the leaf being filled,
\* which begins at `start' in a buffer that is `cur' bytes long.
NewBuilder ==
    [bt |-> << >>, leaves |-> << >>, list |-> << >>, cur |-> HEADER, start |-> 0,
     kvs |-> << >>, key |-> None, hi |-> None, last |-> None, size |-> 0]

ExtraBytes(b) == Min({Len(b.kvs) \div ExtraDiv, EXTRA_KV_PAIRS}) * KV_SIZE

Flush(b) ==
    LET len == b.cur + ExtraBytes(b)
        pos == <<Len(b.list) + 1, b.start>>
        leaf == [cap |-> (len - b.start - HEADER) \div KV_SIZE, kvs |-> b.kvs]
        c == [b EXCEPT !.bt = (b.key :> pos) @@ @, !.leaves = (pos :> leaf) @@ @,
                       !.kvs = << >>, !.last = None]
    IN  CASE b.kvs = << >> -> b
          [] b.kvs # << >> /\ len + KV_SIZE > BUF_SIZE ->
               [c EXCEPT !.list = Append(@, len), !.cur = HEADER, !.start = 0]
          [] OTHER -> [c EXCEPT !.start = len, !.cur = len + HEADER]

\* A leaf ends with its upper part, or when it is large enough, but never
\* between two pairs of a key.
AppendKv(b, k56, v) ==
    LET c == IF Hi(k56) # b.hi
             THEN [Flush(b) EXCEPT !.key = Hi(k56), !.hi = Hi(k56)] ELSE b
        ready == \/ Len(c.kvs) >= DEFAULT_LEAF_LEN
                 \/ c.cur + ExtraBytes(c) + KV_SIZE >= BUF_SIZE
        d == IF ready /\ c.last # k56 THEN [Flush(c) EXCEPT !.key = k56] ELSE c
    IN  [d EXCEPT !.kvs = Append(@, <<Lo(k56), v>>), !.cur = @ + KV_SIZE,
                  !.size = @ + 1, !.last = k56]

CompactUnit(u) ==
    LET OfLeaf(b, key) ==
            FoldLeft(LAMBDA c, kv : AppendKv(c, Hi(key) + kv[1], kv[2]), b, LeafAt(u, key).kvs)
        b == Flush(FoldLeft(OfLeaf, NewBuilder, SetToSortSeq(DOMAIN u.bt, <)))
    IN  [bt |-> b.bt, leaves |-> b.leaves,
         buf |-> [list |-> Append(b.list, b.cur), offset |-> b.cur],
         last_size |-> b.size, change_count |-> 0]

(* ------------------------------- lookups ------------------------------- *)

\* The positions for_each_value visits when the caller does not stop it.
ForEachValue(u, k56) ==
    LET key == LeafKey(u, k56)
    IN  IF key = None THEN {}
        ELSE {kv[2] * 8 : kv \in {x \in Range(LeafAt(u, key).kvs) : x[1] = Lo(k56)}}

\* for_each_adjacent_value: the pairs of the key and those of the key before
\* it, which is the last one of the leaf before if the key's comes first.
ForEachAdjacentValue(u, k56) ==
    LET key == LeafKey(u, k56)
        same == {<<k56, v>> : v \in ForEachValue(u, k56)}
        at == IF key = None THEN 1
              ELSE LET i == Seek(LeafAt(u, key), Lo(k56))
                   IN  IF i = 0 THEN Len(LeafAt(u, key).kvs) + 1 ELSE i
        cur == IF key = None THEN k56 ELSE key
        before == Max({None} \cup {x \in DOMAIN u.bt : x < cur})
        target == IF at > 1 THEN key ELSE before
        end == IF at > 1 THEN at - 1 ELSE Len(LeafAt(u, before).kvs)
        kvs == LeafAt(u, target).kvs
    IN  IF at = 1 /\ (cur = 0 \/ before = None) THEN same
        ELSE IF end = 0 THEN {<<None, None>>}  \* idx - 1 underflows
        ELSE same \cup {<<Hi(target) + kvs[i][1], kvs[i][2] * 8>> :
                          i \in {j \in 1..end : kvs[j][1] = kvs[end][1]}}

(* ------------------------------- actions ------------------------------- *)

Init ==
    /\ unit = NewUnit
    /\ size = 0
    /\ compactor = "idle"
    /\ panicked = FALSE
    /\ pairs = {}

CanCall == ~panicked /\ unit.change_count < MaxChanges

\* A position is new when its entry is appended, so no two pairs have the same.
\* Positions are only compared for equality: the least unused one stands for all.
Unused == Positions \ {kp[2] : kp \in pairs}

Fresh == Min(Unused)

AddKvAction(k) ==
    /\ CanCall
    /\ Unused # {}
    /\ unit' = AddKv(unit, k, Fresh \div 8)
    /\ size' = size + 1
    /\ pairs' = pairs \cup {<<k, Fresh>>}
    /\ UNCHANGED <<compactor, panicked>>

EraseKvAction(k, p) ==
    /\ CanCall
    /\ <<k, p>> \in pairs
    /\ panicked' = (IndexOf(unit, k, p \div 8) = 0)
    /\ unit' = IF panicked' THEN unit ELSE EraseKv(unit, k, p \div 8)
    /\ size' = IF panicked' THEN size ELSE size - 1
    /\ pairs' = pairs \ {<<k, p>>}
    /\ UNCHANGED compactor

ChangeKvAction(k, old) ==
    /\ CanCall
    /\ <<k, old>> \in pairs
    /\ Unused # {}
    /\ panicked' = (IndexOf(unit, k, old \div 8) = 0)
    /\ unit' = IF panicked' THEN unit ELSE ChangeKv(unit, k, old \div 8, Fresh \div 8)
    /\ pairs' = (pairs \ {<<k, old>>}) \cup {<<k, Fresh>>}
    /\ UNCHANGED <<size, compactor>>

\* The compacting thread tests the unit under the read lock ...
ChooseUnit ==
    /\ compactor = "idle"
    /\ IsCompactible(unit)
    /\ compactor' = "chosen"
    /\ UNCHANGED <<unit, size, panicked, pairs>>

\* ... and rewrites it under the write lock, whatever happened in between.
Compact ==
    /\ compactor = "chosen"
    /\ compactor' = "idle"
    /\ unit' = CompactUnit(unit)
    /\ UNCHANGED <<size, panicked, pairs>>

Next ==
    \/ \E k \in Keys : AddKvAction(k)
    \/ \E k \in Keys, p \in Positions : EraseKvAction(k, p) \/ ChangeKvAction(k, p)
    \/ ChooseUnit
    \/ Compact

Spec == Init /\ [][Next]_vars

(* ------------------------------ properties ----------------------------- *)

\* The pairs of the greatest key below k.
Predecessors(k) ==
    LET below == {kp \in pairs : kp[1] < k}
    IN  {kp \in below : \A other \in below : other[1] <= kp[1]}

\* The bytes of a leaf are its own: leaves of the tree do not overlap, lie
\* inside their buffer and hold no more pairs than they have room for, also
\* where a leaf is allocated behind those that compaction laid out.
LeavesDisjoint ==
    \A x \in DOMAIN unit.bt :
        LET pos == unit.bt[x]
            leaf == LeafAt(unit, x)
        IN  /\ Len(leaf.kvs) \in 1..leaf.cap
            /\ pos[2] + LeafBytes(leaf.cap) <= unit.buf.list[pos[1]]
            /\ \A y \in DOMAIN unit.bt \ {x} :
                 LET other == unit.bt[y]
                 IN  (pos[1] = other[1] /\ pos[2] <= other[2])
                        => pos[2] + LeafBytes(leaf.cap) <= other[2]

\* However pairs were added, erased and changed, and leaves split, dropped and
\* rewritten, no call panics, for_each_value visits exactly the positions of a
\* key, for_each_adjacent_value exactly the pairs of the key and of the key
\* before it, in this or in an earlier leaf, len() counts the pairs, and the
\* leaves keep to their own bytes.
LookupsExact ==
    /\ ~panicked
    /\ size = Cardinality(pairs)
    /\ \A k \in Keys :
         LET same == {kp \in pairs : kp[1] = k}
         IN  /\ ForEachValue(unit, k) = {kp[2] : kp \in same}
             /\ ForEachAdjacentValue(unit, k) = same \cup Predecessors(k)
    /\ LeavesDisjoint
=============================================================================
