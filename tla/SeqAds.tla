------------------------------- MODULE SeqAds -------------------------------
(***************************************************************************)
(* The sequential ADS (seqads/), for one shard: each task is loaded,       *)
(* executed and flushed before the next one starts (commit_tx), and        *)
(* commit_block makes the block durable.  It executes the operations of    *)
(* module Updater without threads: compaction reads the entry file itself  *)
(* and is tested before every single compaction.                           *)
(*                                                                         *)
(* The state of the shard is a record u: log, the entries of the file and  *)
(* of the update buffer by serial number (serial numbers stand for file    *)
(* positions, as in Updater); fileEnd, the first entry that is not in the  *)
(* file; index, snStart, snEnd, compact (compact_start, which is also      *)
(* compact_done_pos) and ver (curr_version).  ok is FALSE once compaction  *)
(* has read past the end of the file, where the code panics.               *)
(*                                                                         *)
(* The value that a task writes is its version.  The cache that the loader *)
(* fills is left out: a file position never gets another entry.            *)
(***************************************************************************)
EXTENDS Integers, Sequences, FiniteSets, SequencesExt

CONSTANTS
  Keys, NoValue, SentryHash, EndHash, K80, UnitOf,   \* as in Updater
  UtilRatio, UtilDiv, CompactThres,                  \* Config
  LeafBits,      \* TWIG_SHIFT: a twig has 2^LeafBits entries
  OpsPerSet,     \* bound: operations of one change set
  TxPerBlock,    \* bound: tasks of one block
  MaxHeight,     \* bound: blocks
  MaxSN          \* bound: entries

SentryCount == Cardinality(DOMAIN SentryHash)
Hashes == Keys \cup {SentryHash[n] : n \in DOMAIN SentryHash}

ASSUME SeqAssumption ==
  /\ Hashes \subseteq Nat /\ \A h \in Hashes : h < EndHash
  /\ DOMAIN SentryHash = 0 .. SentryCount - 1
  /\ TxPerBlock \in Nat \ {0} /\ LeafBits \in Nat

VARIABLES
  u,       \* the shard
  meta,    \* MetaDB as committed: height, next_serial_num, oldest_active_sn
  txs      \* tasks of the current block so far

vars == <<u, meta, txs>>

SentryEntry(n) ==
  [key |-> SentryHash[n],
   next |-> IF n = SentryCount - 1 THEN EndHash ELSE SentryHash[n + 1],
   val |-> NoValue, ver |-> 0, sn |-> n, dsn |-> {}]

\* The active bits of the Merkle tree: flush() activates each entry and
\* deactivates the serial numbers it lists.
ActiveBits(log) == DOMAIN log \ UNION {log[n].dsn : n \in DOMAIN log}

\* index_tree: the entries that are active, from the oldest active twig on.
IndexTree(log, oldest) ==
  {<<K80[log[n].key], n>> : n \in {n \in ActiveBits(log) :
                                     n >= (oldest \div 2^LeafBits) * 2^LeafBits}}

\* SeqAds::new on the files that MetaDB describes.
Open(log, m) ==
  [log |-> log, fileEnd |-> m.next, index |-> IndexTree(log, m.oldest),
   snStart |-> m.oldest, snEnd |-> m.next, compact |-> m.oldest,
   ver |-> -1, ok |-> TRUE]

Init ==
  /\ meta = [height |-> 0, next |-> SentryCount, oldest |-> 0]
  /\ u = Open([n \in 0 .. SentryCount - 1 |-> SentryEntry(n)], meta)
  /\ txs = 0

-----------------------------------------------------------------------------
(* EntryUpdater.                                                           *)

ValuesOf(s, k80) == {pair[2] : pair \in {p \in s.index : p[1] = k80}}

PrevK80(s, h) ==
  {k \in {pair[1] : pair \in s.index} :
     /\ k < K80[h]
     /\ \E g \in Hashes : K80[g] = k /\ UnitOf[g] = UnitOf[h]}

AdjacentValues(s, h) ==
  ValuesOf(s, K80[h]) \cup
    UNION {ValuesOf(s, k) : k \in {k \in PrevK80(s, h) :
                                     \A j \in PrevK80(s, h) : j <= k}}

EntriesOf(s, k) == {p \in ValuesOf(s, K80[k]) : s.log[p].key = k}

Exists(s, k) == EntriesOf(s, k) # {}

PrevForCreate(s, k) ==
  {p \in AdjacentValues(s, k) : s.log[p].key < k /\ k < s.log[p].next}

The(S) == CHOOSE x \in S : TRUE

IsCompactible(active, start, end) ==
  /\ (end - start) * UtilRatio >= active * UtilDiv
  /\ active >= CompactThres

\* Append e, which replaces the entry at position `old' in the indexer.
Replace(s, e, old) ==
  [s EXCEPT !.log = [n \in 0 .. s.snEnd |-> IF n = s.snEnd THEN e ELSE s.log[n]],
            !.index = (@ \ {<<K80[e.key], old>>}) \cup {<<K80[e.key], s.snEnd>>},
            !.snEnd = @ + 1]

\* try_compact scans the file from compact_start for an entry that is indexed.
TryCompact(s) ==
  LET live == {p \in s.compact .. s.fileEnd - 1 :
                 <<K80[s.log[p].key], p>> \in s.index}
      p == CHOOSE p \in live : \A q \in live : p <= q
  IN IF ~ IsCompactible(Cardinality(s.index), s.snStart, s.snEnd) THEN s
     ELSE IF live = {} THEN [s EXCEPT !.ok = FALSE]
     ELSE [Replace(s, [s.log[p] EXCEPT !.sn = s.snEnd, !.dsn = {p}], p)
             EXCEPT !.snStart = p + 1, !.compact = p + 1]

WriteKV(s, k) ==
  LET old == The(EntriesOf(s, k))
  IN TryCompact(Replace(s, [s.log[old] EXCEPT !.val = s.ver, !.ver = s.ver,
                                              !.sn = s.snEnd, !.dsn = {old}], old))

\* Mutant: the predecessor keeps pointing at the deleted key.
DeleteKVKeepsNext(s, k) ==
  LET del == The(EntriesOf(s, k))
      erased == [s EXCEPT !.index = @ \ {<<K80[k], del>>}]
      old == The({p \in AdjacentValues(erased, k) : s.log[p].next = k})
  IN Replace(erased, [s.log[old] EXCEPT !.ver = s.ver, !.sn = s.snEnd,
                                        !.dsn = {del, old}], old)

\* The entry is erased from the indexer before its predecessor is looked up.
DeleteKV(s, k) ==
  LET del == The(EntriesOf(s, k))
      erased == [s EXCEPT !.index = @ \ {<<K80[k], del>>}]
      old == The({p \in AdjacentValues(erased, k) : s.log[p].next = k})
  IN Replace(erased, [s.log[old] EXCEPT !.next = s.log[del].next, !.ver = s.ver,
                                        !.sn = s.snEnd, !.dsn = {del, old}], old)

CreateKV(s, k) ==
  LET old == The(PrevForCreate(s, k))
      new == [key |-> k, next |-> s.log[old].next, val |-> s.ver, ver |-> s.ver,
              sn |-> s.snEnd, dsn |-> {}]
      changed == [s.log[old] EXCEPT !.next = k, !.ver = s.ver,
                                    !.sn = s.snEnd + 1, !.dsn = {old}]
  IN TryCompact(TryCompact(Replace(Replace(s, new, s.snEnd), changed, old)))

RunOp(s, op) ==
  IF op.op = "delete" THEN DeleteKV(s, op.key)
  ELSE IF Exists(s, op.key) THEN WriteKV(s, op.key) ELSE CreateKV(s, op.key)

\* A task has one change set, sorted by key hash (TaskBuilder::build).
TaskID(height, n) == height * TxPerBlock + n

RunTask(s, cs, height, n) ==
  LET begun == IF n = 0 THEN [s EXCEPT !.ver = TaskID(height, 0)] ELSE s
  IN [FoldLeft(RunOp, begun, cs) EXCEPT !.ver = @ + 1]

\* The change sets a client may submit: OP_WRITE and OP_DELETE name a key that
\* exists.
SortedOps(S, f) ==
  [i \in 1 .. Cardinality(S) |->
     LET k == CHOOSE k \in S : Cardinality({j \in S : j < k}) = i - 1
     IN [key |-> k, op |-> f[k]]]

ChangeSets(s) ==
  UNION {{SortedOps(S, f) : f \in {f \in [S -> {"set", "delete"}] :
                                     \A k \in S : f[k] = "delete" => Exists(s, k)}}
           : S \in {S \in SUBSET Keys : Cardinality(S) <= OpsPerSet}}

-----------------------------------------------------------------------------
\* The state of the shard after the task: the buffer is in the file.
AfterTx(s, cs) ==
  LET ran == RunTask(s, cs, meta.height + 1, txs)
  IN [ran EXCEPT !.fileEnd = ran.snEnd]

MayRun(s) == s.ok /\ s.snEnd <= MaxSN

CommitTx(cs) ==
  /\ txs < TxPerBlock /\ meta.height < MaxHeight
  /\ MayRun(AfterTx(u, cs))
  /\ u' = AfterTx(u, cs)
  /\ txs' = txs + 1
  /\ UNCHANGED meta

CommitBlock ==
  /\ txs > 0
  /\ meta' = [height |-> meta.height + 1, next |-> u.snEnd, oldest |-> u.snStart]
  /\ txs' = 0
  /\ UNCHANGED u

\* Mutant: the entries behind the committed size stay in the file.
ReopenKeepsTail ==
  /\ u' = Open(u.log, [meta EXCEPT !.next = u.snEnd])
  /\ txs' = 0
  /\ UNCHANGED meta

\* A crash, or a clean restart: recover_tree cuts the files to the committed
\* sizes and replays them.
Reopen ==
  /\ u' = Open([n \in 0 .. meta.next - 1 |-> u.log[n]], meta)
  /\ txs' = 0
  /\ UNCHANGED meta

Next == (\E cs \in ChangeSets(u) : CommitTx(cs)) \/ CommitBlock \/ Reopen

Spec == Init /\ [][Next]_vars
-----------------------------------------------------------------------------
(* Properties.                                                             *)

ActivePos == {pair[2] : pair \in u.index}

\* The sequential shard keeps the invariants of the parallel one across tasks,
\* blocks and restarts: the indexer holds exactly the entries whose active bit
\* is set, none of them below sn_start or behind compact_start, and they form one sorted list
\* in which every entry points at the next larger key hash.
SeqShardExact ==
  /\ ActivePos = ActiveBits(u.log)
  /\ \A p \in ActivePos :
       LET e == u.log[p] IN
       /\ p >= u.snStart /\ p >= u.compact
       /\ e.key < e.next
       /\ e.next = EndHash \/ \E q \in ActivePos : u.log[q].key = e.next
       /\ \A q \in ActivePos : ~ (e.key < u.log[q].key /\ u.log[q].key < e.next)

\* Lookup in a log with active bits: what read_entry finds.
MapOf(log) ==
  [k \in Keys |->
     LET live == {n \in ActiveBits(log) : log[n].key = k}
     IN IF live = {} THEN NoValue ELSE log[The(live)].val]

Versions == 1 .. TaskID(MaxHeight, TxPerBlock)

AbstractStore == INSTANCE CommitStore
  WITH open <- txs,
       db <- [k \in Keys |-> IF Exists(u, k) THEN u.log[The(EntriesOf(u, k))].val
                             ELSE NoValue],
       saved <- MapOf([n \in 0 .. meta.next - 1 |-> u.log[n]]),
       Values <- Versions

\* Every commit_tx is one transaction on the client's map, commit_block makes
\* the map durable, and a restart at any point returns to the last block: of
\* the open block, whose entries are in the file, nothing is left.
RefinesCommitStore == AbstractStore!Spec
=============================================================================
