------------------------------ MODULE Updater ------------------------------
(***************************************************************************)
(* The data plane of one shard: the updater thread (updater.rs), which     *)
(* turns change-set operations into entries appended to the log and keeps  *)
(* the indexer up to date; the compactor thread (compactor.rs), which      *)
(* scans the entry file for entries that are still indexed and offers them *)
(* through a ring of jobs (utils/ringchannel.rs); and the flusher as these *)
(* two see it: the part of the log that can be read from the file.         *)
(*                                                                         *)
(* Every append takes the next serial number, so the n-th entry of the     *)
(* file has serial number n, and the model uses serial numbers for file    *)
(* positions: `file_pos + entry.len()' is `n + 1', and compact_done_pos,   *)
(* which is assigned together with sn_start, is the position of sn_start.  *)
(* A key stands for its 32-byte hash.                                      *)
(***************************************************************************)
EXTENDS Integers, Sequences, FiniteSets

CONSTANTS
  Keys,          \* hashes of the client's keys
  Values,        \* values a client writes (never empty)
  NoValue,       \* the value of a sentry, and of an absent key
  SentryHash,    \* SentryHash[n] is the key hash of the n-th sentry
  EndHash,       \* next_key_hash of the shard's last entry
  K80,           \* K80[h]: the prefix of h that the indexer keeps
  UnitOf,        \* UnitOf[h]: the indexer unit (first 16 bits) of h
  UtilRatio, UtilDiv, CompactThres,   \* Config: when to compact
  CompactTrigger,                     \* compact_thres / 10
  RingSize,      \* COMPACT_RING_SIZE
  OpsPerBlock,   \* bound: operations in one block
  MaxSN          \* bound: entries in the log

Sentries == {SentryHash[n] : n \in DOMAIN SentryHash}
SentryCount == Cardinality(Sentries)
Hashes == Keys \cup Sentries

ASSUME ConstAssumption ==
  /\ Hashes \subseteq Nat /\ EndHash \in Nat
  /\ Keys \cap Sentries = {}
  /\ SentryCount \in Nat \ {0}
  /\ DOMAIN SentryHash = 0 .. SentryCount - 1
  /\ \A m, n \in DOMAIN SentryHash : m < n => SentryHash[m] < SentryHash[n]
  /\ \A h \in Hashes : h < EndHash
  /\ K80 \in [Hashes -> Nat] /\ UnitOf \in [Hashes -> Nat]
  /\ NoValue \notin Values
  /\ UtilRatio \in Nat /\ UtilDiv \in Nat
  /\ CompactThres \in Nat /\ CompactTrigger \in Nat
  /\ RingSize \in Nat \ {0} /\ OpsPerBlock \in Nat /\ MaxSN \in Nat

\* Hashes are compared byte by byte: a prefix preserves their order, the unit
\* is a prefix of the k80, and each unit starts with its sentry.
ASSUME PrefixAssumption ==
  \A g, h \in Hashes :
    /\ g <= h => K80[g] <= K80[h] /\ UnitOf[g] <= UnitOf[h]
    /\ K80[g] = K80[h] => UnitOf[g] = UnitOf[h]
    /\ \E s \in Sentries : UnitOf[s] = UnitOf[h] /\ s <= h

\* The jobs of the ring can never hold all the sentries (def.rs: 4096 sentries
\* in a shard, 1024 jobs).  NoActiveBelowStart depends on it.
ASSUME RingAssumption == RingSize < SentryCount

VARIABLES
  log,         \* log[n]: the entry appended with serial number n
  index,       \* the indexer: a set of <<k80, file position>>
  snStart,     \* Updater.sn_start (and compact_done_pos)
  snEnd,       \* Updater.sn_end
  pc,          \* the updater: "idle", "index" (in create_kv) or "compact"
  oldPos,      \* create_kv's old_pos, while pc = "index"
  todo,        \* calls of compact() that the current operation still makes
  ops,         \* operations of the current block so far
  blockStart,  \* serial number at which the current block began
  flushed,     \* entries below this one are written to the entry file
  filePos,     \* Compactor: file_pos
  found,       \* Compactor: entry filePos was found in the indexer
  ring,        \* jobs sent to the updater (their old_pos)
  returned     \* jobs sent back to the compactor

updaterVars == <<log, index, snStart, snEnd, pc, oldPos, todo, ops, blockStart>>
compactorVars == <<filePos, found>>
ringVars == <<ring, returned>>
vars == <<updaterVars, flushed, compactorVars, ringVars>>

Entry == [key : Hashes, next : Hashes \cup {EndHash},
          val : Values \cup {NoValue}, dsn : SUBSET Nat]

SentryEntry(n) ==
  [key |-> SentryHash[n],
   next |-> IF n = SentryCount - 1 THEN EndHash ELSE SentryHash[n + 1],
   val |-> NoValue, dsn |-> {}]

Init ==
  /\ log = [n \in 0 .. SentryCount - 1 |-> SentryEntry(n)]
  /\ index = {<<K80[SentryHash[n]], n>> : n \in 0 .. SentryCount - 1}
  /\ snStart = 0 /\ snEnd = SentryCount
  /\ pc = "idle" /\ oldPos = 0 /\ todo = 0
  /\ ops = 0 /\ blockStart = SentryCount /\ flushed = SentryCount
  /\ filePos = 0 /\ found = FALSE
  /\ ring = << >> /\ returned = RingSize

-----------------------------------------------------------------------------
(* The indexer.                                                            *)

ValuesOf(k80) == {p \in DOMAIN log : <<k80, p>> \in index}

KeyExists(h, p) == <<K80[h], p>> \in index

\* for_each_adjacent_value: the entries under h's k80 and those under the
\* closest smaller k80 of the same unit.
PrevK80(h) ==
  {K80[g] : g \in {g \in Hashes : UnitOf[g] = UnitOf[h] /\ K80[g] < K80[h]
                                  /\ ValuesOf(K80[g]) # {}}}

\* Mutant: the smaller k80 is not looked at when h's own k80 has entries.
AdjacentOwnFirst(h) ==
  IF ValuesOf(K80[h]) # {} THEN ValuesOf(K80[h])
  ELSE UNION {ValuesOf(k) : k \in {k \in PrevK80(h) : \A j \in PrevK80(h) : j <= k}}

AdjacentValues(h) ==
  ValuesOf(K80[h]) \cup
    UNION {ValuesOf(k) : k \in {k \in PrevK80(h) : \A j \in PrevK80(h) : j <= k}}

ChangeKV(idx, h, old, new) == (idx \ {<<K80[h], old>>}) \cup {<<K80[h], new>>}

-----------------------------------------------------------------------------
(* The updater.                                                            *)

LogEnd == IF pc = "index" THEN snEnd + 2 ELSE snEnd

Append1(e) == [n \in 0 .. snEnd |-> IF n = snEnd THEN e ELSE log[n]]

Append2(e1, e2) ==
  [n \in 0 .. snEnd + 1 |-> IF n = snEnd THEN e1
                            ELSE IF n = snEnd + 1 THEN e2 ELSE log[n]]

\* Mutants: the rewritten entry deactivates nothing; it loses its value.
RewrittenWithoutDsn(e, next, dsn) ==
  [key |-> e.key, next |-> next, val |-> e.val, dsn |-> {}]
RewrittenWithoutValue(e, next, dsn) ==
  [key |-> e.key, next |-> next, val |-> NoValue, dsn |-> dsn]

\* The entry of the same key and value with another successor.
Rewritten(e, next, dsn) ==
  [key |-> e.key, next |-> next, val |-> e.val, dsn |-> dsn]

IsCompactible(active, start, end) ==
  /\ (end - start) * UtilRatio >= active * UtilDiv
  /\ active >= CompactThres

\* What follows an operation: n calls of compact() if the shard is sparse.
ThenCompact(n) ==
  IF IsCompactible(Cardinality(index'), snStart, snEnd')
  THEN pc' = "compact" /\ todo' = n
  ELSE pc' = "idle" /\ todo' = 0

EntriesOf(k) == {p \in ValuesOf(K80[k]) : log[p].key = k}

\* The read path (AdsCore::read_entry): the entry of k that the indexer knows.
Lookup(k) == IF EntriesOf(k) = {} THEN NoValue
             ELSE log[CHOOSE p \in EntriesOf(k) : TRUE].val

MayRun == pc = "idle" /\ ops < OpsPerBlock /\ snEnd + 4 <= MaxSN

WriteKV(k, v) ==
  /\ MayRun
  /\ \E old \in EntriesOf(k) :
       /\ log' = Append1([key |-> k, next |-> log[old].next, val |-> v,
                          dsn |-> {old}])
       /\ index' = ChangeKV(index, k, old, snEnd)
  /\ snEnd' = snEnd + 1
  /\ ThenCompact(1)
  /\ ops' = ops + 1
  /\ UNCHANGED <<snStart, oldPos, blockStart, flushed, compactorVars, ringVars>>

PrevForDelete(k) == {p \in AdjacentValues(k) : log[p].next = k /\ log[p].key # k}

DeleteKV(k) ==
  /\ MayRun
  /\ \E del \in EntriesOf(k), old \in PrevForDelete(k) :
       /\ log' = Append1(Rewritten(log[old], log[del].next, {del, old}))
       /\ index' = ChangeKV(index \ {<<K80[k], del>>}, log[old].key, old, snEnd)
  /\ snEnd' = snEnd + 1
  /\ ops' = ops + 1
  /\ UNCHANGED <<snStart, pc, oldPos, todo, blockStart, flushed,
                 compactorVars, ringVars>>

\* Mutant: any smaller key is taken for the predecessor.
PrevAnySmaller(k) == {p \in AdjacentValues(k) : log[p].key < k}

PrevForCreate(k) == {p \in AdjacentValues(k) : log[p].key < k /\ k < log[p].next}

\* create_kv appends two entries before it touches the indexer.  The first of
\* them can be read by the flusher as soon as the second is in the buffer.
CreateKV(k, v) ==
  /\ MayRun
  /\ EntriesOf(k) = {}
  /\ \E old \in PrevForCreate(k) :
       /\ log' = Append2([key |-> k, next |-> log[old].next, val |-> v,
                          dsn |-> {}],
                         Rewritten(log[old], k, {old}))
       /\ oldPos' = old
  /\ pc' = "index"
  /\ ops' = ops + 1
  /\ UNCHANGED <<index, snStart, snEnd, todo, blockStart, flushed,
                 compactorVars, ringVars>>

CreateIndex ==
  /\ pc = "index"
  /\ index' = ChangeKV(index \cup {<<K80[log[snEnd].key], snEnd>>},
                       log[oldPos].key, oldPos, snEnd + 1)
  /\ snEnd' = snEnd + 2
  /\ ThenCompact(2)
  /\ UNCHANGED <<log, snStart, oldPos, ops, blockStart, flushed,
                 compactorVars, ringVars>>

\* Mutant: a stale job is dropped instead of going back to the compactor.
CompactStaleLost ==
  /\ pc = "compact" /\ ring # << >>
  /\ ~ KeyExists(log[Head(ring)].key, Head(ring))
  /\ ring' = Tail(ring)
  /\ UNCHANGED <<updaterVars, flushed, compactorVars, returned>>

\* compact() takes a job whose entry is no longer indexed: the job goes back.
CompactStale ==
  /\ pc = "compact" /\ ring # << >>
  /\ ~ KeyExists(log[Head(ring)].key, Head(ring))
  /\ ring' = Tail(ring) /\ returned' = returned + 1
  /\ UNCHANGED <<updaterVars, flushed, compactorVars>>

\* Mutant: sn_start moves to the end of the log instead of behind the job.
CompactToEnd ==
  /\ pc = "compact" /\ ring # << >>
  /\ LET old == Head(ring) IN
       /\ KeyExists(log[old].key, old)
       /\ log' = Append1(Rewritten(log[old], log[old].next, {old}))
       /\ index' = ChangeKV(index, log[old].key, old, snEnd)
  /\ snStart' = snEnd /\ snEnd' = snEnd + 1
  /\ todo' = todo - 1
  /\ pc' = IF todo = 1 THEN "idle" ELSE "compact"
  /\ ring' = Tail(ring) /\ returned' = returned + 1
  /\ UNCHANGED <<oldPos, ops, blockStart, flushed, compactorVars>>

\* compact() takes a job whose entry is indexed: the entry is appended again.
Compact ==
  /\ pc = "compact" /\ ring # << >>
  /\ LET old == Head(ring) IN
       /\ KeyExists(log[old].key, old)
       /\ log' = Append1(Rewritten(log[old], log[old].next, {old}))
       /\ index' = ChangeKV(index, log[old].key, old, snEnd)
       /\ snStart' = old + 1
  /\ snEnd' = snEnd + 1
  /\ todo' = todo - 1
  /\ pc' = IF todo = 1 THEN "idle" ELSE "compact"
  /\ ring' = Tail(ring) /\ returned' = returned + 1
  /\ UNCHANGED <<oldPos, ops, blockStart, flushed, compactorVars>>

\* The last task of a block: the buffer is handed over to the flusher.  The
\* first task of the block after next waits until this block is committed.
EndBlock ==
  /\ pc = "idle" /\ flushed >= blockStart
  /\ blockStart' = snEnd /\ ops' = 0
  /\ UNCHANGED <<log, index, snStart, snEnd, pc, oldPos, todo, flushed,
                 compactorVars, ringVars>>

-----------------------------------------------------------------------------
(* The flusher and the compactor.                                          *)

\* The flusher has everything up to the end of the previous block; within a
\* block, everything except the entry appended last.
Readable == IF blockStart = LogEnd THEN blockStart ELSE LogEnd - 1

Flush(n) ==
  /\ flushed < n /\ n <= Readable
  /\ flushed' = n
  /\ UNCHANGED <<updaterVars, compactorVars, ringVars>>

CompactorAwake == Cardinality(index) >= CompactTrigger

\* Reading past what is on disk makes the compactor panic: see CompactorReads.
CompactorScan ==
  /\ ~ found /\ CompactorAwake /\ filePos < flushed
  /\ IF KeyExists(log[filePos].key, filePos)
     THEN found' = TRUE /\ filePos' = filePos
     ELSE found' = FALSE /\ filePos' = filePos + 1
  /\ UNCHANGED <<updaterVars, flushed, ringVars>>

\* Mutant: the scan goes on one entry too far after a job was sent.
CompactorSkips ==
  /\ found /\ returned > 0
  /\ ring' = Append(ring, filePos) /\ returned' = returned - 1
  /\ found' = FALSE /\ filePos' = filePos + 2
  /\ UNCHANGED <<updaterVars, flushed>>

CompactorProduce ==
  /\ found /\ returned > 0
  /\ ring' = Append(ring, filePos) /\ returned' = returned - 1
  /\ found' = FALSE /\ filePos' = filePos + 1
  /\ UNCHANGED <<updaterVars, flushed>>

-----------------------------------------------------------------------------
UpdaterStep ==
  \/ \E k \in Keys : \/ \E v \in Values : WriteKV(k, v) \/ CreateKV(k, v)
                     \/ DeleteKV(k)
  \/ CreateIndex \/ CompactStale \/ Compact \/ EndBlock

Next == \/ UpdaterStep
        \/ \E n \in 1 .. MaxSN : Flush(n)
        \/ CompactorScan \/ CompactorProduce

\* An operation that has begun runs on; the compactor thread runs; and the
\* flusher writes every block that has ended.
Fairness ==
  /\ WF_vars(CreateIndex) /\ WF_vars(CompactStale) /\ WF_vars(Compact)
  /\ WF_vars(CompactorScan) /\ WF_vars(CompactorProduce)
  /\ WF_vars(flushed < blockStart /\ Flush(blockStart))

Spec == Init /\ [][Next]_vars
FairSpec == Spec /\ Fairness
-----------------------------------------------------------------------------
(* Properties.                                                             *)

\* The state has the shape its declarations give it, and an entry is indexed
\* under the k80 of its own key.
TypeOK ==
  /\ snEnd \in Nat /\ snStart \in 0 .. snEnd
  /\ pc \in {"idle", "index", "compact"} /\ todo \in 0 .. 2
  /\ (pc = "compact") <=> (todo > 0)
  /\ log \in [0 .. LogEnd - 1 -> Entry]
  /\ \A pair \in index : /\ pair \in Nat \X (0 .. snEnd - 1)
                         /\ pair[1] = K80[log[pair[2]].key]
  /\ oldPos \in Nat /\ ops \in Nat
  /\ blockStart \in 0 .. snEnd
  /\ flushed \in 0 .. LogEnd
  /\ filePos \in 0 .. flushed /\ found \in BOOLEAN
  /\ (found => filePos < flushed)
  /\ ring \in Seq(Nat)
  /\ returned \in Nat /\ returned + Len(ring) = RingSize

\* The active entries: those the indexer holds.
ActivePos == {p \in 0 .. snEnd - 1 : <<K80[log[p].key], p>> \in index}

\* No entry below sn_start is active.  The flusher evicts and prunes the twigs
\* below sn_start, so an active entry there would be lost.
NoActiveBelowStart == \A p \in ActivePos : p >= snStart

\* The deactivated-serial-number lists in the log say exactly which entries the
\* indexer holds (the Merkle tree and recovery know the lists, not the indexer);
\* an entry is deactivated once, by a later one.
ReplayMatchesIndex ==
  \A n \in 0 .. snEnd - 1 :
    /\ n \in ActivePos <=> \A m \in 0 .. snEnd - 1 : n \notin log[m].dsn
    /\ \A l, m \in 0 .. snEnd - 1 :
         n \in log[l].dsn /\ n \in log[m].dsn => l = m
    /\ \A d \in log[n].dsn : d < n

\* The active entries form one list, sorted by key hash and without gaps: every
\* active entry points at the next larger active hash, or at the shard's end.
\* This is what an exclusion proof for an absent key rests on.
SortedChain ==
  /\ \A p, q \in ActivePos : log[p].key = log[q].key => p = q
  /\ \A p \in ActivePos :
       /\ log[p].key < log[p].next
       /\ \/ log[p].next = EndHash
          \/ \E q \in ActivePos : log[q].key = log[p].next
       /\ \A q \in ActivePos : ~ (log[p].key < log[q].key
                                  /\ log[q].key < log[p].next)

\* An operation the client may ask for never panics: with only the prefix of
\* the hash in the indexer, and the entries of one unit, write_kv and delete_kv
\* find the entry (and its predecessor), create_kv finds the predecessor.
OpsFindEntries ==
  pc = "idle" =>
    \A k \in Keys :
      IF \E p \in ActivePos : log[p].key = k
      THEN EntriesOf(k) # {} /\ Cardinality(PrevForDelete(k)) = 1
      ELSE Cardinality(PrevForCreate(k)) = 1

\* Every active entry that the compactor has passed waits in the ring, and the
\* ring is in file order: that is why consuming a job may advance sn_start.
RingCoversPassed ==
  /\ \A i \in 1 .. Len(ring) : ring[i] < filePos
  /\ \A i, j \in 1 .. Len(ring) : i < j => ring[i] < ring[j]
  /\ \A p \in ActivePos : p < filePos => \E i \in 1 .. Len(ring) : ring[i] = p

\* The compactor never wants an entry that is not in the file yet.  HPFile
\* panics in read_at_with_pre_reader if it does.
CompactorReads == (~ found /\ CompactorAwake) => filePos < flushed

\* Each step of the shard is an operation on the client's map, or invisible.
AbstractDB == INSTANCE KVStore WITH db <- [k \in Keys |-> Lookup(k)]
RefinesKVStore == AbstractDB!Spec

\* An operation that started compaction ends: the updater does not wait for
\* ever for a job.
CompactionEnds == (pc = "compact") ~> (pc = "idle")
=============================================================================
