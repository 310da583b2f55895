---------------------------- MODULE ShardStorage ----------------------------
(***************************************************************************)
(* What one shard keeps on disk and in DRAM, block by block: the tree      *)
(* (merkletree/tree.rs), the entry file and the twig file, the flusher's   *)
(* end-of-block work with eviction and pruning (flusher.rs), MetaDB        *)
(* (metadb.rs), crashes, and recovery (merkletree/recover.rs, lib.rs).     *)
(*                                                                         *)
(* Every entry has size 1, so an entry's serial number (SN) is its file    *)
(* position.  The entries of a block come from the updater; module Updater *)
(* shows what is assumed of them here: an entry deactivates at most two    *)
(* active entries, and nothing below compact_done_sn is active.            *)
(***************************************************************************)
EXTENDS MerkleProof, FiniteSets, FiniteSetsExt

CONSTANTS
    InitCount,          \* entries written by init_dir, SENTRY_COUNT
    EntrySeg, TwigSeg,  \* entries and twig records per segment file
    WithTwigFile,       \* Config::with_twig_file
    Cipher,             \* is MetaDB encrypted
    PruneEvery,         \* PRUNE_EVERY_NBLOCKS
    Kept,               \* Flusher::max_kept_height
    MinPruneCount,      \* MIN_PRUNE_COUNT
    Victims(_),         \* the active entries that a new entry may deactivate ...
    MaxDeact,           \* ... and how many of them: bounds on the updater's choice
    CrashPoints,        \* flusher steps before which the process may crash
    MaxSN, MaxHeight,   \* bounds on entries and on blocks
    MaxCrashes          \* bound on crashes

Steps == {"block", "flush", "commit", "torn", "history"}

ASSUME StorageAssumption ==
    /\ InitCount \in Nat /\ InitCount >= 2 * LeafCount /\ InitCount % LeafCount = 0
    /\ EntrySeg \in Nat \ {0} /\ TwigSeg \in Nat \ {0}
    /\ WithTwigFile \in BOOLEAN /\ Cipher \in BOOLEAN
    /\ PruneEvery \in Nat \ {0} /\ Kept \in Nat /\ MinPruneCount \in Nat \ {0}
    /\ MaxDeact \in 0..2 /\ CrashPoints \subseteq Steps
    /\ MaxSN \in Nat /\ MaxHeight \in Nat /\ MaxCrashes \in Nat

VARIABLES
    log,        \* entry file: the SNs each entry deactivates; entry sn is log[sn + 1]
    entHead,    \* first entry whose segment file still exists
    twigLen,    \* complete twig records in the twig file
    twigHead,   \* first twig whose record's segment file still exists
    info,       \* the MetaDB files info.0 and info.1
    hist,       \* MetaDB's prune_helper file: <<twig id, position>> records
    histPos,    \* MetaDB's write cursor in that file
    meta,       \* MetaDB's MetaInfo in DRAM
    tree,       \* the Tree
    lastDone,   \* FlusherShard::last_compact_done_sn
    done,       \* compact_done_sn of the block being executed
    height,     \* height of the last block whose end was reached
    range,      \* [start, end, ef] of the pruning of this block
    pc,         \* the flusher's step; "down" and "failed" outside a run
    acked,      \* last height sent on end_block_chan
    crashes,    \* number of crashes so far
    firstAt     \* ghost: <<compact_done_sn / LeafCount, position>> of each height

diskVars == <<log, entHead, twigLen, twigHead, info, hist>>
vars == <<diskVars, histPos, meta, tree, lastDone, done, height, range, pc, acked, crashes,
          firstAt>>

Torn == [height |-> -1]
NoInfo == [height |-> -2]
NoTree == [youngest |-> -1]
NoRange == [start |-> 0, end |-> 0, ef |-> 0]

Active(lg) == (0..(Len(lg) - 1)) \ UNION {lg[i] : i \in 1..Len(lg)}

\* init_dir: the sentries, and a MetaInfo of height 0 without a root.
Init ==
    /\ log = [i \in 1..InitCount |-> {}]
    /\ entHead = 0 /\ twigHead = 0
    /\ twigLen = InitCount \div LeafCount
    /\ meta = [height |-> 0, pruned |-> 0, ef |-> 0, nextSN |-> InitCount, oldest |-> 0,
               twigLen |-> InitCount \div LeafCount, edges |-> <<>>, root |-> Missing]
    /\ info = [slot \in {0, 1} |-> IF slot = 0 THEN meta ELSE NoInfo]
    /\ hist = <<>> /\ histPos = 0
    /\ tree = NoTree /\ lastDone = 0 /\ done = 0 /\ height = 0 /\ range = NoRange
    /\ pc = "down" /\ acked = 0 /\ crashes = 0 /\ firstAt = <<>>

-----------------------------------------------------------------------------
(* The tree. *)

\* set_entry_activiation, which also records the touched part of the twig.
SetActive(tr, sn, on) ==
    LET t == TwigOf(sn)
    IN  [tr EXCEPT !.bits[t] = IF on THEN @ \cup {sn} ELSE @ \ {sn},
                   !.touched = @ \cup {<<t, GroupOf(sn)>>}]

\* Mutant: only the first entry of the list is deactivated.
DeactivateFirst(tr, D) == IF D = {} THEN tr ELSE SetActive(tr, Min(D), FALSE)

Deactivate(tr, D) ==
    LET from[S \in SUBSET D] ==
            IF S = {} THEN tr
            ELSE LET sn == CHOOSE x \in S : TRUE IN SetActive(from[S \ {sn}], sn, FALSE)
    IN  from[D]

\* append_entry: the entry becomes a leaf of the youngest twig; a full one is
\* closed and the next twig becomes the youngest.
AddLeaf(tr, sn) == [SetActive(tr, sn, TRUE) EXCEPT !.mt = @ \cup {sn}]
CloseTwig(tr, t) ==
    [tr EXCEPT
        !.youngest = t + 1,
        !.newTwigs = Overlay(@, [x \in {t, t + 1} |->
                        IF x = t THEN [tr.newTwigs[t] EXCEPT !.left = tr.mt] ELSE NullTwig]),
        !.mt = {},
        !.bits = Overlay(@, [x \in {t + 1} |-> {}]),
        !.touched = @ \cup {<<t + 1, 0>>}]

AppendEntry(tr, sn) ==
    IF sn % LeafCount = LeafCount - 1 THEN CloseTwig(AddLeaf(tr, sn), TwigOf(sn))
                                      ELSE AddLeaf(tr, sn)

\* sync_mt_for_active_bits_phase1 and phase2: the touched parts of a twig, and
\* then its root.
SyncTwig(tr, t) ==
    LET bits == [g \in 0..(Groups - 1) |->
                    IF <<t, g>> \in tr.touched THEN BitsOf(tr.bits[t])[g]
                                               ELSE tr.twigs[t].bits[g]]
    IN  [left |-> tr.twigs[t].left, bits |-> bits, root |-> TwigHash(tr.twigs[t].left, bits)]

TouchedTwigs(tr) == {p[1] : p \in tr.touched}

\* flush_files: the new twigs move to the upper tree and only a copy of the
\* youngest one stays behind; the active bits of the twigs in del are dropped.
FlushFiles(tr, del) ==
    LET y == tr.youngest
        new == [tr.newTwigs EXCEPT ![y].left = tr.mt]
        added == [tr EXCEPT !.twigs = Overlay(@, new),
                            !.newTwigs = [x \in {y} |-> new[y]]]
    IN  [added EXCEPT !.twigs = Overlay(@, [t \in TouchedTwigs(tr) |-> SyncTwig(added, t)]),
                      !.bits = Without(@, del),
                      !.touched = {}]

\* Mutant: the roots of the evicted twigs are not saved.
EvictForgets(tr, del) == [tr EXCEPT !.twigs = Without(@, del)]

\* evict_twigs: the roots of the twigs in del become nodes.
EvictTwigs(tr, del) ==
    [tr EXCEPT !.nodes = Overlay(@, [p \in {<<0, t>> : t \in del} |-> tr.twigs[p[2]].root]),
               !.twigs = Without(@, del)]

SyncUpper(tr, touched) ==
    [tr EXCEPT !.nodes = SyncUpperNodes(tr.twigs, @, touched, tr.youngest)]

-----------------------------------------------------------------------------
(* A block's entries, as the flusher reads them. *)

ReadEntry(D) ==
    /\ pc = "block"
    /\ Len(log) < MaxSN
    /\ log' = Append(log, D)
    /\ tree' = Deactivate(AppendEntry(tree, Len(log)), D)
    /\ twigLen' = TwigOf(Len(log) + 1)

NewEntry ==
    /\ \E D \in SUBSET Victims(Active(log)) : Cardinality(D) <= MaxDeact /\ ReadEntry(D)
    /\ UNCHANGED <<entHead, twigHead, info, hist, histPos, meta, lastDone, done, height,
                   range, pc, acked, crashes, firstAt>>

\* The updater compacts the oldest active entry: compact_done_sn passes it.
CompactedEntry ==
    LET oldest == Min(Active(log))
    IN  /\ ReadEntry({oldest})
        /\ done' = oldest + 1
        /\ UNCHANGED <<entHead, twigHead, info, hist, histPos, meta, lastDone, height,
                       range, pc, acked, crashes, firstAt>>

-----------------------------------------------------------------------------
(* FlusherShard::flush after the last entry of the block. *)

\* get_first_twig_at_height; reading past the end of the file gives zeros.
FirstTwigAtHeight(h) ==
    LET n == h \div PruneEvery
    IN  IF n <= Len(hist) THEN hist[n] ELSE <<0, 0>>

\* Mutant: everything that was evicted is pruned, whatever height is kept.
PruneEvicted(h) ==
    LET evicted == IF TwigOf(done) = 0 THEN 0 ELSE TwigOf(done) - 1
    IN  [start |-> meta.pruned, end |-> evicted, ef |-> FirstTwigAtHeight(h)[2]]

\* Mutant: the twig before the first one with active entries goes too.
PruneToDone(h) ==
    LET first == FirstTwigAtHeight(h)
        end == IF first[1] > TwigOf(done) THEN TwigOf(done) ELSE first[1]
        few == meta.pruned <= end /\ end < meta.pruned + MinPruneCount
    IN  [start |-> meta.pruned, end |-> IF few THEN meta.pruned ELSE end, ef |-> first[2]]

\* The twigs to prune: up to the first twig of the kept height and at most to
\* the last evicted one; fewer than MinPruneCount twigs are left for later.
PruneRange(h) ==
    LET first == FirstTwigAtHeight(h)
        evicted == IF TwigOf(done) = 0 THEN 0 ELSE TwigOf(done) - 1
        end == IF first[1] > evicted THEN evicted ELSE first[1]
        few == meta.pruned <= end /\ end < meta.pruned + MinPruneCount
    IN  [start |-> meta.pruned, end |-> IF few THEN meta.pruned ELSE end, ef |-> first[2]]

\* Mutant: the segment file of pos goes too.
HeadPast(head, pos, seg) == Max({head, seg * (pos \div seg + 1)})

\* prune_twigs calls prune_head, which removes whole segment files.
HeadAfter(head, pos, seg) == Max({head, seg * (pos \div seg)})

PruneTwigs ==
    LET h == height + 1
        wanted == h - Kept > 0 /\ (h - Kept) % PruneEvery = 0
        r == IF wanted THEN PruneRange(h - Kept) ELSE NoRange
    IN  /\ pc = "block"
        /\ height < MaxHeight
        /\ height' = h
        /\ range' = r
        /\ IF wanted /\ r.start # r.end
             THEN /\ entHead' = HeadAfter(entHead, r.ef, EntrySeg)
                  /\ twigHead' = HeadAfter(twigHead, r.end, TwigSeg)
             ELSE UNCHANGED <<entHead, twigHead>>
        /\ firstAt' = Append(firstAt, <<TwigOf(done), done>>)
        /\ pc' = "flush"
        /\ UNCHANGED <<log, twigLen, info, hist, histPos, meta, tree, lastDone, done, acked,
                       crashes>>

\* What the flusher sets in MetaDB for its shard.
SetFields(root, prune, edges) ==
    LET m == [meta EXCEPT !.root = root, !.oldest = done, !.nextSN = Len(log),
                          !.twigLen = twigLen]
    IN  IF prune THEN [m EXCEPT !.edges = edges, !.pruned = range.end, !.ef = range.ef] ELSE m

\* flush_files, evict_twigs, sync_upper_nodes and prune_nodes; the MetaInfo
\* fields of this shard.
FlushTree ==
    LET del == TwigOf(lastDone)..(TwigOf(done) - 1)
        touched == TouchedTwigs(tree)
        synced == SyncUpper(EvictTwigs(FlushFiles(tree, del), del), touched)
        maxLevel == MaxLevel(synced.youngest)
        prune == range.start < range.end
        kept == RemoveUselessNodes(synced.nodes, range.start, range.end, maxLevel)
    IN  /\ pc = "flush"
        /\ tree' = IF prune THEN [synced EXCEPT !.nodes = kept] ELSE synced
        /\ lastDone' = done
        /\ meta' = SetFields(Root(synced.nodes, synced.youngest), prune,
                             GetEdgeNodes(kept, range.end, maxLevel))
        /\ pc' = "commit"
        /\ UNCHANGED <<diskVars, histPos, done, height, range, acked, crashes, firstAt>>

\* get_left_path: the leaves of the youngest twig in memory, of another one from
\* the twig file, where each is full.
LeftOfTwig(t) == IF t = tree.youngest THEN tree.mt ELSE SnsOf(t)

\* handle_proof_req runs between prune_nodes and the MetaInfo fields, on the tree
\* that FlushTree leaves.  Tree::get_proof returns an error for an entry past
\* the youngest twig, for a twig whose root is gone and, but for the youngest
\* twig, without a twig file; the left path of such a twig is read from it.
GetProof(sn) ==
    LET t == TwigOf(sn)
        twig == IF t \in DOMAIN tree.twigs THEN tree.twigs[t] ELSE NullTwig
        bits == IF t \in DOMAIN tree.bits THEN tree.bits[t] ELSE {}
    IN  [sn |-> sn,
         left |-> LeftOfTwig(t),
         right |-> GetRightPath(twig, bits, sn),
         upper |-> GetUpperPath(tree.twigs, tree.nodes, t, tree.youngest),
         root |-> Root(tree.nodes, tree.youngest)]
HasProof(sn) ==
    LET t == TwigOf(sn)
    IN  /\ t <= tree.youngest
        /\ GetTwigRoot(tree.twigs, tree.nodes, t) # Missing
        /\ t = tree.youngest \/ (WithTwigFile /\ twigHead <= t /\ t < twigLen)

\* The process is gone, and with it everything in DRAM.
Down ==
    /\ crashes < MaxCrashes
    /\ crashes' = crashes + 1
    /\ pc' = "down" /\ tree' = NoTree /\ meta' = NoInfo /\ histPos' = 0
    /\ lastDone' = 0 /\ done' = 0 /\ range' = NoRange
    /\ UNCHANGED <<height, acked, firstAt>>

\* MetaDB::commit writes the info file of the height's parity in place ...
CommitInfo ==
    /\ pc = "commit"
    /\ meta' = [meta EXCEPT !.height = height]
    /\ info' = [info EXCEPT ![height % 2] = meta']
    /\ pc' = "history"
    /\ UNCHANGED <<log, entHead, twigLen, twigHead, hist, histPos, tree, lastDone, done,
                   height, range, acked, crashes, firstAt>>

\* ... which a crash can interrupt ...
CrashInCommit ==
    /\ pc = "commit" /\ "torn" \in CrashPoints
    /\ info' = [info EXCEPT ![height % 2] = Torn]
    /\ Down
    /\ UNCHANGED <<log, entHead, twigLen, twigHead, hist>>

\* ... then the record of a pruning height goes to the history file, at its
\* cursor, and the block is reported on end_block_chan.
CommitHistory ==
    /\ pc = "history"
    /\ IF height % PruneEvery = 0
         THEN /\ hist' = [i \in 1..Max({Len(hist), histPos + 1}) |->
                            IF i = histPos + 1 THEN firstAt[height] ELSE hist[i]]
              /\ histPos' = histPos + 1
         ELSE UNCHANGED <<hist, histPos>>
    /\ acked' = height
    /\ pc' = "block"
    /\ UNCHANGED <<log, entHead, twigLen, twigHead, info, meta, tree, lastDone, done, height,
                   range, crashes, firstAt>>

-----------------------------------------------------------------------------
(* Crash and recovery. *)

Crash ==
    /\ pc \in CrashPoints
    /\ Down
    /\ UNCHANGED diskVars

\* Mutant: the first readable info file.
FirstInfo == IF info[0].height >= 0 THEN info[0] ELSE info[1]

\* reload_from_file: the readable info file of the larger height.
LoadedInfo == IF info[1].height > info[0].height THEN info[1] ELSE info[0]

\* Mutant: from the first twig without compacted entries.
ScanFromNext(m) == (TwigOf(m.oldest) + 1) * LeafCount

\* Where the scan of the entry file starts.
ScanFrom(m) == IF WithTwigFile THEN TwigOf(m.oldest) * LeafCount ELSE m.ef

\* The files still have what recover_tree reads from them: the roots of the
\* inactive twigs, the scanned entries and the left parts of their twigs.
\* Without a twig file the first scanned twig must be the one twig that is in
\* the tree when the scan starts.
FilesReadable(m) ==
    /\ ScanFrom(m) >= entHead
    /\ IF WithTwigFile
         THEN \A t \in Even(m.pruned)..(TwigOf(m.nextSN) - 1) : t >= twigHead
         ELSE TwigOf(ScanFrom(m)) = TwigOf(m.oldest)

\* scan_entries and recover_entry: the active bits of the twigs from the oldest
\* active one on.
Scanned(m) == ScanFrom(m)..(m.nextSN - 1)
RecoveredBits(m) ==
    LET dead == UNION {log[sn + 1] : sn \in Scanned(m)}
    IN  [t \in TwigOf(m.oldest)..TwigOf(m.nextSN) |-> (Scanned(m) \cap SnsOf(t)) \ dead]

\* recover_twigs: their left parts, from the twig file where it has them.
RecoveredTwigs(m) ==
    LET y == TwigOf(m.nextSN)
        left(t) == IF WithTwigFile /\ t # y THEN SnsOf(t) ELSE Scanned(m) \cap SnsOf(t)
        bits == RecoveredBits(m)
    IN  [t \in DOMAIN bits |-> [left |-> left(t), bits |-> BitsOf(bits[t]),
                                root |-> TwigHash(left(t), BitsOf(bits[t]))]]

\* recover_inactive_twig_roots
InactiveRoots(m) ==
    LET inactive == IF WithTwigFile THEN Even(m.pruned)..(TwigOf(m.oldest) - 1) ELSE {}
    IN  [p \in {<<0, t>> : t \in inactive} |-> TwigHash(SnsOf(p[2]), NoBits)]

\* recover_tree: the roots of the inactive twigs, the twigs, the edge nodes from
\* MetaDB and then the upper nodes, from the edge twig or the first inactive one.
RecoveredTree(m) ==
    LET y == TwigOf(m.nextSN)
        twigs == RecoveredTwigs(m)
        first == Max({Even(m.pruned)} \cup {p[2] : p \in {q \in DOMAIN m.edges : q[1] = 0}})
        touched == (first..(TwigOf(m.oldest) - 1)) \cup {TwigOf(sn) : sn \in Scanned(m)}
    IN  SyncUpper([twigs |-> twigs, newTwigs |-> [t \in {y} |-> twigs[y]],
                   bits |-> RecoveredBits(m), youngest |-> y, mt |-> twigs[y].left,
                   touched |-> {}, nodes |-> Overlay(InactiveRoots(m), m.edges)], touched)

\* MetaDB::with_dir and recover_tree; a panic is "failed".
Recover ==
    LET m == LoadedInfo
        tr == RecoveredTree(m)
        decrypted == Cipher => Torn \notin {info[0], info[1]}
        rootOK == m.height = 0 \/ Root(tr.nodes, tr.youngest) = m.root
        ok == decrypted /\ FilesReadable(m) /\ NothingMissing(tr.nodes) /\ rootOK
    IN  /\ pc = "down"
        /\ pc' = IF ok THEN "block" ELSE "failed"
        /\ tree' = IF ok THEN tr ELSE NoTree
        /\ log' = SubSeq(log, 1, m.nextSN)
        /\ twigLen' = m.twigLen
        /\ meta' = m
        /\ histPos' = 0
        /\ lastDone' = m.oldest /\ done' = m.oldest
        /\ height' = m.height
        /\ range' = NoRange
        /\ firstAt' = SubSeq(firstAt, 1, m.height)
        /\ UNCHANGED <<entHead, twigHead, info, hist, acked, crashes>>

Next ==
    \/ NewEntry
    \/ CompactedEntry
    \/ PruneTwigs
    \/ FlushTree
    \/ CommitInfo
    \/ CrashInCommit
    \/ CommitHistory
    \/ Crash
    \/ Recover

Spec == Init /\ [][Next]_vars

-----------------------------------------------------------------------------
Running == pc \in {"block", "flush", "commit", "history"}

\* Recovery from whatever a crash left behind ends with a running shard whose
\* root is the committed one: it reads no pruned segment, finds every node it
\* needs and does not panic with "recover error".
RecoverySucceeds == pc # "failed"

\* The committed root is the root of the full tree over all entries of the
\* committed blocks, whatever was evicted, pruned or recovered in between.
RootIsReference ==
    \A m \in {info[0], info[1]} :
        m.height > 0 /\ m.nextSN <= Len(log) =>
            m.root = ReferenceRoot(m.nextSN, Active(SubSeq(log, 1, m.nextSN)))

\* The active bits in DRAM are those of the entries no later entry has
\* deactivated, and no twig without active bits has such an entry; after a
\* recovery they are what the index is rebuilt from.
ActiveBitsExact ==
    Running => /\ \A t \in DOMAIN tree.bits : tree.bits[t] = Active(log) \cap SnsOf(t)
               /\ \A sn \in Active(log) : TwigOf(sn) \in DOMAIN tree.bits

\* Pruning never removes the segment of a live entry, not even of one that is
\* only live again when the block being flushed is lost in a crash.
LiveEntriesKept ==
    /\ \A sn \in Active(log) : sn >= entHead
    /\ \A sn \in Active(SubSeq(log, 1, LoadedInfo.nextSN)) : sn >= entHead

\* "we can prune the twigs that are older than OldestActiveTwig(H)": with
\* blocks of the last Kept heights to be queried, what was not yet compacted
\* at the first of them is not pruned.  Only until the first restart: MetaDB
\* opens its history file at cursor 0, and a record written after that is over
\* the record of another height.
KeepsRecentHeights ==
    crashes = 0 /\ height > Kept =>
        entHead <= firstAt[height - Kept][2] /\ twigHead <= firstAt[height - Kept][1]

\* When the flusher answers proof requests, at the end of a block, every active
\* entry has a proof, and so has every other one (a leaf not yet written
\* included) whose twig and the twig beside it are not pruned; the proof passes
\* check_proof against the root that the block commits.  A block without entries
\* for this shard is the exception: the copy of the youngest twig that the
\* previous flush_files kept from before its sync is put back, and is the root
\* in the proofs of that twig and of the one beside it.
ProofsVerify ==
    pc = "commit" =>
        \A sn \in 0..(LeafCount * (tree.youngest + 1) - 1) :
            /\ sn \in Active(log) \/ Even(TwigOf(sn)) >= meta.pruned
            /\ LoadedInfo.nextSN < Len(log) \/ Even(TwigOf(sn)) # Even(tree.youngest)
            =>
                LET path == GetProof(sn)
                IN  /\ HasProof(sn)
                    /\ (sn \in path.left) = (sn < Len(log))
                    /\ (sn \in path.right[GroupOf(sn)]) = (sn \in Active(log))
                    /\ path.root = meta.root
                    /\ CheckProof(path)

\* A height that was reported on end_block_chan is not lost by a crash.
AckedSurvives == Running => meta.height >= acked
=============================================================================
