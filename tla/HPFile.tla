------------------------------- MODULE HPFile -------------------------------
(***************************************************************************)
(* The head-prunable file (hpfile/src/lib.rs): a virtual append-only file  *)
(* made of segment files, written through a buffer that the caller owns,   *)
(* truncated when a crashed database is reopened and pruned at its head.   *)
(*                                                                         *)
(* A byte is <<record, index>>, or Zero where the code writes padding, so  *)
(* that bytes of different appends are never confused.  A file is the      *)
(* sequence of its bytes; durable says how much of it a crash cannot lose. *)
(***************************************************************************)
EXTENDS Integers, Sequences, FiniteSets

CONSTANTS
    SegmentSize, BufferSize, IoBlkSize,
    Lengths,            \* lengths of appended byteslices
    TruncateOnOpen,     \* does the user truncate after reopening, as qmdb does
    MaxAppends          \* bound on the number of append calls

ASSUME HPFileAssumption ==
    /\ SegmentSize \in Nat \ {0} /\ BufferSize \in Nat \ {0}
    /\ IoBlkSize \in Nat \ {0}
    /\ SegmentSize % BufferSize = 0
    /\ Lengths \subseteq 1..BufferSize
    /\ TruncateOnOpen \in BOOLEAN
    /\ MaxAppends \in Nat

VARIABLES
    files,      \* segment id -> bytes of the segment file
    durable,    \* segment id -> synced length, None before the first sync
    cursor,     \* file cursor of the largest segment
    largestId, latestSize, fileSize, sizeOnDisk,
    buffer,     \* the write buffer passed to append and flush
    recs,       \* [pos, len, id] of the byteslices appended and not cut off
    committed,  \* file size the user has recorded as committed
    appends,    \* number of append calls so far
    mode        \* "open", "down" (crashed) or "reopened" (not yet truncated)

sizes == <<largestId, latestSize, fileSize, sizeOnDisk>>
vars == <<files, durable, cursor, sizes, buffer, recs, committed, appends, mode>>

None == -1
Zero == <<0, 0>>
Zeros(n) == [i \in 1..n |-> Zero]
Bytes(id, len) == [i \in 1..len |-> <<id, i>>]
Smaller(a, b) == IF a < b THEN a ELSE b
Put(f, x, y) == [z \in DOMAIN f \cup {x} |-> IF z = x THEN y ELSE f[z]]

\* File::write_all at position p: overwrites, and extends past the end.
WriteAt(f, p, bz) ==
    SubSeq(f, 1, Smaller(p, Len(f))) \o Zeros(p - Smaller(p, Len(f))) \o bz
        \o SubSeq(f, p + Len(bz) + 1, Len(f))

\* File::set_len
SetLen(f, n) == SubSeq(f, 1, Smaller(n, Len(f))) \o Zeros(n - Smaller(n, Len(f)))

\* HPFile::new on an empty directory.
Init ==
    /\ files = [i \in {0} |-> <<>>] /\ durable = [i \in {0} |-> 0]
    /\ cursor = 0
    /\ largestId = 0 /\ latestSize = 0 /\ fileSize = 0 /\ sizeOnDisk = 0
    /\ buffer = <<>> /\ recs = {} /\ committed = 0 /\ appends = 0
    /\ mode = "open"

-----------------------------------------------------------------------------
\* append: bytes that would overfill the buffer push a full buffer to the file
\* at its cursor; when the segment is full it is flushed with padding, the
\* next segment is created, and the bytes by which the byteslice sticks out of
\* the old segment are replaced by zeros in the new one.
Append1(len) ==
    LET bz == Bytes(appends + 1, len)
        extra == Len(buffer) + len - BufferSize
        split == IF extra > 0 THEN len - extra ELSE 0
        full == IF extra > 0 THEN buffer \o SubSeq(bz, 1, split) ELSE <<>>
        rest == IF extra > 0 THEN SubSeq(bz, split + 1, len) ELSE buffer \o bz
        written == WriteAt(files[largestId], cursor, full)
        overflow == latestSize + len - SegmentSize
        tailLen == Len(rest) % IoBlkSize
        padded == IF tailLen = 0 THEN rest ELSE rest \o Zeros(IoBlkSize - tailLen)
        newId == largestId + 1
    IN  /\ fileSize' = fileSize + len
        /\ recs' = recs \cup {[pos |-> fileSize, len |-> len, id |-> appends + 1]}
        /\ appends' = appends + 1
        /\ \/ /\ overflow < 0
              /\ files' = [files EXCEPT ![largestId] = written]
              /\ cursor' = cursor + Len(full)
              /\ buffer' = rest
              /\ latestSize' = latestSize + len
              /\ sizeOnDisk' = sizeOnDisk + Len(full)
              /\ UNCHANGED <<largestId, durable>>
           \/ /\ overflow >= 0
              /\ files' = Put([files EXCEPT ![largestId] = written \o padded], newId, <<>>)
              /\ durable' = Put([durable EXCEPT ![largestId] = Len(written) + Len(padded)],
                                newId, None)
              /\ cursor' = 0
              /\ buffer' = Zeros(overflow)
              /\ largestId' = newId
              /\ latestSize' = overflow
              /\ sizeOnDisk' = sizeOnDisk + Len(full) + Len(padded)

HPAppend(len) ==
    /\ mode = "open"
    /\ appends < MaxAppends
    /\ Append1(len)
    /\ UNCHANGED <<committed, mode>>

\* flush(buffer, eof = false): the end of a block.
Flush ==
    /\ mode = "open"
    /\ files' = [files EXCEPT ![largestId] = @ \o buffer]
    /\ durable' = [durable EXCEPT ![largestId] = Len(files[largestId]) + Len(buffer)]
    /\ cursor' = IF buffer = <<>> THEN cursor ELSE Len(files[largestId]) + Len(buffer)
    /\ sizeOnDisk' = sizeOnDisk + Len(buffer)
    /\ buffer' = <<>>
    /\ UNCHANGED <<largestId, latestSize, fileSize, recs, committed, appends, mode>>

\* Mutant: the size is recorded before the flush.
CommitEarly ==
    /\ mode = "open"
    /\ committed' = fileSize
    /\ UNCHANGED <<files, durable, cursor, sizes, buffer, recs, appends, mode>>

\* The user (MetaDB) records the size of a file whose flush has returned.
Commit ==
    /\ mode = "open"
    /\ buffer = <<>> /\ durable[largestId] = Len(files[largestId])
    /\ committed' = fileSize
    /\ UNCHANGED <<files, durable, cursor, sizes, buffer, recs, appends, mode>>

\* A crash keeps what was synced and any part of what was only written; a
\* segment file that was never synced may be gone.
Crash ==
    /\ mode = "open"
    /\ \E gone \in SUBSET {i \in DOMAIN files : durable[i] = None} :
       \E keep \in [DOMAIN files -> 0..(SegmentSize + BufferSize + IoBlkSize)] :
         /\ \A i \in DOMAIN files :
              /\ keep[i] <= Len(files[i])
              /\ i \in gone => keep[i] = 0
              /\ durable[i] # None => keep[i] >= durable[i]
         /\ files' = [i \in DOMAIN files \ gone |-> SubSeq(files[i], 1, keep[i])]
         /\ durable' = [i \in DOMAIN files \ gone |-> keep[i]]
    /\ buffer' = <<>>
    /\ mode' = "down"
    /\ UNCHANGED <<cursor, sizes, recs, committed, appends>>

\* HPFile::new on the directory left by a crash: sizes from the largest
\* segment file, whose handle starts at position 0.
Reopen ==
    LET top == CHOOSE i \in DOMAIN files : \A j \in DOMAIN files : j <= i
    IN  /\ mode = "down"
        /\ largestId' = top
        /\ latestSize' = Len(files[top])
        /\ fileSize' = top * SegmentSize + Len(files[top])
        /\ sizeOnDisk' = fileSize'
        /\ cursor' = 0
        /\ mode' = IF TruncateOnOpen THEN "reopened" ELSE "open"
        /\ recs' = IF TruncateOnOpen THEN recs
                   ELSE {r \in recs : r.pos + r.len <= fileSize'}
        /\ UNCHANGED <<files, durable, buffer, committed, appends>>

\* truncate: drop the segments past the size, cut (or extend) the one it falls
\* into and open it at its end.
Truncate1(size) ==
    LET id == Smaller(largestId, size \div SegmentSize)
        rem == size - id * SegmentSize
    IN  /\ id \in DOMAIN files
        /\ files' = [i \in {j \in DOMAIN files : j <= id} |->
                        IF i = id THEN SetLen(files[i], rem) ELSE files[i]]
        /\ durable' = [i \in DOMAIN files' |->
                        IF i = id THEN Smaller(durable[i], rem) ELSE durable[i]]
        /\ cursor' = rem
        /\ largestId' = id
        /\ latestSize' = rem
        /\ fileSize' = size
        /\ sizeOnDisk' = size

Truncate ==
    /\ mode = "reopened"
    /\ Truncate1(committed)
    /\ recs' = {r \in recs : r.pos + r.len <= committed}
    /\ mode' = "open"
    /\ UNCHANGED <<buffer, committed, appends>>

\* Mutant: the segment that holds offset is removed too.
PruneOneMore(offset) ==
    /\ mode = "open"
    /\ files' = [i \in {j \in DOMAIN files : j > offset \div SegmentSize} |-> files[i]]
    /\ durable' = [i \in DOMAIN files' |-> durable[i]]
    /\ recs' = {r \in recs : r.pos >= offset}
    /\ UNCHANGED <<cursor, sizes, buffer, committed, appends, mode>>

\* prune_head: remove the segment files before the one that holds offset.
PruneHead(offset) ==
    /\ mode = "open"
    /\ files' = [i \in {j \in DOMAIN files : j >= offset \div SegmentSize} |-> files[i]]
    /\ durable' = [i \in DOMAIN files' |-> durable[i]]
    /\ recs' = {r \in recs : r.pos >= offset}
    /\ UNCHANGED <<cursor, sizes, buffer, committed, appends, mode>>

Next ==
    \/ \E len \in Lengths : HPAppend(len)
    \/ Flush
    \/ Commit
    \/ Crash
    \/ Reopen
    \/ Truncate
    \/ \E r \in recs : r.pos + r.len <= committed /\ PruneHead(r.pos)

Spec == Init /\ [][Next]_vars

-----------------------------------------------------------------------------
\* The bytes of segment i as far as they have been handed over, and the ones
\* of the record at its position among them.
Segment(i) == IF i = largestId THEN files[i] \o buffer ELSE files[i]
Holds(r) ==
    LET i == r.pos \div SegmentSize
        off == r.pos % SegmentSize
    IN  i \in DOMAIN files /\ SubSeq(Segment(i), off + 1, off + r.len) = Bytes(r.id, r.len)

\* "Any byteslice which was written to it is immutable": a byteslice is found,
\* whole and unchanged, at the position append returned, through rolled
\* segments, padding, zero placeholders, head pruning, crashes and truncation.
ReadBack == mode = "open" => \A r \in recs : Holds(r)

\* A crash never costs a committed byteslice: whatever of the unsynced bytes
\* survives, the synced segments still hold every byteslice up to the
\* committed size.
CommittedSurvives ==
    \A r \in recs : r.pos + r.len <= committed =>
        LET i == r.pos \div SegmentSize
            off == r.pos % SegmentSize
        IN  /\ i \in DOMAIN files
            /\ durable[i] >= off + r.len
            /\ SubSeq(files[i], off + 1, off + r.len) = Bytes(r.id, r.len)
=============================================================================
