----------------------------- MODULE EntryCache -----------------------------
(***************************************************************************)
(* One shard of an EntryCache (entryfile/entrycache.rs over                *)
(* utils/bytescache.rs): a map from file positions to places in big        *)
(* buffers.  A position is first claimed with a placeholder, which lookups *)
(* take for a miss, and filled later.  Every operation is under the lock   *)
(* of the shard.                                                           *)
(*                                                                         *)
(* The entry at position p is the bytes <<p, 1>> .. <<p, Size(p)>>: file   *)
(* positions are never reused, so a position stands for its entry.         *)
(***************************************************************************)
EXTENDS Integers, Sequences

LOCAL INSTANCE SequencesExt

CONSTANTS
    BigBufSize,     \* BIG_BUF_SIZE
    Size(_)         \* length of the entry at a position

Placeholder == <<>>
Zeroed == [i \in 1..BigBufSize |-> 0]
EntryBz(p) == [i \in 1..Size(p) |-> <<p, i>>]

EmptyCache == [posMap |-> <<>>, bufs |-> <<>>, free |-> <<>>, buf |-> 0, offset |-> 0]

\* Mutant: the map still points into the buffers that are used again.
ClearKeepsMap(b) ==
    LET free == b.free \o b.bufs
    IN  [EmptyCache EXCEPT !.posMap = b.posMap, !.free = SubSeq(free, 1, (Len(free) * 7) \div 8)]

\* clear: seven of eight buffers are kept, as they are, for later.
Clear(b) ==
    LET free == b.free \o b.bufs
    IN  [EmptyCache EXCEPT !.free = SubSeq(free, 1, (Len(free) * 7) \div 8)]

\* allocate_if_missing, for a position that is missing.
Missing(b, p) == p \notin DOMAIN b.posMap
Claim(b, p) ==
    [b EXCEPT !.posMap = [q \in DOMAIN @ \cup {p} |-> IF q = p THEN Placeholder ELSE @[q]]]

\* fill: another buffer is taken when the entry does not fit into the current
\* one; insert then lets the position point to the bytes.
AddBuffer(b) ==
    [b EXCEPT !.bufs = Append(@, IF b.free = <<>> THEN Zeroed ELSE Last(b.free)),
              !.free = IF @ = <<>> THEN @ ELSE Front(@),
              !.buf = Len(b.bufs), !.offset = 0]
Fits(b, p) == b.bufs # <<>> /\ b.offset + Size(p) <= BigBufSize
Insert(b, p) ==
    LET room == IF Fits(b, p) THEN b ELSE AddBuffer(b)
        at == room.offset
        written(i) == IF i \in (at + 1)..(at + Size(p)) THEN EntryBz(p)[i - at]
                                                       ELSE room.bufs[room.buf + 1][i]
    IN  [room EXCEPT
            !.bufs[room.buf + 1] = [i \in 1..BigBufSize |-> written(i)],
            !.offset = at + Size(p),
            !.posMap = [q \in DOMAIN @ \cup {p} |-> IF q = p THEN <<room.buf, at>> ELSE @[q]]]

\* lookup: the bytes that the position points to; without the buffer it panics.
Panic == <<>>
Hit(b, p) == p \in DOMAIN b.posMap /\ b.posMap[p] # Placeholder
Lookup(b, p) ==
    LET at == b.posMap[p]
    IN  IF at[1] < Len(b.bufs) THEN SubSeq(b.bufs[at[1] + 1], at[2] + 1, at[2] + Size(p))
                               ELSE Panic
=============================================================================
