----------------------------- MODULE EntryBuffer -----------------------------
(***************************************************************************)
(* The entry buffer of one shard (qmdb/src/entryfile/entrybuffer.rs): the  *)
(* updater appends entries to it, the flusher pops them and appends them   *)
(* to the entry file, and updater and prefetcher threads read entries by   *)
(* file position while both run.  The write buffer of the entry file       *)
(* (hpfile/src/lib.rs, append and flush) is part of the model, because the *)
(* buffer promises that what it has dropped can be read from the file.     *)
(*                                                                         *)
(* Bytes are not modelled.  A buffer is the file position up to which its  *)
(* content is valid, an entry is its position and its size.  Steps are     *)
(* split where another thread can look in between: each access of the      *)
(* shared start, end, buf_map and channel is a step of its own.            *)
(***************************************************************************)
EXTENDS Integers, Sequences, FiniteSets

CONSTANTS
    BigBufSize,     \* BIG_BUF_SIZE
    BufMargin,      \* buf_margin, which is also the file's write buffer size
    EntrySizes,     \* the serialized lengths of entries
    StartPos,       \* entry file size when the buffer is created
    ChanCap,        \* capacity of the position channel
    MaxEnd          \* bound: no entry ends after this position

ASSUME SizesAssumption ==
    /\ BigBufSize \in Nat \ {0}
    /\ BufMargin \in Nat \ {0}
    /\ EntrySizes \subseteq 1..BigBufSize
    /\ StartPos \in Nat
    /\ ChanCap \in Nat \ {0}
    /\ MaxEnd \in Nat

VARIABLES
    sizes,      \* position -> length of the entries appended so far
    start, end, \* the range the buffer holds
    bufMap,     \* buffer index -> position up to which the buffer is valid
    wpc,        \* size of the straddling entry being appended, or 0
    wout,       \* what the writer still has to send
    chan,       \* the position channel
    currPos, endPos, currBuf,   \* the EntryBufferReader
    rpc,        \* "run", "drop" (inside get_and_remove_buf) or "extra"
    fileSize,   \* bytes appended to the entry file
    onDisk,     \* bytes of them written out of its write buffer
    rd          \* a get_entry_bz_at in progress

writerVars == <<sizes, end, wpc, wout>>
readerVars == <<start, currPos, endPos, currBuf, rpc, fileSize, onDisk>>
vars == <<writerVars, readerVars, bufMap, chan, rd>>

None == -1
Pos(p) == <<"pos", p>>
EndOfBlock == <<"eob", 0>>
Info(n) == <<"info", n>>
Idle == [pc |-> "idle", pos |-> 0, own |-> FALSE, st |-> 0, en |-> 0]

BufIdx(p) == p \div BigBufSize
BufEnd(p) == (BufIdx(p) + 1) * BigBufSize
BufStart(p) == BufIdx(p) * BigBufSize
Smaller(a, b) == IF a < b THEN a ELSE b
Larger(a, b) == IF a < b THEN b ELSE a
Put(f, x, y) == [z \in DOMAIN f \cup {x} |-> IF z = x THEN y ELSE f[z]]

(***************************************************************************)
(* entrybuffer.rs new: both ends of the range at the size of the file.     *)
(***************************************************************************)
Init ==
    /\ sizes = <<>>
    /\ start = StartPos /\ end = StartPos
    /\ bufMap = <<>>
    /\ wpc = 0 /\ wout = <<>> /\ chan = <<>>
    /\ currPos = StartPos /\ endPos = StartPos /\ currBuf = None
    /\ rpc = "run"
    /\ fileSize = StartPos /\ onDisk = StartPos
    /\ rd = Idle

-----------------------------------------------------------------------------
(* The updater thread: EntryBufferWriter *)

\* The updater is between two calls: not in append, end_block or get_entry_bz_at.
WriterReady == wpc = 0 /\ wout = <<>> /\ ~rd.own

\* EntryBuffer::append, the entry fits in curr_buf with room to spare.
AppendInBuf(size) ==
    /\ WriterReady
    /\ end + size < BufEnd(end)
    /\ end + size <= MaxEnd
    /\ sizes' = Put(sizes, end, size)
    /\ end' = end + size
    /\ UNCHANGED <<wpc, wout, bufMap, chan, readerVars, rd>>

\* EntryBuffer::append, the entry fills curr_buf: the full buffer goes to the
\* map before the new end is published.
AppendStraddle(size) ==
    /\ WriterReady
    /\ end + size >= BufEnd(end)
    /\ end + size <= MaxEnd
    /\ bufMap' = Put(bufMap, BufIdx(end), BufEnd(end))
    /\ wpc' = size
    /\ UNCHANGED <<sizes, end, wout, chan, readerVars, rd>>

AppendBump ==
    /\ wpc > 0
    /\ sizes' = Put(sizes, end, wpc)
    /\ end' = end + wpc
    /\ wout' = <<Pos(end)>>
    /\ wpc' = 0
    /\ UNCHANGED <<bufMap, chan, readerVars, rd>>

\* EntryBufferWriter::end_block: a copy of curr_buf goes to the map, the end,
\* the mark and the extra information (here the number of entries, which
\* stands for sn_end) go to the flusher.
EndBlock ==
    /\ WriterReady
    /\ bufMap' = Put(bufMap, BufIdx(end), end)
    /\ wout' = <<Pos(end), EndOfBlock, Info(Cardinality(DOMAIN sizes))>>
    /\ UNCHANGED <<sizes, end, wpc, chan, readerVars, rd>>

\* pos_sender.send blocks while the channel is full.
Send ==
    /\ wout # <<>>
    /\ Len(chan) < ChanCap
    /\ chan' = Append(chan, Head(wout))
    /\ wout' = Tail(wout)
    /\ UNCHANGED <<sizes, end, wpc, bufMap, readerVars, rd>>

-----------------------------------------------------------------------------
(* The flusher thread: EntryBufferReader and the entry file it feeds *)

\* HPFile::append through the caller's write buffer of BufMargin bytes: once
\* an entry would overfill it, the full buffer is written.
FileAppend(size) ==
    /\ fileSize' = fileSize + size
    /\ onDisk' = IF fileSize + size - onDisk > BufMargin
                 THEN onDisk + BufMargin ELSE onDisk

\* read_next_entry, the receive loop: take a position (and fetch the buffer
\* again if it was cleared), or the end-of-block mark.
RecvPos ==
    /\ rpc = "run" /\ currPos >= endPos
    /\ chan # <<>> /\ Head(chan)[1] = "pos"
    /\ currBuf = None => BufIdx(currPos) \in DOMAIN bufMap
    /\ endPos' = Head(chan)[2]
    /\ currBuf' = IF currBuf = None THEN bufMap[BufIdx(currPos)] ELSE currBuf
    /\ chan' = Tail(chan)
    /\ UNCHANGED <<start, currPos, rpc, fileSize, onDisk, bufMap, writerVars, rd>>

\* Mutant: the copy made by end_block is kept for the next block.
RecvKeepsBuf ==
    /\ rpc = "run" /\ currPos >= endPos
    /\ chan # <<>> /\ Head(chan) = EndOfBlock
    /\ rpc' = "extra"
    /\ chan' = Tail(chan)
    /\ UNCHANGED <<start, currPos, endPos, currBuf, fileSize, onDisk, bufMap, writerVars, rd>>

RecvEndOfBlock ==
    /\ rpc = "run" /\ currPos >= endPos
    /\ chan # <<>> /\ Head(chan) = EndOfBlock
    /\ currBuf' = None
    /\ rpc' = "extra"
    /\ chan' = Tail(chan)
    /\ UNCHANGED <<start, currPos, endPos, fileSize, onDisk, bufMap, writerVars, rd>>

\* read_next_entry, an entry inside the current buffer.
ReadInBuf ==
    /\ rpc = "run" /\ currPos < endPos
    /\ currPos + sizes[currPos] < BufEnd(currPos)
    /\ currPos' = currPos + sizes[currPos]
    /\ FileAppend(sizes[currPos])
    /\ UNCHANGED <<start, endPos, currBuf, rpc, bufMap, chan, writerVars, rd>>

\* Mutant: one buffer too early, without regard to the file's write buffer.
RemoveCurrent(p) == BufIdx(p)

RemoveIdx(p) == BufIdx(p) - (BufMargin \div BigBufSize) - 1

\* read_next_entry, an entry that reaches the next buffer.  get_and_remove_buf
\* first takes the next buffer and moves start up ...
ReadStraddle ==
    /\ rpc = "run" /\ currPos < endPos
    /\ currPos + sizes[currPos] >= BufEnd(currPos)
    /\ BufIdx(currPos) + 1 \in DOMAIN bufMap
    /\ start' = IF RemoveIdx(currPos) >= 0
                THEN Larger(start, (RemoveIdx(currPos) + 1) * BigBufSize)
                ELSE start
    /\ currBuf' = bufMap[BufIdx(currPos) + 1]
    /\ rpc' = "drop"
    /\ UNCHANGED <<currPos, endPos, fileSize, onDisk, bufMap, chan, writerVars, rd>>

\* ... then removes the old buffer, for which it waits while a reader holds a
\* reference into it; only now is the entry appended to the file.
DropAndAppend ==
    /\ rpc = "drop"
    /\ ~(rd.pc = "next" /\ BufIdx(rd.pos) = RemoveIdx(currPos))
    /\ bufMap' = [i \in DOMAIN bufMap \ {RemoveIdx(currPos)} |-> bufMap[i]]
    /\ currPos' = currPos + sizes[currPos]
    /\ FileAppend(sizes[currPos])
    /\ rpc' = "run"
    /\ UNCHANGED <<start, endPos, currBuf, chan, writerVars, rd>>

\* Mutant: the block ends without a flush of the file.
FlushForgotten ==
    /\ rpc = "extra"
    /\ chan # <<>>
    /\ chan' = Tail(chan)
    /\ rpc' = "run"
    /\ UNCHANGED <<start, currPos, endPos, currBuf, fileSize, onDisk, bufMap, writerVars, rd>>

\* read_extra_info, and the flusher's end of the block: the write buffer is
\* flushed to the file.
FlushBlock ==
    /\ rpc = "extra"
    /\ chan # <<>>
    /\ chan' = Tail(chan)
    /\ onDisk' = fileSize
    /\ rpc' = "run"
    /\ UNCHANGED <<start, currPos, endPos, currBuf, fileSize, bufMap, writerVars, rd>>

-----------------------------------------------------------------------------
(* get_entry_bz_at: by the updater (own: it brings curr_buf) or by a         *)
(* prefetcher thread, for an entry whose append has returned                 *)

Published == {p \in DOMAIN sizes : wout = <<>> \/ Head(wout) # Pos(p)}

ReadBegin(p, own) ==
    /\ rd.pc = "idle"
    /\ own => wpc = 0 /\ wout = <<>>
    /\ rd' = [pc |-> "end", pos |-> p, own |-> own, st |-> start, en |-> 0]
    /\ UNCHANGED <<writerVars, readerVars, bufMap, chan>>

\* The second load, and the cases that need no buffer of the map: on disk,
\* past the end, or in curr_buf, which only the updater has.
ReadEnd ==
    /\ rd.pc = "end"
    /\ rd' = [rd EXCEPT !.en = end,
                        !.pc = IF rd.pos < rd.st THEN "disk"
                               ELSE IF rd.pos >= end THEN "panic"
                               ELSE IF rd.pos < BufStart(end) THEN "get"
                               ELSE IF rd.own THEN "done" ELSE "miss"]
    /\ UNCHANGED <<writerVars, readerVars, bufMap, chan>>

\* The bytes of the entry that lie in buffer i are valid in its content b.
ValidIn(p, i, b) == Smaller(p + sizes[p], (i + 1) * BigBufSize) <= b

\* A buffer that is gone was dropped after start was loaded, or never existed;
\* the mutant does not look at start a second time.
GonePanics(p) == "panic"
Gone(p) == IF p < start THEN "disk" ELSE "panic"

ReadGet ==
    LET i == BufIdx(rd.pos)
        past == rd.pos + sizes[rd.pos]
    IN  /\ rd.pc = "get"
        /\ rd' = [rd EXCEPT !.pc =
                IF i \notin DOMAIN bufMap THEN Gone(rd.pos)
                ELSE IF ~ValidIn(rd.pos, i, bufMap[i]) THEN "garbage"
                ELSE IF past <= BufEnd(rd.pos) THEN "done"
                ELSE IF past <= BufStart(rd.en) THEN "next"
                ELSE IF rd.own THEN "done" ELSE "miss"]
        /\ UNCHANGED <<writerVars, readerVars, bufMap, chan>>

ReadNext ==
    LET i == BufIdx(rd.pos) + 1
    IN  /\ rd.pc = "next"
        /\ rd' = [rd EXCEPT !.pc =
                IF i \notin DOMAIN bufMap THEN "panic"
                ELSE IF ValidIn(rd.pos, i, bufMap[i]) THEN "done" ELSE "garbage"]
        /\ UNCHANGED <<writerVars, readerVars, bufMap, chan>>

\* EntryFile::read_entry sees only what the file's write buffer has let go.
ReadDisk ==
    /\ rd.pc = "disk"
    /\ rd' = [rd EXCEPT !.pc = IF rd.pos + sizes[rd.pos] <= onDisk
                               THEN "done" ELSE "garbage"]
    /\ UNCHANGED <<writerVars, readerVars, bufMap, chan>>

ReadReturn ==
    /\ rd.pc \in {"done", "miss"}
    /\ rd' = Idle
    /\ UNCHANGED <<writerVars, readerVars, bufMap, chan>>

-----------------------------------------------------------------------------
Writer == AppendBump \/ Send
Flusher == RecvPos \/ RecvEndOfBlock \/ ReadInBuf \/ ReadStraddle
           \/ DropAndAppend \/ FlushBlock
Reader == ReadEnd \/ ReadGet \/ ReadNext \/ ReadDisk \/ ReadReturn

Next ==
    \/ \E size \in EntrySizes : AppendInBuf(size) \/ AppendStraddle(size)
    \/ EndBlock
    \/ Writer
    \/ Flusher
    \/ \E p \in Published, own \in BOOLEAN : ReadBegin(p, own)
    \/ Reader

Spec == Init /\ [][Next]_vars

\* The three threads keep running inside the calls they have started; whether
\* another call is made is up to the updater's input.
FairSpec == Spec /\ WF_vars(Writer) /\ WF_vars(Flusher) /\ WF_vars(Reader)
-----------------------------------------------------------------------------
(* Properties *)

\* get_entry_bz_at never hits one of its unwraps or the "Read past end" panic,
\* and the bytes it hands to the caller, from a buffer or (when it answers "in
\* disk") from the file, are the entry's, whatever the other two threads do
\* between its loads.
ReadsSucceed == rd.pc \notin {"panic", "garbage"}

\* "This content can be read from DRAM before it is flushed to EntryFile": an
\* entry below start, which readers look for in the file, is completely in the
\* file and not in its write buffer.
DroppedIsOnDisk == \A p \in DOMAIN sizes : p < start => p + sizes[p] <= onDisk

\* read_next_entry finds the buffers it unwraps, with the bytes of the next
\* entry in them: a partial copy left by end_block is never read past its end.
\* When the flusher takes the extra information of a block it has taken every
\* entry of that block and none of the next: sn_end counts what it has read.
FlusherSeesContent ==
  /\ rpc = "extra" /\ chan # <<>> =>
        Head(chan) = Info(Cardinality({p \in DOMAIN sizes : p < currPos}))
  /\ rpc = "run" =>
        /\ (currPos >= endPos /\ currBuf = None /\ chan # <<>> /\ Head(chan)[1] = "pos")
              => BufIdx(currPos) \in DOMAIN bufMap
        /\ currPos < endPos =>
              LET i == BufIdx(currPos) IN
              /\ currPos \in DOMAIN sizes
              /\ ValidIn(currPos, i, currBuf)
              /\ currPos + sizes[currPos] >= BufEnd(currPos)
                    => i + 1 \in DOMAIN bufMap /\ ValidIn(currPos, i + 1, bufMap[i + 1])

\* A block that was ended reaches the disk: once its extra information is on
\* its way, the entries it counts are eventually all written to the file.
BlocksReachDisk ==
    \A n \in 0..MaxEnd :
        (\E i \in 1..Len(wout) : wout[i] = Info(n))
            ~> (Cardinality({p \in DOMAIN sizes : p + sizes[p] <= onDisk}) >= n)
=============================================================================
