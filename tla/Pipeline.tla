------------------------------ MODULE Pipeline ------------------------------
(***************************************************************************)
(* The threads that carry blocks through the database: the client behind   *)
(* AdsWrap, the BlockPairTaskHub, the prefetcher thread and its pool, one  *)
(* updater thread and one flusher thread per shard, MetaDB and             *)
(* end_block_chan (lib.rs, tasks/bptaskhub.rs, uniprefetcher.rs,           *)
(* updater.rs, flusher.rs).                                                *)
(*                                                                         *)
(* A task is <<height, index>>.  Its work is a sequence of change sets; a  *)
(* change set is the sequence of the shards its operations fall into.  One *)
(* operation makes one entry.  What the entries are is module Updater,     *)
(* what flushing does with them module ShardStorage.                       *)
(***************************************************************************)
EXTENDS Integers, Sequences, FiniteSets, FiniteSetsExt

CONSTANTS
    ShardCount,     \* SHARD_COUNT
    Workers,        \* threads of the prefetcher's pool
    Work,           \* Work[h][i]: the change sets of task i of block h
    TaskChanSize,   \* capacity of the task channel and of the done channels
    EntryChanSize,  \* entries between an updater and its flusher
    EndChanSize,    \* capacity of end_block_chan
    ProofHeight     \* bound: one proof is asked for, while this block is in the flusher

Shards == 0..(ShardCount - 1)
LastBlock == Len(Work)
Tasks == UNION {{<<h, i>> : i \in 1..Len(Work[h])} : h \in 1..LastBlock}

ASSUME PipelineAssumption ==
    /\ ShardCount \in Nat \ {0} /\ Workers # {}
    /\ TaskChanSize \in Nat \ {0} /\ EntryChanSize \in Nat \ {0} /\ EndChanSize \in Nat \ {0}
    /\ \A h \in 1..LastBlock : Len(Work[h]) > 0
    /\ \A t \in Tasks : \A i \in 1..Len(Work[t[1]][t[2]]) : Work[t[1]][t[2]][i] \in Seq(Shards)

VARIABLES
    client,     \* [pc, height, task]: what the client does next
    hub,        \* heights in the two slots of the task hub, NoBlock if free
    extra,      \* heights with extra data in MetaDB
    reported,   \* number of blocks received from end_block_chan
    taskChan,   \* task ids sent by the client
    pf,         \* [pc, task, shard]: the prefetcher thread
    count,      \* task -> shard -> operations not yet prefetched
    jobs,       \* queue of the pool: <<task, change set>>
    worker,     \* worker -> [job, op, send]
    done,       \* shard -> channel of prefetched tasks
    upd,        \* shard -> [next, ready, cur, left]: the updater thread
    ran,        \* shard -> tasks the updater has finished
    entries,    \* shard -> channel of [height, end] to the flusher
    flHeight,   \* Flusher::curr_height
    fl,         \* shard -> step of the flusher thread
    flushed,    \* shard -> number of entries read by the flusher
    meta,       \* shard -> [height, count] set in MetaDB
    disk,       \* [height, meta] of the last commit
    proof,      \* [pc, shard] of a thread in AdsCore::get_proof
    endChan,    \* end_block_chan
    panicked    \* has some thread panicked

clientVars == <<client, hub, extra, reported>>
pfVars == <<pf, count>>
updVars == <<upd, ran>>
flVars == <<flHeight, fl, flushed, meta, disk, proof>>
vars == <<clientVars, taskChan, pfVars, jobs, worker, done, updVars, entries, flVars, endChan,
          panicked>>

NoBlock == -1
NoTask == <<0, 0>>
NoJob == [job |-> <<NoTask, 0>>, op |-> 0, send |-> FALSE]

ChangeSets(t) == Work[t[1]][t[2]]
IsLast(t) == t[2] = Len(Work[t[1]])
NextTask(t) == IF IsLast(t) THEN <<t[1] + 1, 1>> ELSE <<t[1], t[2] + 1>>
OpsIn(cs, s) == Cardinality({i \in 1..Len(cs) : cs[i] = s})
OpsOf(t, s) == MapThenSumSet(LAMBDA i : OpsIn(ChangeSets(t)[i], s), DOMAIN ChangeSets(t))

Init ==
    /\ client = [pc |-> "start", height |-> 1, task |-> 1]
    /\ hub = [i \in {0, 1} |-> NoBlock]
    /\ extra = {} /\ reported = 0 /\ taskChan = <<>>
    /\ pf = [pc |-> "idle", task |-> NoTask, shard |-> 0]
    /\ count = [t \in Tasks |-> [s \in Shards |-> 0]]
    /\ jobs = <<>> /\ worker = [w \in Workers |-> NoJob]
    /\ done = [s \in Shards |-> <<>>]
    /\ upd = [s \in Shards |-> [next |-> <<1, 1>>, ready |-> {}, cur |-> NoTask, left |-> 0]]
    /\ ran = [s \in Shards |-> <<>>]
    /\ entries = [s \in Shards |-> <<>>]
    /\ flHeight = 1 /\ fl = [s \in Shards |-> "read"] /\ flushed = [s \in Shards |-> 0]
    /\ meta = [s \in Shards |-> [height |-> 0, count |-> 0]]
    /\ disk = [height |-> 0, meta |-> meta]
    /\ proof = [pc |-> "idle", shard |-> 0]
    /\ endChan = <<>> /\ panicked = FALSE

-----------------------------------------------------------------------------
(* The task hub. *)

\* Mutant: a slot counts as free once its block is committed.
FreeOnCommit == {i \in {0, 1} : hub[i] = NoBlock \/ hub[i] <= disk.height}

FreeSlots == {i \in {0, 1} : hub[i] = NoBlock}
InHub(h) == \E i \in {0, 1} : hub[i] = h

\* check_begin_end and get_change_sets panic with "no data found for height".
Lookup(t) == panicked' = (panicked \/ ~InHub(t[1]))

\* Mutant: the first slot is freed, whichever block is in it.
ReleaseFirst == hub' = [hub EXCEPT ![0] = NoBlock]

\* end_block, for the block whose end was received.
Release == hub' = [i \in {0, 1} |-> IF hub[i] = Head(endChan) THEN NoBlock ELSE hub[i]]

-----------------------------------------------------------------------------
(* The client: AdsWrap::start_block, insert_extra_data, add_task, flush. *)

Receive ==
    /\ endChan # <<>>
    /\ Release
    /\ endChan' = Tail(endChan)
    /\ reported' = reported + 1
    /\ UNCHANGED <<extra, taskChan, pfVars, jobs, worker, done, updVars, entries, flVars,
                   panicked>>

\* start_block with both slots taken waits for an old block ...
WaitForSlot ==
    /\ client.pc \in {"start", "go"} /\ client.height <= LastBlock
    /\ FreeSlots = {}
    /\ Receive
    /\ UNCHANGED client

\* ... and fills slot 0 or else slot 1.
StartBlock ==
    /\ client.pc \in {"start", "go"} /\ client.height <= LastBlock
    /\ FreeSlots # {}
    /\ hub' = [hub EXCEPT ![Min(FreeSlots)] = client.height]
    /\ client' = [client EXCEPT !.pc = "extra"]
    /\ UNCHANGED <<extra, reported, taskChan, pfVars, jobs, worker, done, updVars, entries,
                   flVars, endChan, panicked>>

InsertExtraData ==
    /\ client.pc = "extra"
    /\ extra' = extra \cup {client.height}
    /\ client' = [client EXCEPT !.pc = "tasks", !.task = 1]
    /\ UNCHANGED <<hub, reported, taskChan, pfVars, jobs, worker, done, updVars, entries,
                   flVars, endChan, panicked>>

AddTask ==
    LET t == <<client.height, client.task>>
    IN  /\ client.pc = "tasks"
        /\ Len(taskChan) < TaskChanSize
        /\ taskChan' = Append(taskChan, t)
        /\ client' = IF IsLast(t)
                       THEN [pc |-> "start", height |-> t[1] + 1, task |-> 1]
                       ELSE [client EXCEPT !.task = @ + 1]
        /\ UNCHANGED <<hub, extra, reported, pfVars, jobs, worker, done, updVars, entries,
                       flVars, endChan, panicked>>

\* AdsWrap::flush, which the client may call once between two blocks and calls
\* in the end.
FlushBegin ==
    /\ client.pc = "start"
    /\ client' = [client EXCEPT !.pc = "flush"]
    /\ UNCHANGED <<hub, extra, reported, taskChan, pfVars, jobs, worker, done, updVars, entries,
                   flVars, endChan, panicked>>

FlushWait ==
    /\ client.pc = "flush" /\ Cardinality(FreeSlots) < 2
    /\ Receive
    /\ UNCHANGED client

FlushReturn ==
    /\ client.pc = "flush" /\ Cardinality(FreeSlots) = 2
    /\ client' = [client EXCEPT !.pc = IF client.height <= LastBlock THEN "go" ELSE "end"]
    /\ UNCHANGED <<hub, extra, reported, taskChan, pfVars, jobs, worker, done, updVars, entries,
                   flVars, endChan, panicked>>

Client ==
    \/ WaitForSlot \/ StartBlock \/ InsertExtraData \/ AddTask
    \/ FlushBegin \/ FlushWait \/ FlushReturn

-----------------------------------------------------------------------------
(* The prefetcher: Prefetcher::run_task and the jobs it gives to its pool. *)

PrefetchTask ==
    /\ pf.pc = "idle" /\ taskChan # <<>>
    /\ pf' = [pc |-> "shards", task |-> Head(taskChan), shard |-> 0]
    /\ taskChan' = Tail(taskChan)
    /\ Lookup(Head(taskChan))
    /\ UNCHANGED <<clientVars, count, jobs, worker, done, updVars, entries, flVars, endChan>>

\* The operations of a task in one shard, counted before any is prefetched.
CountOps(t, s) == OpsOf(t, s)

\* Mutant: nobody is told of a shard without operations.
PrefetchShardSilent ==
    /\ pf.pc = "shards"
    /\ count' = [count EXCEPT ![pf.task][pf.shard] = CountOps(pf.task, pf.shard)]
    /\ pf' = IF pf.shard = ShardCount - 1 THEN [pf EXCEPT !.pc = "spawn"]
                                          ELSE [pf EXCEPT !.shard = @ + 1]
    /\ Lookup(pf.task)
    /\ UNCHANGED <<clientVars, taskChan, jobs, worker, done, updVars, entries, flVars, endChan>>

\* A shard without operations is done at once.
PrefetchShard ==
    LET n == CountOps(pf.task, pf.shard)
    IN  /\ pf.pc = "shards"
        /\ n = 0 => Len(done[pf.shard]) < TaskChanSize
        /\ done' = IF n = 0 THEN [done EXCEPT ![pf.shard] = Append(@, pf.task)] ELSE done
        /\ count' = [count EXCEPT ![pf.task][pf.shard] = n]
        /\ pf' = IF pf.shard = ShardCount - 1 THEN [pf EXCEPT !.pc = "spawn"]
                                              ELSE [pf EXCEPT !.shard = @ + 1]
        /\ Lookup(pf.task)
        /\ UNCHANGED <<clientVars, taskChan, jobs, worker, updVars, entries, flVars, endChan>>

PrefetchSpawn ==
    /\ pf.pc = "spawn"
    /\ jobs' = jobs \o [i \in 1..Len(ChangeSets(pf.task)) |-> <<pf.task, i>>]
    /\ pf' = [pf EXCEPT !.pc = "idle"]
    /\ Lookup(pf.task)
    /\ UNCHANGED <<clientVars, taskChan, count, worker, done, updVars, entries, flVars, endChan>>

TakeJob(w) ==
    /\ worker[w] = NoJob /\ jobs # <<>>
    /\ worker' = [worker EXCEPT ![w] = [job |-> Head(jobs), op |-> 1, send |-> FALSE]]
    /\ jobs' = Tail(jobs)
    /\ UNCHANGED <<clientVars, taskChan, pfVars, done, updVars, entries, flVars, endChan, panicked>>

\* One operation of the change set is prefetched; the last one of its task and
\* shard sends the task on, which may block.
RunOp(w) ==
    LET t == worker[w].job[1]
        cs == ChangeSets(t)[worker[w].job[2]]
        op == worker[w].op
    IN  /\ worker[w] # NoJob /\ ~worker[w].send
        /\ \/ /\ op > Len(cs)
              /\ worker' = [worker EXCEPT ![w] = NoJob]
              /\ UNCHANGED count
           \/ /\ op <= Len(cs)
              /\ count' = [count EXCEPT ![t][cs[op]] = @ - 1]
              /\ worker' = IF count[t][cs[op]] = 1 THEN [worker EXCEPT ![w].send = TRUE]
                                                   ELSE [worker EXCEPT ![w].op = @ + 1]
        /\ UNCHANGED <<clientVars, taskChan, pf, jobs, done, updVars, entries, flVars, endChan,
                       panicked>>

SendDone(w) ==
    LET t == worker[w].job[1]
        s == ChangeSets(t)[worker[w].job[2]][worker[w].op]
    IN  /\ worker[w].send
        /\ Len(done[s]) < TaskChanSize
        /\ done' = [done EXCEPT ![s] = Append(@, t)]
        /\ worker' = [worker EXCEPT ![w].send = FALSE, ![w].op = @ + 1]
        /\ UNCHANGED <<clientVars, taskChan, pfVars, jobs, updVars, entries, flVars, endChan,
                       panicked>>

Prefetcher == PrefetchTask \/ PrefetchShard \/ PrefetchSpawn
Worker(w) == TakeJob(w) \/ RunOp(w) \/ SendDone(w)

-----------------------------------------------------------------------------
(* The updater of a shard: run_task_with_ooo_id and run_task. *)

UpdateReceive(s) ==
    /\ upd[s].cur = NoTask /\ upd[s].next \notin upd[s].ready
    /\ done[s] # <<>>
    /\ upd' = [upd EXCEPT ![s].ready = @ \cup {Head(done[s])}]
    /\ done' = [done EXCEPT ![s] = Tail(@)]
    /\ UNCHANGED <<clientVars, taskChan, pfVars, jobs, worker, ran, entries, flVars, endChan,
                   panicked>>

\* Mutant: tasks run in the order in which they were prefetched.
UpdateBeginAny(s) ==
    /\ upd[s].cur = NoTask
    /\ \E t \in upd[s].ready :
        /\ upd' = [upd EXCEPT ![s] = [next |-> @.next, ready |-> @.ready \ {t}, cur |-> t,
                                      left |-> OpsOf(t, s)]]
        /\ Lookup(t)
    /\ UNCHANGED <<clientVars, taskChan, pfVars, jobs, worker, done, ran, entries, flVars,
                   endChan>>

UpdateBegin(s) ==
    LET t == upd[s].next
    IN  /\ upd[s].cur = NoTask /\ t \in upd[s].ready
        /\ upd' = [upd EXCEPT ![s] = [next |-> t, ready |-> @.ready \ {t}, cur |-> t,
                                      left |-> OpsOf(t, s)]]
        /\ Lookup(t)
        /\ UNCHANGED <<clientVars, taskChan, pfVars, jobs, worker, done, ran, entries, flVars,
                       endChan>>

UpdateOp(s) ==
    /\ upd[s].cur # NoTask /\ upd[s].left > 0
    /\ Len(entries[s]) < EntryChanSize
    /\ entries' = [entries EXCEPT ![s] = Append(@, [height |-> upd[s].cur[1], end |-> FALSE])]
    /\ upd' = [upd EXCEPT ![s].left = @ - 1]
    /\ UNCHANGED <<clientVars, taskChan, pfVars, jobs, worker, done, ran, flVars, endChan,
                   panicked>>

UpdateEnd(s) ==
    LET t == upd[s].cur
    IN  /\ t # NoTask /\ upd[s].left = 0
        /\ IF IsLast(t)
             THEN /\ Len(entries[s]) < EntryChanSize
                  /\ entries' = [entries EXCEPT ![s] = Append(@, [height |-> t[1], end |-> TRUE])]
             ELSE UNCHANGED entries
        /\ upd' = [upd EXCEPT ![s].cur = NoTask, ![s].next = NextTask(t)]
        /\ ran' = [ran EXCEPT ![s] = Append(@, t)]
        /\ UNCHANGED <<clientVars, taskChan, pfVars, jobs, worker, done, flVars, endChan,
                       panicked>>

Updater(s) == UpdateReceive(s) \/ UpdateBegin(s) \/ UpdateOp(s) \/ UpdateEnd(s)

-----------------------------------------------------------------------------
(* The flusher threads of the shards: Flusher::flush, FlusherShard::flush. *)

FlushRead(s) ==
    /\ fl[s] = "read" /\ entries[s] # <<>>
    /\ entries' = [entries EXCEPT ![s] = Tail(@)]
    /\ IF Head(entries[s]).end
         THEN fl' = [fl EXCEPT ![s] = "flush_bar"] /\ UNCHANGED flushed
         ELSE flushed' = [flushed EXCEPT ![s] = @ + 1] /\ UNCHANGED fl
    /\ UNCHANGED <<clientVars, taskChan, pfVars, jobs, worker, done, updVars, flHeight, meta, disk,
                   proof, endChan, panicked>>

flRest == <<clientVars, taskChan, pfVars, jobs, worker, done, updVars, entries, flushed>>

FlushBar ==
    /\ \A s \in Shards : fl[s] = "flush_bar"
    /\ fl' = [s \in Shards |-> "sync"]
    /\ UNCHANGED <<flRest, flHeight, meta, disk, proof, endChan, panicked>>

\* Mutant: the request is taken from the channel and nobody is notified.
HandleProofReqSilent(s) ==
    proof' = IF proof = [pc |-> "asked", shard |-> s] THEN [pc |-> "lost", shard |-> 0] ELSE proof

\* handle_proof_req empties the shard's channel, without waiting for a request.
HandleProofReq(s) ==
    proof' = IF proof = [pc |-> "asked", shard |-> s] THEN [pc |-> "answered", shard |-> 0]
                                                      ELSE proof

\* With its tree synced a shard answers proof requests; then every shard but
\* shard 0 goes on to MetaDB.
SyncShard(s) ==
    /\ fl[s] = "sync"
    /\ HandleProofReq(s)
    /\ meta' = IF s = 0 THEN meta
               ELSE [meta EXCEPT ![s] = [height |-> flHeight, count |-> flushed[s]]]
    /\ fl' = [fl EXCEPT ![s] = "metadb_bar"]
    /\ UNCHANGED <<flRest, flHeight, disk, endChan, panicked>>

\* Mutant: shard 0 does not wait at metadb_bar.
MetaBarFirst ==
    /\ fl[0] = "metadb_bar"
    /\ fl' = [fl EXCEPT ![0] = "commit"]
    /\ UNCHANGED <<flRest, flHeight, meta, disk, proof, endChan, panicked>>

MetaBar ==
    /\ \A s \in Shards : fl[s] = "metadb_bar"
    /\ fl' = [s \in Shards |-> IF s = 0 THEN "commit" ELSE "joined"]
    /\ UNCHANGED <<flRest, flHeight, meta, disk, proof, endChan, panicked>>

\* Shard 0 sets its own fields and commits; MetaDB::commit takes the block's
\* extra data and panics when there is none.
CommitMeta ==
    /\ fl[0] = "commit"
    /\ meta' = [meta EXCEPT ![0] = [height |-> flHeight, count |-> flushed[0]]]
    /\ disk' = [height |-> flHeight, meta |-> meta']
    /\ panicked' = (panicked \/ flHeight \notin extra)
    /\ fl' = [fl EXCEPT ![0] = "send"]
    /\ extra' = extra \ {flHeight}
    /\ UNCHANGED <<client, hub, reported, taskChan, pfVars, jobs, worker, done, updVars, entries,
                   flushed, flHeight, proof, endChan>>

SendEndBlock ==
    /\ fl[0] = "send" /\ Len(endChan) < EndChanSize
    /\ endChan' = Append(endChan, flHeight)
    /\ fl' = [fl EXCEPT ![0] = "joined"]
    /\ UNCHANGED <<flRest, flHeight, meta, disk, proof, panicked>>

\* The threads of a block are joined before those of the next are spawned.
NextHeight ==
    /\ \A s \in Shards : fl[s] = "joined"
    /\ fl' = [s \in Shards |-> "read"]
    /\ flHeight' = flHeight + 1
    /\ UNCHANGED <<flRest, meta, disk, proof, endChan, panicked>>

Flusher(s) ==
    \/ FlushRead(s) \/ SyncShard(s)
    \/ s = 0 /\ (FlushBar \/ MetaBar \/ CommitMeta \/ SendEndBlock \/ NextHeight)

\* get_proof of some thread: it sends a request to a shard and waits until it is
\* answered.
AskProof(s) ==
    /\ proof.pc = "idle" /\ flHeight = ProofHeight
    /\ proof' = [pc |-> "asked", shard |-> s]
    /\ UNCHANGED <<flRest, flHeight, fl, meta, disk, endChan, panicked>>

\* The client has flushed and every thread waits for more work.
AllDone ==
    /\ client.pc = "end" /\ jobs = <<>> /\ pf.pc = "idle"
    /\ \A s \in Shards : fl[s] = "read" /\ upd[s].cur = NoTask
    /\ \A w \in Workers : worker[w] = NoJob
    /\ UNCHANGED vars

Next ==
    \/ Client
    \/ Prefetcher
    \/ \E w \in Workers : Worker(w)
    \/ \E s \in Shards : Updater(s) \/ Flusher(s) \/ AskProof(s)
    \/ AllDone

Spec == Init /\ [][Next]_vars

\* Every thread runs when it can, and so does the client except that it need
\* not call flush before its last block.
Fairness ==
    /\ WF_vars(WaitForSlot \/ StartBlock \/ InsertExtraData \/ AddTask \/ FlushWait \/ FlushReturn)
    /\ WF_vars(client.height > LastBlock /\ FlushBegin)
    /\ WF_vars(Prefetcher)
    /\ \A w \in Workers : WF_vars(Worker(w))
    /\ \A s \in Shards : WF_vars(Updater(s)) /\ WF_vars(Flusher(s))

FairSpec == Spec /\ Fairness

-----------------------------------------------------------------------------
\* No thread panics: the prefetcher and the updaters find the block of every
\* task they touch in the hub although the client frees slots, and extra data
\* is there when MetaDB commits.
NoPanic == ~panicked

\* Every updater runs every task exactly once and in the order of the task
\* ids, although the pool finishes them in any order.
AllTasks ==
    LET upTo[h \in 0..LastBlock] ==
            IF h = 0 THEN <<>> ELSE upTo[h - 1] \o [i \in 1..Len(Work[h]) |-> <<h, i>>]
    IN  upTo[LastBlock]
TasksInOrder == \A s \in Shards : ran[s] = SubSeq(AllTasks, 1, Len(ran[s]))

\* A commit covers the same whole blocks in every shard: MetaDB then holds, for
\* each shard, exactly the entries of the blocks up to the committed height,
\* neither fewer nor some of the next block that is already in the pipeline.
EntriesUpTo(h, s) ==
    MapThenSumSet(LAMBDA t : OpsOf(t, s), {t \in Tasks : t[1] <= h})
CommitIsWholeBlocks ==
    \A s \in Shards :
        disk.meta[s] = [height |-> disk.height, count |-> EntriesUpTo(disk.height, s)]

\* Requirement-3, "The client cannot start to execute Block N+2 (and later
\* Blocks) before Job8 of Block N finishes", with the order of starts, commits
\* and reports.
Started == client.height - (IF client.pc \in {"extra", "tasks"} THEN 0 ELSE 1)
Blocks == INSTANCE BlockPipeline
            WITH started <- Started, committed <- disk.height, reported <- reported
RefinesBlockPipeline == Blocks!Spec

\* Every started block is committed and reported: with bounded channels, a
\* bounded pool and two barriers no set of threads waits on each other.
BlocksFinish == <>[](client.pc = "end" /\ reported = LastBlock /\ disk.height = LastBlock)

\* A thread that asks for a proof while block h is in the flusher has its answer
\* when block h + 1 is flushed, at whatever step of the flusher it asked.  With
\* BlocksFinish, it does not wait for ever unless no block follows: requests are
\* served at no other time.
ProofServed == flHeight > ProofHeight + 1 => proof.pc \in {"idle", "answered"}
=============================================================================
