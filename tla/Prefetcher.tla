----------------------------- MODULE Prefetcher -----------------------------
(***************************************************************************)
(* The io_uring prefetcher (dioprefetcher.rs) and the entry caches it      *)
(* fills (lib.rs, entryfile/entrycache.rs).  Every block has a cache,      *)
(* which is taken from cache_list when nobody else holds a reference to    *)
(* it.  The prefetcher thread pairs a task with a free Job; a thread of    *)
(* the pool lists the entries the task will need, takes what it finds in   *)
(* the entry buffer and leaves the others to the uring threads.  The Job   *)
(* goes back to the channel of free ones when its last reference is        *)
(* dropped.  An updater is told of a task when all its entries are done.   *)
(*                                                                         *)
(* Tasks are numbered 1, 2, ...; a sub-job id is <<task, index>>.  A Job   *)
(* is known by its task; free ones are alike and only counted.             *)
(***************************************************************************)
EXTENDS EntryCache, FiniteSets, FiniteSetsExt

CONSTANTS
    ShardCount,     \* SHARD_COUNT
    Work,           \* Work[t]: [height, reads], reads a sequence of <<shard, position>>
    JobCount,       \* JOB_COUNT
    PoolSize,       \* threads of the pool
    UringCount,     \* uring threads
    IdChanSize,     \* capacity of a channel of sub-job ids
    DoneChanSize,   \* capacity of a channel to an updater
    ClientReads     \* bound: <<height, shard, position>>, what clients read in a block

Shards == 0..(ShardCount - 1)
Urings == 0..(UringCount - 1)
Tasks == 1..Len(Work)
LastBlock == Work[Len(Work)].height
HeightOf(t) == Work[t].height
Reads(t) == Work[t].reads
ShardOf(id) == Reads(id[1])[id[2]][1]
PosOf(id) == Reads(id[1])[id[2]][2]
IsFirst(t) == t = 1 \/ HeightOf(t - 1) # HeightOf(t)

ASSUME PrefetcherAssumption ==
    /\ JobCount \in Nat \ {0} /\ PoolSize \in Nat \ {0} /\ UringCount \in Nat \ {0}
    /\ IdChanSize \in Nat \ {0} /\ DoneChanSize \in Nat \ {0}
    /\ \A t \in Tasks : \A i \in 1..Len(Reads(t)) : Size(Reads(t)[i][2]) \in 1..BigBufSize

VARIABLES
    client,     \* [pc, height, cache]: the caller of AdsWrap
    shared,     \* the cache of the SharedAdsWrap that client threads read with
    hub,        \* height -> cache of the blocks in the task hub
    caches,     \* cache_list: cache -> shard -> BytesCache
    pf,         \* [next, cache]: the prefetcher thread
    free,       \* number of Jobs in the channel of free ones
    jobs,       \* task -> [cache, counts], the Jobs in use
    queue,      \* tasks that wait for a thread of the pool
    pool,       \* task -> [step, i, need], the running threads of the pool
    idMap,      \* keys of sub_id_to_job
    idChan,     \* uring -> channel of sub-job ids
    ring,       \* uring -> ids of submitted reads
    held,       \* uring -> id whose Job the thread holds, or None
    done,       \* shard -> channel of prefetched tasks
    upd         \* shard -> [next, ready, cache]: the updater

clientVars == <<client, shared, hub>>
jobVars == <<pf, free, jobs, queue>>
uringVars == <<idMap, idChan, ring, held>>
vars == <<clientVars, caches, jobVars, pool, uringVars, done, upd>>

NoCache == 0
None == <<>>

Init ==
    /\ client = [pc |-> "start", height |-> 1, cache |-> NoCache]
    /\ shared = NoCache /\ hub = <<>> /\ caches = <<>>
    /\ pf = [next |-> 1, cache |-> NoCache]
    /\ free = JobCount /\ jobs = <<>> /\ queue = <<>> /\ pool = <<>>
    /\ idMap = {} /\ held = [u \in Urings |-> None]
    /\ idChan = [u \in Urings |-> <<>>] /\ ring = [u \in Urings |-> {}]
    /\ done = [s \in Shards |-> <<>>]
    /\ upd = [s \in Shards |-> [next |-> 1, ready |-> {}, cache |-> NoCache]]

With(f, x, v) == [y \in DOMAIN f \cup {x} |-> IF y = x THEN v ELSE f[y]]
Without(f, x) == [y \in DOMAIN f \ {x} |-> f[y]]

-----------------------------------------------------------------------------
(* The client. *)

\* The caches with a reference besides that of cache_list.
Referenced ==
    {client.cache, shared, pf.cache} \cup {hub[h] : h \in DOMAIN hub}
        \cup {upd[s].cache : s \in Shards} \cup {jobs[t].cache : t \in DOMAIN jobs}

\* start_block: allocate_cache clears the first cache that is not referenced ...
AllocateCache ==
    LET unused == DOMAIN caches \ Referenced
        c == IF unused = {} THEN Len(caches) + 1 ELSE Min(unused)
    IN  /\ client.pc = "start" /\ client.height <= LastBlock
        /\ client' = [client EXCEPT !.pc = "put", !.cache = c]
        /\ caches' = IF unused = {} THEN Append(caches, [s \in Shards |-> EmptyCache])
                     ELSE [caches EXCEPT ![c] = [s \in Shards |-> Clear(caches[c][s])]]
        /\ UNCHANGED <<shared, hub, jobVars, pool, uringVars, done, upd>>

\* A block is reported when all updaters are through with it.
Reported(h) == \A s \in Shards, t \in Tasks : HeightOf(t) = h => upd[s].next > t

\* ... and the block goes into a free slot of the task hub, or into that of a
\* block that was reported.  From then on its tasks reach the prefetcher.
PutBlock ==
    LET full == Cardinality(DOMAIN hub) = 2
        oldest == Min(DOMAIN hub)
    IN  /\ client.pc = "put"
        /\ full => Reported(oldest)
        /\ hub' = With(IF full THEN Without(hub, oldest) ELSE hub, client.height, client.cache)
        /\ client' = [client EXCEPT !.pc = "start", !.height = @ + 1]
        /\ shared' = client.cache
        /\ UNCHANGED <<caches, jobVars, pool, uringVars, done, upd>>

\* AdsWrap::flush
FlushBlocks ==
    /\ client.pc = "start" /\ DOMAIN hub # {}
    /\ \A h \in DOMAIN hub : Reported(h)
    /\ hub' = <<>>
    /\ UNCHANGED <<client, shared, caches, jobVars, pool, uringVars, done, upd>>

\* read_entry and warmup_cache of a SharedAdsWrap: what was not in the cache is
\* read from the file and inserted.
ClientRead(h, s, p) ==
    /\ shared # NoCache /\ client.height = h + 1
    /\ ~Hit(caches[shared][s], p)
    /\ caches' = [caches EXCEPT ![shared][s] = Insert(@, p)]
    /\ UNCHANGED <<clientVars, jobVars, pool, uringVars, done, upd>>

-----------------------------------------------------------------------------
(* The prefetcher thread and the pool. *)

\* run_task waits for a free Job.
RunTask ==
    LET t == pf.next
        c == IF IsFirst(t) THEN hub[HeightOf(t)] ELSE pf.cache
    IN  /\ t \in Tasks /\ HeightOf(t) \in DOMAIN hub
        /\ free > 0
        /\ free' = free - 1
        /\ jobs' = With(jobs, t, [cache |-> c, counts |-> [s \in Shards |-> 0]])
        /\ queue' = Append(queue, t)
        /\ pf' = [next |-> t + 1, cache |-> c]
        /\ UNCHANGED <<clientVars, caches, pool, uringVars, done, upd>>

\* A thread of the pool adds the task's entries to the Job.
PoolStart ==
    LET t == Head(queue)
        count(s) == Cardinality({i \in 1..Len(Reads(t)) : ShardOf(<<t, i>>) = s})
    IN  /\ queue # <<>> /\ Cardinality(DOMAIN pool) < PoolSize
        /\ queue' = Tail(queue)
        /\ jobs' = [jobs EXCEPT ![t].counts = [s \in Shards |-> count(s)]]
        /\ pool' = With(pool, t, [step |-> "empty", i |-> 0, need |-> {}])
        /\ UNCHANGED <<clientVars, caches, pf, free, uringVars, done, upd>>

\* The thread's next sub-job of add_job; after the last one it hands out those
\* that need a read.
NextSubJob(t, i, need) ==
    [step |-> IF i <= Len(Reads(t)) THEN "claim" ELSE "send", i |-> i, need |-> need]

SendDone(t, s) == Len(done[s]) < DoneChanSize /\ done' = [done EXCEPT ![s] = Append(@, t)]

\* The updaters of shards without entries of this task are told at once.
PoolEmptyShard(t) ==
    LET s == pool[t].i
    IN  /\ pool[t].step = "empty"
        /\ IF jobs[t].counts[s] = 0 THEN SendDone(t, s) ELSE UNCHANGED done
        /\ pool' = [pool EXCEPT ![t] = IF s + 1 \in Shards THEN [@ EXCEPT !.i = s + 1]
                                                         ELSE NextSubJob(t, 1, {})]
        /\ UNCHANGED <<clientVars, caches, jobVars, uringVars, upd>>

\* Mutant: the updater is told when one sub-job is left.
CountDownEarly(t, s) == IF jobs[t].counts[s] = 2 THEN SendDone(t, s) ELSE UNCHANGED done

\* The last sub-job of a task in a shard tells the updater; the count goes down
\* by one.
CountDown(t, s) == IF jobs[t].counts[s] = 1 THEN SendDone(t, s) ELSE UNCHANGED done
CountedDown(t, s) == [jobs EXCEPT ![t].counts[s] = @ - 1]

\* add_sub_job: a position that the cache has, or that someone has claimed, is
\* not fetched again.
PoolClaim(t) ==
    LET id == <<t, pool[t].i>>
        s == ShardOf(id)
        c == jobs[t].cache
    IN  /\ pool[t].step = "claim"
        /\ \/ /\ Missing(caches[c][s], PosOf(id))
              /\ caches' = [caches EXCEPT ![c][s] = Claim(@, PosOf(id))]
              /\ pool' = [pool EXCEPT ![t].step = "fetch"]
              /\ UNCHANGED <<jobs, done>>
           \/ /\ ~Missing(caches[c][s], PosOf(id))
              /\ CountDown(t, s)
              /\ jobs' = CountedDown(t, s)
              /\ pool' = [pool EXCEPT ![t] = NextSubJob(t, @.i + 1, @.need)]
              /\ UNCHANGED caches
        /\ UNCHANGED <<clientVars, pf, free, queue, uringVars, upd>>

\* The entry is in the entry buffer, or in the part of it that only its writer
\* can read ...
PoolTakeFromBuffer(t) ==
    LET id == <<t, pool[t].i>>
        s == ShardOf(id)
    IN  /\ pool[t].step = "fetch"
        /\ \/ caches' = [caches EXCEPT ![jobs[t].cache][s] = Insert(@, PosOf(id))]
           \/ UNCHANGED caches
        /\ CountDown(t, s)
        /\ jobs' = CountedDown(t, s)
        /\ pool' = [pool EXCEPT ![t] = NextSubJob(t, @.i + 1, @.need)]
        /\ UNCHANGED <<clientVars, pf, free, queue, uringVars, upd>>

\* ... or in the file.
PoolLeaveToUring(t) ==
    /\ pool[t].step = "fetch"
    /\ idMap' = idMap \cup {<<t, pool[t].i>>}
    /\ pool' = [pool EXCEPT ![t] = NextSubJob(t, @.i + 1, @.need \cup {@.i})]
    /\ UNCHANGED <<clientVars, caches, jobVars, idChan, ring, held, done, upd>>

\* A uring thread is chosen by the id, in a pseudo-random way.
UringOf(id) == (id[1] + id[2]) % UringCount

PoolSend(t) ==
    LET id == <<t, Min(pool[t].need)>>
        u == UringOf(id)
    IN  /\ pool[t].step = "send" /\ pool[t].need # {}
        /\ Len(idChan[u]) < IdChanSize
        /\ idChan' = [idChan EXCEPT ![u] = Append(@, id)]
        /\ pool' = [pool EXCEPT ![t].need = @ \ {id[2]}]
        /\ UNCHANGED <<clientVars, caches, jobVars, idMap, ring, held, done, upd>>

\* The number of references to a Job: those in sub_id_to_job, those that uring
\* threads have taken from there and that of its pool thread.
References(t) ==
    Cardinality({id \in idMap : id[1] = t})
        + Cardinality({u \in Urings : held[u] # None /\ held[u][1] = t})
        + Cardinality({t} \cap DOMAIN pool)

\* Mutant: the pool thread leaves the Job to the uring threads.
PoolEndForgets(t) ==
    /\ pool[t].step = "send" /\ pool[t].need = {}
    /\ pool' = Without(pool, t)
    /\ UNCHANGED <<clientVars, caches, jobVars, uringVars, done, upd>>

\* recycle_job_object: whoever drops the last reference clears the Job and puts
\* it back.
PoolEnd(t) ==
    /\ pool[t].step = "send" /\ pool[t].need = {}
    /\ pool' = Without(pool, t)
    /\ IF References(t) = 1 THEN jobs' = Without(jobs, t) /\ free' = free + 1
                              ELSE UNCHANGED <<jobs, free>>
    /\ UNCHANGED <<clientVars, caches, pf, queue, uringVars, done, upd>>

-----------------------------------------------------------------------------
(* The uring threads. *)

\* uring_loop submits a read for each id it receives; it finds its Job in
\* sub_id_to_job.
UringSubmit(u) ==
    /\ held[u] = None /\ idChan[u] # <<>>
    /\ ring' = [ring EXCEPT ![u] = @ \cup {Head(idChan[u])}]
    /\ idChan' = [idChan EXCEPT ![u] = Tail(@)]
    /\ UNCHANGED <<clientVars, caches, jobVars, pool, idMap, held, done, upd>>

\* Reads complete in any order.  uring_finish_sub_job puts the entry into the
\* cache of the Job ...
UringFinish(u) ==
    \E id \in ring[u] :
        /\ held[u] = None
        /\ ring' = [ring EXCEPT ![u] = @ \ {id}]
        /\ idMap' = idMap \ {id}
        /\ held' = [held EXCEPT ![u] = id]
        /\ caches' = [caches EXCEPT ![jobs[id[1]].cache][ShardOf(id)] = Insert(@, PosOf(id))]
        /\ UNCHANGED <<clientVars, jobVars, pool, idChan, done, upd>>

\* ... and counts down, which may block on the channel to the updater.
UringCountDown(u) ==
    LET t == held[u][1]
        s == ShardOf(held[u])
        last == References(t) = 1
    IN  /\ held[u] # None
        /\ CountDown(t, s)
        /\ jobs' = IF last THEN Without(jobs, t) ELSE CountedDown(t, s)
        /\ free' = IF last THEN free + 1 ELSE free
        /\ held' = [held EXCEPT ![u] = None]
        /\ UNCHANGED <<clientVars, caches, pf, queue, pool, idMap, idChan, ring, upd>>

-----------------------------------------------------------------------------
(* The updaters, as far as they use tasks and caches. *)

UpdaterReceive(s) ==
    /\ done[s] # <<>>
    /\ done' = [done EXCEPT ![s] = Tail(@)]
    /\ upd' = [upd EXCEPT ![s].ready = @ \cup {Head(done[s])}]
    /\ UNCHANGED <<clientVars, caches, jobVars, pool, uringVars>>

\* run_task, in the order of task ids; read_entry goes elsewhere for what the
\* cache does not have.
UpdaterRun(s) ==
    LET t == upd[s].next
    IN  /\ t \in upd[s].ready
        /\ upd' = [upd EXCEPT ![s] = [next |-> t + 1, ready |-> @.ready \ {t},
                                      cache |-> IF IsFirst(t) THEN hub[HeightOf(t)] ELSE @.cache]]
        /\ UNCHANGED <<clientVars, caches, jobVars, pool, uringVars, done>>

-----------------------------------------------------------------------------
PoolStep(t) ==
    PoolEmptyShard(t) \/ PoolClaim(t) \/ PoolTakeFromBuffer(t) \/ PoolLeaveToUring(t)
        \/ PoolSend(t) \/ PoolEnd(t)
UringStep(u) == UringSubmit(u) \/ UringFinish(u) \/ UringCountDown(u)
UpdaterStep(s) == UpdaterReceive(s) \/ UpdaterRun(s)

Next ==
    \/ AllocateCache \/ PutBlock \/ FlushBlocks
    \/ \E r \in ClientReads : ClientRead(r[1], r[2], r[3])
    \/ RunTask \/ PoolStart
    \/ \E t \in DOMAIN pool : PoolStep(t)
    \/ \E u \in Urings : UringStep(u)
    \/ \E s \in Shards : UpdaterStep(s)

Spec == Init /\ [][Next]_vars

\* The threads run, and submitted reads complete; the client does what it likes.
FairSpec ==
    /\ Spec
    /\ WF_vars(RunTask) /\ WF_vars(PoolStart)
    /\ \A t \in Tasks : WF_vars(t \in DOMAIN pool /\ PoolStep(t))
    /\ \A u \in Urings : WF_vars(UringStep(u))
    /\ \A s \in Shards : WF_vars(UpdaterStep(s))

-----------------------------------------------------------------------------
\* A lookup that hits gives the bytes of the entry at that position, also in a
\* cache that was cleared and filled again and in buffers that were used before.
HitsAreExact ==
    \A c \in DOMAIN caches, s \in Shards :
        \A p \in DOMAIN caches[c][s].posMap :
            Hit(caches[c][s], p) => Lookup(caches[c][s], p) = EntryBz(p)

\* The sub-jobs that are not through: not yet handled by the pool, left to a
\* uring thread, or just taken out of sub_id_to_job.
Unfinished(t) ==
    {<<t, i>> : i \in {j \in 1..Len(Reads(t)) :
        \/ t \in DOMAIN pool /\ pool[t].step # "send" /\ (pool[t].step # "empty" => j >= pool[t].i)
        \/ <<t, j>> \in idMap
        \/ \E u \in Urings : held[u] = <<t, j>>}}

\* When an updater has been told of a task, every entry of the task in its shard
\* is in the cache of the block, or known to be fetched by another task, until
\* the updater has run it: the cache is not cleared under it.  It is told of each
\* task once.
DoneMeansFetched ==
    \A s \in Shards :
        LET told == upd[s].ready \cup {done[s][i] : i \in 1..Len(done[s])}
        IN  /\ Cardinality(told) = Cardinality(upd[s].ready) + Len(done[s])
            /\ \A t \in told :
                /\ t >= upd[s].next
                /\ \A id \in {<<t, i>> : i \in 1..Len(Reads(t))} : ShardOf(id) = s =>
                     id \notin Unfinished(t)
                       /\ ~Missing(caches[hub[HeightOf(t)]][s], PosOf(id))

\* Every block that was started is prefetched and run by all updaters, although
\* Jobs, threads and channels are few.
BlocksRun == []<>(\A h \in DOMAIN hub : Reported(h))
=============================================================================
