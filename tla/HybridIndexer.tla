--------------------------- MODULE HybridIndexer ---------------------------
(***************************************************************************)
(* The hybrid indexer of one shard (indexer/hybrid/): each unit keeps its  *)
(* records sorted in a temporary file, an overlay of what changed since    *)
(* the file was written, and per-height caches of what lookups found in    *)
(* the file.  Three threads use it, each call under the unit's mutex:      *)
(*   - the updater, which looks entries up and makes the add_kv, erase_kv  *)
(*     and change_kv calls of an operation one after the other;            *)
(*   - the prefetcher, which looks up (warms) entries of this block and of *)
(*     the next one;                                                       *)
(*   - the merger, which rewrites the files of the units one by one.       *)
(*                                                                         *)
(* A record is a pair <<k, v>>: k the 64 bits of the key hash behind the   *)
(* unit's 16, v the entry, which has one serial number and one position    *)
(* and is named by its serial number here.  The region of a temporary file *)
(* that belongs to a unit is the sequence of its records.                  *)
(***************************************************************************)
EXTENDS Integers, Sequences, FiniteSets, TLC

LOCAL INSTANCE FiniteSetsExt
LOCAL INSTANCE SequencesExt

CONSTANTS
  Units,          \* the units of the shard: 0 .. n - 1
  Keys,           \* keys of one unit; key 0 is the unit's sentry
  InitialKeys,    \* the keys that recovery finds in each unit
  BucketSpan,     \* keys that share the 80 bits the indexer knows
  TruncSpan,      \* values of k with the same upper 32 bits
  PageSize,       \* PAGE_SIZE: records in a page
  MergeThres, MergeRatio, MergeDiv,   \* when a merge starts
  KeepRange,      \* KEEP_RANGE: heights a cache is kept for
  Lead,           \* heights the prefetcher may be ahead of the updater
  WarmKeys,       \* bound: keys the prefetcher looks up
  MaxHeight, MaxSN   \* bounds: blocks and entries

ASSUME ConstAssumption ==
  /\ 0 \in InitialKeys /\ InitialKeys \subseteq Keys /\ Keys \subseteq Nat
  /\ BucketSpan \in Nat \ {0} /\ TruncSpan \in Nat \ {0}
  /\ PageSize \in Nat \ {0} /\ Lead \in 0 .. KeepRange

VARIABLES
  region,      \* region[u]: the unit's part of its temporary file
  newKV,       \* Overlay.new_kv of each unit
  erased,      \* Overlay.erased of each unit
  cache,       \* IndexCacheMap of each unit: height -> IndexCache
  activeBits,  \* the serial numbers that are active
  size,        \* sizes[shard_id]
  changes,     \* change_counts[shard_id]
  merging,     \* the merger: the unit it merges next, -1 if it waits
  height,      \* the block the updater works on
  calls,       \* the indexer calls the updater still makes for its operation
  live,        \* live[u][key]: the entry of the key in the updater's log
  nextSN       \* Updater.sn_end

unitVars == <<region, newKV, erased>>
shardVars == <<activeBits, size, changes>>
updaterVars == <<height, calls, live, nextSN>>
vars == <<unitVars, cache, shardVars, merging, updaterVars>>

K(key) == key \div BucketSpan
K32(k) == k \div TruncSpan
Ks == {K(key) : key \in Keys}

Before(r, s) == r[1] < s[1] \/ (r[1] = s[1] /\ r[2] < s[2])
Sorted(records) == SetToSortSeq(records, Before)

\* Recovery added the active entries and dumped them to the file.
Init ==
  /\ live = [u \in Units |-> [key \in InitialKeys |->
                u * Cardinality(InitialKeys)
                + Cardinality({j \in InitialKeys : j < key})]]
  /\ nextSN = Cardinality(Units) * Cardinality(InitialKeys)
  /\ region = [u \in Units |-> Sorted({<<K(key), live[u][key]>> : key \in InitialKeys})]
  /\ newKV = [u \in Units |-> {}] /\ erased = [u \in Units |-> {}]
  /\ cache = [u \in Units |-> << >>]
  /\ activeBits = 0 .. nextSN - 1
  /\ size = nextSN /\ changes = nextSN
  /\ merging = -1 /\ height = 1 /\ calls = << >>
-----------------------------------------------------------------------------
(* Lookups in the file.                                                    *)

PageCount(u) == (Len(region[u]) + PageSize - 1) \div PageSize
FirstK(u, page) == region[u][page * PageSize + 1][1]

\* The index of the file has the first k of every fourth page in full and of
\* the pages between them only the upper half.
FindPageId(u, k) ==
  LET id64 == Max({i \in 0 .. (PageCount(u) - 1) \div 4 : FirstK(u, 4 * i) <= k})
      subs == {s \in 1 .. 3 : 4 * id64 + s < PageCount(u)}
  IN 4 * id64 + Cardinality({s \in subs : K32(k) >= K32(FirstK(u, 4 * id64 + s))})

\* The pages are read backwards from there to the end of the previous bucket.
GetFromFile(u, k, getPrev) ==
  LET last == Min({Len(region[u]), (FindPageId(u, k) + 1) * PageSize})
      read == {region[u][i] : i \in 1 .. last}
      smaller == {r[1] : r \in {s \in read : getPrev /\ s[1] < k}}
      prev == IF smaller = {} THEN 0 ELSE Max(smaller)
  IN [prev |-> prev,
      own |-> {r[2] : r \in {s \in read : s[1] = k}},
      prevs |-> {r[2] : r \in {s \in read : smaller # {} /\ s[1] = prev}}]

-----------------------------------------------------------------------------
(* The caches of what lookups found in the file.                           *)

NoCache == [without |-> << >>, with |-> << >>]

\* IndexCache::add: a list with at most one value, of k itself, is kept
\* without its predecessor.
AddToCache(c, k, found) ==
  IF found.prevs = {} /\ Cardinality(found.own) <= 1
  THEN [c EXCEPT !.without = (k :> found.own) @@ @]
  ELSE [c EXCEPT !.with = (k :> found) @@ @]

\* The heights that make room for a new one: one of the old ones, if any, in the
\* order of a hash map, and never height 0.
Victims(c, h) ==
  LET old == {g \in DOMAIN c : g < h - KeepRange}
  IN IF old = {} THEN {{}} ELSE {{g} \ {0} : g \in old}

CacheAdd(u, h, k, found) ==
  IF h \in DOMAIN cache[u]
  THEN cache' = [cache EXCEPT ![u][h] = AddToCache(@, k, found)]
  ELSE \E gone \in Victims(cache[u], h) :
         cache' = [cache EXCEPT ![u] =
           [g \in (DOMAIN @ \ gone) \cup {h} |->
              IF g = h THEN AddToCache(NoCache, k, found) ELSE @[g]]]

HitWithout(u, h, k) ==
  h \in DOMAIN cache[u]
    /\ k \in DOMAIN cache[u][h].without \cup DOMAIN cache[u][h].with

LookupWithout(u, h, k) ==
  IF k \in DOMAIN cache[u][h].without THEN cache[u][h].without[k]
  ELSE cache[u][h].with[k].own

HitWith(u, h, k) == h \in DOMAIN cache[u] /\ k \in DOMAIN cache[u][h].with

-----------------------------------------------------------------------------
(* for_each_value and for_each_adjacent_value: the file, or the cache, and *)
(* the overlay.  A negative height bypasses the cache.                     *)

OverlayOf(u, k) == {r[2] : r \in {s \in newKV[u] : s[1] = k}}

PrevKeys(u, k) == {r[1] : r \in {s \in newKV[u] : s[1] < k}}

ForEachValue(u, h, k) ==
  LET own == IF HitWithout(u, h, k) THEN LookupWithout(u, h, k)
             ELSE GetFromFile(u, k, FALSE).own
  IN (own \cup OverlayOf(u, k)) \ erased[u]

\* Mutant: a predecessor in the overlay only counts if it is the closer one.
AdjacentNoErased(u, h, k) ==
  LET found == IF HitWith(u, h, k) THEN cache[u][h].with[k]
               ELSE GetFromFile(u, k, TRUE)
      smaller == PrevKeys(u, k)
      useNew == smaller # {} /\ found.prev <= Max(smaller)
      prev == IF useNew THEN Max(smaller) ELSE found.prev
      prevs == IF ~ useNew THEN found.prevs
               ELSE OverlayOf(u, prev) \cup
                      (IF found.prev = prev THEN found.prevs ELSE {})
  IN {<<k, v>> : v \in (found.own \cup OverlayOf(u, k)) \ erased[u]}
       \cup {<<prev, v>> : v \in prevs \ erased[u]}

ForEachAdjacentValue(u, h, k) ==
  LET found == IF HitWith(u, h, k) THEN cache[u][h].with[k]
               ELSE GetFromFile(u, k, TRUE)
      allErased == found.prevs \subseteq erased[u]
      smaller == PrevKeys(u, k)
      useNew == smaller # {} /\ (found.prev <= Max(smaller) \/ allErased)
      prev == IF useNew THEN Max(smaller) ELSE found.prev
      prevs == IF ~ useNew THEN found.prevs
               ELSE OverlayOf(u, prev) \cup
                      (IF found.prev = prev /\ ~ allErased THEN found.prevs ELSE {})
  IN {<<k, v>> : v \in (found.own \cup OverlayOf(u, k)) \ erased[u]}
       \cup {<<prev, v>> : v \in prevs \ erased[u]}

\* What a lookup leaves in the cache.
CacheValue(u, h, k) ==
  IF h < 0 \/ HitWithout(u, h, k) THEN UNCHANGED cache
  ELSE CacheAdd(u, h, k, GetFromFile(u, k, FALSE))

CacheAdjacent(u, h, k) ==
  IF h < 0 \/ HitWith(u, h, k) THEN UNCHANGED cache
  ELSE CacheAdd(u, h, k, GetFromFile(u, k, TRUE))

-----------------------------------------------------------------------------
(* The updater.                                                            *)

Call(u, key, old, new) == [unit |-> u, k |-> K(key), old |-> old, new |-> new]
None == -1

MayRun == calls = << >> /\ nextSN + 2 <= MaxSN
PrevKey(u, key) == Max({j \in DOMAIN live[u] : j < key})

WriteKV(u, key) ==
  /\ MayRun /\ key \in DOMAIN live[u] \ {0}
  /\ CacheValue(u, height, K(key))
  /\ calls' = <<Call(u, key, live[u][key], nextSN)>>
  /\ live' = [live EXCEPT ![u][key] = nextSN]
  /\ nextSN' = nextSN + 1
  /\ UNCHANGED <<unitVars, shardVars, merging, height>>

CreateKV(u, key) ==
  /\ MayRun /\ key \notin DOMAIN live[u]
  /\ CacheAdjacent(u, height, K(key))
  /\ LET prev == PrevKey(u, key) IN
       /\ calls' = <<Call(u, key, None, nextSN),
                     Call(u, prev, live[u][prev], nextSN + 1)>>
       /\ live' = [live EXCEPT ![u] = [@ EXCEPT ![prev] = nextSN + 1]
                                        @@ (key :> nextSN)]
  /\ nextSN' = nextSN + 2
  /\ UNCHANGED <<unitVars, shardVars, merging, height>>

DeleteKV(u, key) ==
  /\ MayRun /\ key \in DOMAIN live[u] \ {0}
  /\ CacheAdjacent(u, height, K(key))
  /\ LET prev == PrevKey(u, key) IN
       /\ calls' = <<Call(u, key, live[u][key], None),
                     Call(u, prev, live[u][prev], nextSN)>>
       /\ live' = [live EXCEPT ![u] =
                     [j \in DOMAIN @ \ {key} |-> IF j = prev THEN nextSN ELSE @[j]]]
  /\ nextSN' = nextSN + 1
  /\ UNCHANGED <<unitVars, shardVars, merging, height>>

\* compact() appends an entry again that key_exists() says is active.
Compact(u, key) ==
  /\ MayRun /\ key \in DOMAIN live[u]
  /\ live[u][key] \in activeBits
  /\ \A w \in Units : \A j \in DOMAIN live[w] : live[u][key] <= live[w][j]
  /\ calls' = <<Call(u, key, live[u][key], nextSN)>>
  /\ live' = [live EXCEPT ![u][key] = nextSN]
  /\ nextSN' = nextSN + 1
  /\ UNCHANGED <<unitVars, cache, shardVars, merging, height>>

\* Overlay::erase_kv
Erase(u, k, old) ==
  /\ newKV' = [newKV EXCEPT ![u] = @ \ {<<k, old>>}]
  /\ erased' = [erased EXCEPT ![u] = @ \cup {old}]

AddKV(c) ==
  /\ newKV' = [newKV EXCEPT ![c.unit] = @ \cup {<<c.k, c.new>>}]
  /\ activeBits' = activeBits \cup {c.new}
  /\ size' = size + 1 /\ changes' = changes + 1
  /\ UNCHANGED <<region, erased>>

EraseKV(c) ==
  /\ Erase(c.unit, c.k, c.old)
  /\ activeBits' = activeBits \ {c.old}
  /\ size' = size - 1 /\ changes' = changes + 1
  /\ UNCHANGED region

ChangeKV(c) ==
  /\ newKV' = [newKV EXCEPT ![c.unit] = (@ \ {<<c.k, c.old>>}) \cup {<<c.k, c.new>>}]
  /\ erased' = [erased EXCEPT ![c.unit] = @ \cup {c.old}]
  /\ activeBits' = (activeBits \ {c.old}) \cup {c.new}
  /\ changes' = changes + 2
  /\ UNCHANGED <<region, size>>

IndexerCall ==
  /\ calls # << >>
  /\ LET c == Head(calls) IN
       \/ c.old = None /\ AddKV(c)
       \/ c.new = None /\ EraseKV(c)
       \/ c.old # None /\ c.new # None /\ ChangeKV(c)
  /\ calls' = Tail(calls)
  /\ UNCHANGED <<cache, merging, height, live, nextSN>>

NextBlock ==
  /\ calls = << >> /\ height < MaxHeight
  /\ height' = height + 1
  /\ UNCHANGED <<unitVars, cache, shardVars, merging, calls, live, nextSN>>

-----------------------------------------------------------------------------
(* The prefetcher: for_each().                                             *)

WarmUp(u, key, h) ==
  /\ \/ CacheAdjacent(u, h, K(key))   \* OP_CREATE, OP_DELETE
     \/ CacheValue(u, h, K(key))      \* OP_WRITE
  /\ UNCHANGED <<unitVars, shardVars, merging, updaterVars>>

-----------------------------------------------------------------------------
(* The merger.                                                             *)

\* The records of the file that are not erased and those of the overlay, merged.
Merged(u) ==
  Sorted({region[u][i] : i \in {j \in 1 .. Len(region[u]) : region[u][j][2] \notin erased[u]}}
         \cup newKV[u])

WaitForLargeEnough ==
  /\ merging = -1
  /\ changes * MergeDiv > size * MergeRatio /\ changes > MergeThres
  /\ changes' = 0 /\ merging' = 0
  /\ UNCHANGED <<unitVars, cache, activeBits, size, updaterVars>>

\* Mutant: the caches outlive the file they describe.
MergeKeepsCache ==
  /\ merging >= 0
  /\ region' = [region EXCEPT ![merging] = Merged(merging)]
  /\ newKV' = [newKV EXCEPT ![merging] = {}]
  /\ erased' = [erased EXCEPT ![merging] = {}]
  /\ merging' = IF merging + 1 \in Units THEN merging + 1 ELSE -1
  /\ UNCHANGED <<cache, shardVars, updaterVars>>

Merge ==
  /\ merging >= 0
  /\ region' = [region EXCEPT ![merging] = Merged(merging)]
  /\ newKV' = [newKV EXCEPT ![merging] = {}]
  /\ erased' = [erased EXCEPT ![merging] = {}]
  /\ cache' = [cache EXCEPT ![merging] = << >>]
  /\ merging' = IF merging + 1 \in Units THEN merging + 1 ELSE -1
  /\ UNCHANGED <<shardVars, updaterVars>>

-----------------------------------------------------------------------------
Next ==
  \/ \E u \in Units, key \in Keys :
       WriteKV(u, key) \/ CreateKV(u, key) \/ DeleteKV(u, key) \/ Compact(u, key)
  \/ \E u \in Units, key \in WarmKeys, h \in height .. height + Lead : WarmUp(u, key, h)
  \/ IndexerCall \/ NextBlock \/ WaitForLargeEnough \/ Merge

Spec == Init /\ [][Next]_vars
-----------------------------------------------------------------------------
(* Properties.                                                             *)

\* The records that a unit holds: those of the file that are not erased, and
\* those of the overlay.
Content(u) ==
  {r \in {region[u][i] : i \in 1 .. Len(region[u])} : r[2] \notin erased[u]}
    \cup newKV[u]

\* What RefUnit answers: the records under k and those under the closest
\* smaller k that has any.
RefValues(u, k) == {r[2] : r \in {s \in Content(u) : s[1] = k}}
RefAdjacentValues(u, k) ==
  {r \in Content(u) : r[1] <= k /\ \A s \in Content(u) : ~ (r[1] < s[1] /\ s[1] < k)}

ContentIsLive ==
  /\ \A u \in Units : Content(u) = {<<K(key), live[u][key]>> : key \in DOMAIN live[u]}
  /\ activeBits = UNION {{live[u][key] : key \in DOMAIN live[u]} : u \in Units}
  /\ size = Cardinality(activeBits)

\* Between two operations of the updater, whatever the merger and the
\* prefetcher did meanwhile, the indexer holds exactly the entries that the
\* updater considers current, and size and active bits agree with that.  A
\* lookup that bypasses the caches (a read of the latest state) finds what
\* RefUnit would find: in particular the predecessor when every record of the
\* file's previous bucket has been erased.
FileLookupsExact ==
  calls = << >> =>
    /\ ContentIsLive
    /\ \A u \in Units, k \in Ks :
         /\ ForEachValue(u, -1, k) = RefValues(u, k)
         /\ ForEachAdjacentValue(u, -1, k) = RefAdjacentValues(u, k)

\* The updater's lookups, which use what the prefetcher and its own earlier
\* lookups left in the cache of this block, find the same.  Left out are
\* lookups with predecessor of a key for which the file has several records:
\* IndexCache::add keeps what for_each_value found of them as if it had the
\* predecessor.  And the caches of a unit do not pile up while no merge clears
\* them.
CachedLookupsExact ==
  /\ \A u \in Units : Cardinality(DOMAIN cache[u]) <= KeepRange + 1 + Lead
  /\ calls = << >> =>
    \A u \in Units, k \in Ks :
      /\ ForEachValue(u, height, k) = RefValues(u, k)
      /\ Cardinality(GetFromFile(u, k, FALSE).own) <= 1 =>
           ForEachAdjacentValue(u, height, k) = RefAdjacentValues(u, k)
=============================================================================
