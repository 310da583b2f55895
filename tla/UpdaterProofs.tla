--------------------------- MODULE UpdaterProofs ---------------------------
(***************************************************************************)
(* The shard's data plane, for every number of sentries, keys, values and  *)
(* jobs in the ring: no active entry is ever below sn_start, and the       *)
(* deactivation lists in the log always agree with the indexer.            *)
(***************************************************************************)
EXTENDS Updater, FiniteSetTheorems, SequenceTheorems, TLAPS

\* Between the two halves of create_kv: the two new entries, not indexed yet.
CreateOK ==
  pc = "index" =>
    /\ oldPos \in ActivePos
    /\ log[snEnd].dsn = {}
    /\ log[snEnd + 1].key = log[oldPos].key
    /\ log[snEnd + 1].dsn = {oldPos}

\* Every sentry keeps an active entry.
SentriesActive == \A s \in Sentries : \E p \in ActivePos : log[p].key = s

IInv == /\ TypeOK /\ CreateOK /\ SentriesActive /\ RingCoversPassed
        /\ NoActiveBelowStart /\ ReplayMatchesIndex

-----------------------------------------------------------------------------
\* The ring is smaller than the number of sentries, so the compactor always has
\* an active entry at or above filePos.
LEMMA ActiveAhead ==
  ASSUME TypeOK, SentriesActive, RingCoversPassed
  PROVE  \E p \in ActivePos : filePos <= p
PROOF
<1> SUFFICES ASSUME \A p \in ActivePos : p < filePos
             PROVE  FALSE
  <2>1. \A p \in ActivePos : p \in Int /\ filePos \in Int
    BY DEF TypeOK, ActivePos, LogEnd
  <2> QED
    BY <2>1
<1> DEFINE S == {i \in 1 .. Len(ring) : log[ring[i]].key \in Sentries}
           f == [i \in S |-> log[ring[i]].key]
<1>1. Len(ring) \in Nat /\ RingSize \in Nat /\ Len(ring) <= RingSize
  BY ConstAssumption, LenProperties DEF TypeOK
<1>2. IsFiniteSet(1 .. Len(ring)) /\ Cardinality(1 .. Len(ring)) = Len(ring)
  <2>1. 1 \in Int /\ Len(ring) \in Int
    BY <1>1
  <2>2. /\ IsFiniteSet(1 .. Len(ring))
        /\ Cardinality(1 .. Len(ring))
             = IF 1 > Len(ring) THEN 0 ELSE Len(ring) - 1 + 1
    BY <2>1, FS_Interval, Zenon
  <2> QED
    BY <1>1, <2>2
<1>3. IsFiniteSet(S) /\ Cardinality(S) <= Len(ring)
  BY <1>2, FS_Subset
<1>4. f \in [S -> Sentries]
  OBVIOUS
<1>5. \A s \in Sentries : \E i \in S : f[i] = s
  BY DEF SentriesActive, RingCoversPassed
<1>6. f \in Surjection(S, Sentries)
  BY <1>4, <1>5 DEF Surjection
<1>7. SentryCount <= Cardinality(S)
  BY <1>3, <1>6, FS_Surjection DEF SentryCount
<1>8. Cardinality(S) \in Nat
  BY <1>3, FS_CardinalityType
<1> HIDE DEF S
<1> QED
  BY <1>1, <1>3, <1>7, <1>8, RingAssumption, ConstAssumption
-----------------------------------------------------------------------------
\* What an operation that appends one entry and retires the entries of D does
\* (write_kv, delete_kv and compact): stated once, for all three.
AppendsEntry(e, D) ==
  /\ pc # "index" /\ pc' # "index"
  /\ e \in Entry /\ e.dsn = D /\ D \subseteq ActivePos
  /\ log' = Append1(e)
  /\ index' = (index \ {<<K80[log[d].key], d>> : d \in D})
                \cup {<<K80[e.key], snEnd>>}
  /\ snEnd' = snEnd + 1
  /\ \A d \in D : log[d].key \in Sentries => e.key = log[d].key

\* The log keeps its old entries and gets the new one.
LEMMA AppendLog ==
  ASSUME TypeOK, NEW e, NEW D, AppendsEntry(e, D)
  PROVE  /\ LogEnd = snEnd /\ LogEnd' = snEnd + 1
         /\ log' \in [0 .. snEnd -> Entry]
         /\ log'[snEnd] = e
         /\ \A n \in 0 .. snEnd - 1 : log'[n] = log[n]
         /\ snEnd \in Nat
PROOF
BY DEF AppendsEntry, Append1, LogEnd, TypeOK

\* The new entry is active, the entries of D are not, the others are as before.
LEMMA AppendActive ==
  ASSUME TypeOK, NEW e, NEW D, AppendsEntry(e, D)
  PROVE  /\ ActivePos' = (ActivePos \ D) \cup {snEnd}
         /\ \A pair \in index' : /\ pair \in Nat \X (0 .. snEnd)
                                 /\ pair[1] = K80[log'[pair[2]].key]
PROOF
<1>0. /\ log'[snEnd] = e /\ snEnd \in Nat
      /\ \A n \in 0 .. snEnd - 1 : log'[n] = log[n]
  BY AppendLog
<1>1. \A p \in 0 .. snEnd - 1 :
        <<K80[log'[p].key], p>> \in index' <=> <<K80[log[p].key], p>> \in index /\ p \notin D
  BY <1>0 DEF AppendsEntry
<1>2. <<K80[log'[snEnd].key], snEnd>> \in index'
  BY <1>0 DEF AppendsEntry
<1>3. ActivePos' = (ActivePos \ D) \cup {snEnd}
  <2>1. ActivePos' = {p \in 0 .. snEnd : <<K80[log'[p].key], p>> \in index'}
    BY <1>0 DEF ActivePos, AppendsEntry
  <2>2. \A p \in 0 .. snEnd - 1 : p \in 0 .. snEnd /\ p # snEnd
    BY <1>0
  <2>3. \A p \in 0 .. snEnd : p = snEnd \/ p \in 0 .. snEnd - 1
    BY <1>0
  <2>4. snEnd \in 0 .. snEnd
    BY <1>0
  <2> QED
    BY <1>1, <1>2, <2>1, <2>2, <2>3, <2>4 DEF ActivePos
<1>4. K80[e.key] \in Nat
  BY ConstAssumption DEF AppendsEntry, Entry
<1>5. ASSUME NEW pair \in index'
      PROVE  pair \in Nat \X (0 .. snEnd) /\ pair[1] = K80[log'[pair[2]].key]
  <2>1. CASE pair = <<K80[e.key], snEnd>>
    BY <2>1, <1>0, <1>4
  <2>2. CASE pair \in index
    BY <2>2, <1>0 DEF TypeOK
  <2> QED
    BY <2>1, <2>2 DEF AppendsEntry
<1> QED
  BY <1>3, <1>5

\* An append leaves the sentries active, or re-appends the sentry it deactivates:
\* updater.rs never erases a sentry from the indexer.
LEMMA AppendSentries ==
  ASSUME TypeOK, SentriesActive, NEW e, NEW D, AppendsEntry(e, D)
  PROVE  SentriesActive'
PROOF
<1> SUFFICES ASSUME NEW s \in Sentries
             PROVE  \E p \in ActivePos' : log'[p].key = s
  BY DEF SentriesActive
<1>1. PICK p \in ActivePos : log[p].key = s
  BY DEF SentriesActive
<1>2. p \in 0 .. snEnd - 1
  BY DEF ActivePos
<1>3. /\ log'[snEnd] = e /\ log'[p] = log[p]
      /\ ActivePos' = (ActivePos \ D) \cup {snEnd}
  BY <1>2, AppendLog, AppendActive
<1>4. CASE p \in D
  <2>1. log'[snEnd].key = s
    BY <1>1, <1>3, <1>4 DEF AppendsEntry
  <2> QED
    BY <2>1, <1>3
<1>5. CASE p \notin D
  BY <1>1, <1>3, <1>5
<1> QED
  BY <1>4, <1>5

\* An append whose deactivation list is what it takes out of the indexer keeps
\* the lists and the indexer in agreement.
LEMMA AppendReplay ==
  ASSUME TypeOK, ReplayMatchesIndex, NEW e, NEW D, AppendsEntry(e, D)
  PROVE  ReplayMatchesIndex'
PROOF
<1>1. /\ snEnd \in Nat /\ snEnd' - 1 = snEnd
      /\ log'[snEnd].dsn = D
      /\ \A n \in 0 .. snEnd - 1 : log'[n] = log[n]
      /\ ActivePos' = (ActivePos \ D) \cup {snEnd}
  BY AppendLog, AppendActive DEF AppendsEntry
<1>2. \A d \in D : d \in ActivePos /\ d \in 0 .. snEnd - 1
  BY DEF AppendsEntry, ActivePos
<1>3. \A m \in 0 .. snEnd - 1 : snEnd \notin log[m].dsn
  BY <1>1 DEF ReplayMatchesIndex
<1>4. SUFFICES ASSUME NEW n \in 0 .. snEnd
      PROVE  /\ n \in ActivePos' <=> \A m \in 0 .. snEnd : n \notin log'[m].dsn
             /\ \A l, m \in 0 .. snEnd :
                  n \in log'[l].dsn /\ n \in log'[m].dsn => l = m
             /\ \A d \in log'[n].dsn : d < n
  BY <1>1 DEF ReplayMatchesIndex
<1>5. CASE n = snEnd
  BY <1>1, <1>2, <1>3, <1>5
<1>6. CASE n \in 0 .. snEnd - 1
  <2>1. n \in ActivePos' <=> \A m \in 0 .. snEnd : n \notin log'[m].dsn
    BY <1>1, <1>6 DEF ReplayMatchesIndex
  <2>2. \A l, m \in 0 .. snEnd : n \in log'[l].dsn /\ n \in log'[m].dsn => l = m
    BY <1>1, <1>2, <1>6 DEF ReplayMatchesIndex
  <2>3. \A d \in log'[n].dsn : d < n
    BY <1>1, <1>6 DEF ReplayMatchesIndex
  <2> QED
    BY <2>1, <2>2, <2>3
<1> QED
  BY <1>1, <1>5, <1>6
-----------------------------------------------------------------------------
\* The state that init_dir leaves satisfies the invariant.
LEMMA InitIInv == Init => IInv
PROOF
<1> SUFFICES ASSUME Init PROVE IInv
  OBVIOUS
<1> USE DEF Init
<1>1. /\ SentryCount \in Nat \ {0} /\ DOMAIN SentryHash = 0 .. SentryCount - 1
      /\ RingSize \in Nat
  BY ConstAssumption
<1>2. LogEnd = SentryCount
  BY DEF LogEnd
<1>3. \A n \in 0 .. SentryCount - 1 : SentryHash[n] \in Hashes
  BY <1>1 DEF Sentries, Hashes
<1>4. \A n \in 0 .. SentryCount - 1 : SentryEntry(n) \in Entry
  BY <1>1, <1>3 DEF SentryEntry, Entry
<1>5. \A n \in 0 .. SentryCount - 1 : K80[SentryHash[n]] \in Nat
  BY <1>3, ConstAssumption
<1>6. \A n \in 0 .. SentryCount - 1 :
        log[n] = SentryEntry(n) /\ log[n].key = SentryHash[n] /\ log[n].dsn = {}
  BY DEF SentryEntry
<1>7. TypeOK
  <2>1. log \in [0 .. LogEnd - 1 -> Entry]
    BY <1>2, <1>4
  <2>2. \A pair \in index : /\ pair \in Nat \X (0 .. snEnd - 1)
                            /\ pair[1] = K80[log[pair[2]].key]
    BY <1>5, <1>6
  <2>3. ring \in Seq(Nat) /\ Len(ring) = 0
    OBVIOUS
  <2> QED
    BY <1>1, <1>2, <2>1, <2>2, <2>3 DEF TypeOK
<1>8. ActivePos = 0 .. SentryCount - 1
  BY <1>6 DEF ActivePos
<1>9. SentriesActive
  BY <1>1, <1>6, <1>8 DEF SentriesActive, Sentries
<1>10. CreateOK
  BY DEF CreateOK
<1>11. RingCoversPassed /\ NoActiveBelowStart
  BY <1>1, <1>8 DEF RingCoversPassed, NoActiveBelowStart
<1>12. ReplayMatchesIndex
  BY <1>6, <1>8 DEF ReplayMatchesIndex
<1> QED
  BY <1>7, <1>9, <1>10, <1>11, <1>12 DEF IInv

\* The part of the invariant an appending operation can disturb besides the
\* log and the indexer, when it leaves the ring and sn_start alone.
LEMMA AppendKeepsRing ==
  ASSUME TypeOK, RingCoversPassed, NoActiveBelowStart,
         NEW e, NEW D, AppendsEntry(e, D),
         UNCHANGED <<snStart, filePos, ring>>
  PROVE  RingCoversPassed' /\ NoActiveBelowStart'
PROOF
<1>1. ActivePos' = (ActivePos \ D) \cup {snEnd}
  BY AppendActive
<1>2. /\ snEnd \in Nat /\ filePos \in Nat /\ snStart \in Nat
      /\ filePos <= snEnd /\ snStart <= snEnd
  <2>1. LogEnd = snEnd
    BY AppendLog
  <2> QED
    BY <2>1 DEF TypeOK
<1>3. RingCoversPassed'
  BY <1>1, <1>2 DEF RingCoversPassed
<1>4. NoActiveBelowStart'
  BY <1>1, <1>2 DEF NoActiveBelowStart
<1> QED
  BY <1>3, <1>4

\* An append of a well-formed entry keeps the types.
LEMMA AppendType ==
  ASSUME TypeOK, NEW e, NEW D, AppendsEntry(e, D),
         snStart' \in 0 .. snEnd', pc' \in {"idle", "index", "compact"},
         todo' \in 0 .. 2, (pc' = "compact") <=> (todo' > 0),
         ops' \in Nat,
         ring' \in Seq(Nat), returned' \in Nat,
         returned' + Len(ring') = RingSize,
         UNCHANGED <<oldPos, blockStart, flushed, filePos, found>>
  PROVE  TypeOK'
PROOF
<1>1. /\ LogEnd = snEnd /\ LogEnd' = snEnd + 1 /\ snEnd \in Nat
      /\ log' \in [0 .. snEnd -> Entry]
  BY AppendLog
<1>2. \A pair \in index' : /\ pair \in Nat \X (0 .. snEnd)
                           /\ pair[1] = K80[log'[pair[2]].key]
  BY AppendActive
<1>3. snEnd' = snEnd + 1 /\ snEnd' - 1 = snEnd
  BY <1>1 DEF AppendsEntry
<1>4. log' \in [0 .. LogEnd' - 1 -> Entry]
  BY <1>1
<1>5. \A pair \in index' : /\ pair \in Nat \X (0 .. snEnd' - 1)
                           /\ pair[1] = K80[log'[pair[2]].key]
  BY <1>2, <1>3
<1>6. /\ blockStart' \in 0 .. snEnd' /\ flushed' \in 0 .. LogEnd'
      /\ filePos' \in 0 .. flushed' /\ found' \in BOOLEAN
      /\ (found' => filePos' < flushed')
  BY <1>1, <1>3 DEF TypeOK
<1>7. oldPos' \in Nat /\ snEnd' \in Nat
  BY <1>1, <1>3 DEF TypeOK
<1> QED
  BY <1>4, <1>5, <1>6, <1>7 DEF TypeOK
-----------------------------------------------------------------------------
\* An entry found through the indexer is active.
LEMMA IndexedIsActive ==
  ASSUME TypeOK, NEW h, NEW p \in ValuesOf(h)
  PROVE  p \in ActivePos /\ p \in 0 .. snEnd - 1 /\ log[p] \in Entry
         /\ h = K80[log[p].key]
PROOF
<1>1. <<h, p>> \in index
  BY DEF ValuesOf
<1>2. p \in 0 .. snEnd - 1 /\ h = K80[log[p].key]
  BY <1>1 DEF TypeOK
<1>3. p \in 0 .. LogEnd - 1
  BY <1>2 DEF TypeOK, LogEnd
<1> QED
  BY <1>1, <1>2, <1>3 DEF ActivePos, TypeOK

\* What for_each_adjacent_value yields is active.
LEMMA AdjacentIsActive ==
  ASSUME TypeOK, NEW k, NEW p \in AdjacentValues(k)
  PROVE  p \in ActivePos /\ p \in 0 .. snEnd - 1 /\ log[p] \in Entry
PROOF
<1>1. PICK h : p \in ValuesOf(h)
  BY DEF AdjacentValues
<1> QED
  BY <1>1, IndexedIsActive

\* What an operation leaves in pc and todo.
LEMMA ThenCompactType ==
  ASSUME NEW n \in 1 .. 2, ThenCompact(n)
  PROVE  /\ pc' \in {"idle", "compact"} /\ todo' \in 0 .. 2
         /\ (pc' = "compact") <=> (todo' > 0)
PROOF
BY DEF ThenCompact

\* write_kv preserves the invariant.
LEMMA WriteIInv ==
  ASSUME IInv, NEW k \in Keys, NEW v \in Values, WriteKV(k, v)
  PROVE  IInv'
PROOF
<1> USE DEF IInv
<1>1. PICK old \in EntriesOf(k) :
        /\ log' = Append1([key |-> k, next |-> log[old].next, val |-> v,
                           dsn |-> {old}])
        /\ index' = ChangeKV(index, k, old, snEnd)
  BY DEF WriteKV
<1> DEFINE e == [key |-> k, next |-> log[old].next, val |-> v, dsn |-> {old}]
<1>2. /\ old \in ActivePos /\ old \in 0 .. snEnd - 1 /\ log[old] \in Entry
      /\ log[old].key = k
  BY IndexedIsActive DEF EntriesOf
<1>3. e \in Entry
  BY <1>2 DEF Entry, Hashes
<1>4. /\ pc' \in {"idle", "compact"} /\ todo' \in 0 .. 2
      /\ (pc' = "compact") <=> (todo' > 0)
  BY ThenCompactType DEF WriteKV
<1>5. AppendsEntry(e, {old})
  <2>1. {<<K80[log[d].key], d>> : d \in {old}} = {<<K80[k], old>>}
    BY <1>2
  <2> QED
    BY <1>1, <1>2, <1>3, <1>4, <2>1 DEF AppendsEntry, ChangeKV, WriteKV, MayRun
<1> HIDE DEF e
<1>6. TypeOK'
  <2>1. snStart' \in 0 .. snEnd' /\ ops' \in Nat
    BY DEF WriteKV, TypeOK
  <2>2. /\ ring' \in Seq(Nat) /\ returned' \in Nat
        /\ returned' + Len(ring') = RingSize
    BY DEF WriteKV, TypeOK, ringVars
  <2>3. UNCHANGED <<oldPos, blockStart, flushed, filePos, found>>
    BY DEF WriteKV, compactorVars
  <2> QED
    BY <1>4, <1>5, <2>1, <2>2, <2>3, AppendType
<1>7. CreateOK'
  BY <1>4 DEF CreateOK
<1>8. SentriesActive' /\ ReplayMatchesIndex'
  BY <1>5, AppendSentries, AppendReplay
<1>9. RingCoversPassed' /\ NoActiveBelowStart'
  BY <1>5, AppendKeepsRing DEF WriteKV, compactorVars, ringVars
<1> QED
  BY <1>6, <1>7, <1>8, <1>9

\* delete_kv preserves the invariant.
LEMMA DeleteIInv ==
  ASSUME IInv, NEW k \in Keys, DeleteKV(k)
  PROVE  IInv'
PROOF
<1> USE DEF IInv
<1>1. PICK del \in EntriesOf(k), old \in PrevForDelete(k) :
        /\ log' = Append1(Rewritten(log[old], log[del].next, {del, old}))
        /\ index' = ChangeKV(index \ {<<K80[k], del>>}, log[old].key, old, snEnd)
  BY DEF DeleteKV
<1> DEFINE e == Rewritten(log[old], log[del].next, {del, old})
<1>2. /\ del \in ActivePos /\ del \in 0 .. snEnd - 1 /\ log[del] \in Entry
      /\ log[del].key = k
  BY IndexedIsActive DEF EntriesOf
<1>3. /\ old \in ActivePos /\ old \in 0 .. snEnd - 1 /\ log[old] \in Entry
  BY AdjacentIsActive DEF PrevForDelete
<1>4. e \in Entry /\ e.key = log[old].key /\ e.dsn = {del, old}
  BY <1>2, <1>3 DEF Entry, Rewritten
<1>5. AppendsEntry(e, {del, old})
  <2>1. {<<K80[log[d].key], d>> : d \in {del, old}}
          = {<<K80[k], del>>, <<K80[log[old].key], old>>}
    BY <1>2
  <2>2. k \notin Sentries
    BY ConstAssumption
  <2> QED
    BY <1>1, <1>2, <1>3, <1>4, <2>1, <2>2
    DEF AppendsEntry, ChangeKV, DeleteKV, MayRun
<1> HIDE DEF e
<1>6. TypeOK'
  <2>1. snStart' \in 0 .. snEnd' /\ ops' \in Nat
    BY DEF DeleteKV, TypeOK
  <2>2. /\ ring' \in Seq(Nat) /\ returned' \in Nat
        /\ returned' + Len(ring') = RingSize
    BY DEF DeleteKV, TypeOK, ringVars
  <2>3. UNCHANGED <<oldPos, blockStart, flushed, filePos, found>>
    BY DEF DeleteKV, compactorVars
  <2>4. /\ pc' \in {"idle", "index", "compact"} /\ todo' \in 0 .. 2
        /\ (pc' = "compact") <=> (todo' > 0)
    BY DEF DeleteKV, TypeOK
  <2> QED
    BY <1>5, <2>1, <2>2, <2>3, <2>4, AppendType
<1>7. CreateOK'
  BY DEF CreateOK, DeleteKV, MayRun
<1>8. SentriesActive' /\ ReplayMatchesIndex'
  BY <1>5, AppendSentries, AppendReplay
<1>9. RingCoversPassed' /\ NoActiveBelowStart'
  BY <1>5, AppendKeepsRing DEF DeleteKV, compactorVars, ringVars
<1> QED
  BY <1>6, <1>7, <1>8, <1>9
-----------------------------------------------------------------------------
\* The appends of create_kv, before it touches the indexer, preserve it.
LEMMA CreateIInv ==
  ASSUME IInv, NEW k \in Keys, NEW v \in Values, CreateKV(k, v)
  PROVE  IInv'
PROOF
<1> USE DEF IInv
<1>1. PICK old \in PrevForCreate(k) :
        /\ log' = Append2([key |-> k, next |-> log[old].next, val |-> v,
                           dsn |-> {}],
                          Rewritten(log[old], k, {old}))
        /\ oldPos' = old
  BY DEF CreateKV
<1>2. old \in ActivePos /\ old \in 0 .. snEnd - 1 /\ log[old] \in Entry
  BY AdjacentIsActive DEF PrevForCreate
<1>3. /\ pc = "idle" /\ pc' = "index" /\ todo' = todo /\ ops' = ops + 1
      /\ UNCHANGED <<index, snStart, snEnd, blockStart, flushed, filePos, found,
                     ring, returned>>
  BY DEF CreateKV, MayRun, compactorVars, ringVars
<1>4. snEnd \in Nat /\ LogEnd = snEnd /\ LogEnd' = snEnd + 2
  BY <1>3 DEF LogEnd, TypeOK
<1> DEFINE e1 == [key |-> k, next |-> log[old].next, val |-> v, dsn |-> {}]
           e2 == Rewritten(log[old], k, {old})
<1>5. /\ e1 \in Entry /\ e1.dsn = {}
      /\ e2 \in Entry /\ e2.key = log[old].key /\ e2.dsn = {old}
  BY <1>2 DEF Entry, Rewritten, Hashes
<1> HIDE DEF e1, e2
<1>6. /\ log' \in [0 .. snEnd + 1 -> Entry]
      /\ log'[snEnd] = e1 /\ log'[snEnd + 1] = e2
      /\ \A n \in 0 .. snEnd - 1 : log'[n] = log[n]
  <2>1. log' = Append2(e1, e2)
    BY <1>1 DEF e1, e2
  <2> QED
    BY <1>4, <1>5, <2>1 DEF Append2, TypeOK
<1>7. ActivePos' = ActivePos
  BY <1>3, <1>6 DEF ActivePos
<1>8. TypeOK'
  <2>1. log' \in [0 .. LogEnd' - 1 -> Entry]
    BY <1>4, <1>6
  <2>2. \A pair \in index' : /\ pair \in Nat \X (0 .. snEnd' - 1)
                             /\ pair[1] = K80[log'[pair[2]].key]
    BY <1>3, <1>6 DEF TypeOK
  <2>3. flushed' \in 0 .. LogEnd'
    BY <1>3, <1>4 DEF TypeOK
  <2>4. oldPos' \in Nat
    BY <1>1, <1>2
  <2> QED
    BY <1>3, <2>1, <2>2, <2>3, <2>4 DEF TypeOK
<1>9. CreateOK'
  BY <1>1, <1>2, <1>3, <1>5, <1>6, <1>7 DEF CreateOK
<1>10. SentriesActive'
  BY <1>6, <1>7 DEF SentriesActive, ActivePos
<1>11. RingCoversPassed' /\ NoActiveBelowStart'
  BY <1>3, <1>7 DEF RingCoversPassed, NoActiveBelowStart
<1>12. ReplayMatchesIndex'
  BY <1>3, <1>6, <1>7 DEF ReplayMatchesIndex
<1> QED
  BY <1>8, <1>9, <1>10, <1>11, <1>12

\* The indexer learns of both entries of create_kv: here the size of the ring
\* matters, for the compactor must not have passed the new entry already.
LEMMA CreateIndexIInv ==
  ASSUME IInv, CreateIndex
  PROVE  IInv'
PROOF
<1> USE DEF IInv
<1>1. /\ pc = "index" /\ snEnd' = snEnd + 2 /\ ThenCompact(2)
      /\ index' = ChangeKV(index \cup {<<K80[log[snEnd].key], snEnd>>},
                           log[oldPos].key, oldPos, snEnd + 1)
      /\ UNCHANGED <<log, snStart, oldPos, ops, blockStart, flushed, filePos,
                     found, ring, returned>>
  BY DEF CreateIndex, compactorVars, ringVars
<1>2. /\ pc' \in {"idle", "compact"} /\ todo' \in 0 .. 2
      /\ (pc' = "compact") <=> (todo' > 0)
  BY <1>1, ThenCompactType
<1>3. snEnd \in Nat /\ LogEnd = snEnd + 2 /\ LogEnd' = snEnd + 2
  BY <1>1, <1>2 DEF LogEnd, TypeOK
<1>4. /\ oldPos \in ActivePos /\ oldPos \in 0 .. snEnd - 1
      /\ log[snEnd].dsn = {} /\ log[snEnd + 1].dsn = {oldPos}
      /\ log[snEnd + 1].key = log[oldPos].key
  BY <1>1 DEF CreateOK, ActivePos
<1>5. index' = (index \ {<<K80[log[oldPos].key], oldPos>>})
                 \cup {<<K80[log[snEnd].key], snEnd>>,
                       <<K80[log[snEnd + 1].key], snEnd + 1>>}
  BY <1>1, <1>3, <1>4 DEF ChangeKV
<1>6. ActivePos' = (ActivePos \ {oldPos}) \cup {snEnd, snEnd + 1}
  <2>1. ActivePos' = {p \in 0 .. snEnd + 1 : <<K80[log[p].key], p>> \in index'}
    BY <1>1, <1>3 DEF ActivePos
  <2>2. \A p \in 0 .. snEnd - 1 :
          <<K80[log[p].key], p>> \in index'
            <=> <<K80[log[p].key], p>> \in index /\ p # oldPos
    BY <1>3, <1>5
  <2>3. \A p \in 0 .. snEnd + 1 : p \in 0 .. snEnd - 1 \/ p = snEnd \/ p = snEnd + 1
    BY <1>3
  <2>4. /\ snEnd \in 0 .. snEnd + 1 /\ snEnd + 1 \in 0 .. snEnd + 1
        /\ snEnd \notin 0 .. snEnd - 1 /\ snEnd + 1 \notin 0 .. snEnd - 1
        /\ 0 .. snEnd - 1 \subseteq 0 .. snEnd + 1
    BY <1>3
  <2>5. /\ <<K80[log[snEnd].key], snEnd>> \in index'
        /\ <<K80[log[snEnd + 1].key], snEnd + 1>> \in index'
    BY <1>5
  <2> QED
    BY <1>4, <2>1, <2>2, <2>3, <2>4, <2>5 DEF ActivePos
<1>7. TypeOK'
  <2>1. log' \in [0 .. LogEnd' - 1 -> Entry]
    BY <1>1, <1>3 DEF TypeOK
  <2>2. log[snEnd] \in Entry /\ log[snEnd + 1] \in Entry
    BY <1>3 DEF TypeOK
  <2>3. K80[log[snEnd].key] \in Nat /\ K80[log[snEnd + 1].key] \in Nat
    BY <2>2, ConstAssumption DEF Entry
  <2>4. \A pair \in index' : /\ pair \in Nat \X (0 .. snEnd' - 1)
                             /\ pair[1] = K80[log'[pair[2]].key]
    <3> SUFFICES ASSUME NEW pair \in index'
                 PROVE  /\ pair \in Nat \X (0 .. snEnd + 1)
                        /\ pair[1] = K80[log[pair[2]].key]
      BY <1>1, <1>3
    <3>1. CASE pair \in index
      BY <3>1, <1>3 DEF TypeOK
    <3>2. CASE pair = <<K80[log[snEnd].key], snEnd>>
      BY <3>2, <1>3, <2>3
    <3>3. CASE pair = <<K80[log[snEnd + 1].key], snEnd + 1>>
      BY <3>3, <1>3, <2>3
    <3> QED
      BY <1>5, <3>1, <3>2, <3>3
  <2>5. snEnd' \in Nat /\ snStart' \in 0 .. snEnd' /\ blockStart' \in 0 .. snEnd'
    BY <1>1, <1>3 DEF TypeOK
  <2>6. flushed' \in 0 .. LogEnd'
    BY <1>1, <1>3 DEF TypeOK
  <2> QED
    BY <1>1, <1>2, <2>1, <2>4, <2>5, <2>6 DEF TypeOK
<1>8. CreateOK'
  BY <1>2 DEF CreateOK
<1>9. SentriesActive'
  BY <1>1, <1>4, <1>6 DEF SentriesActive
<1>10. filePos \in Nat /\ filePos <= snEnd
  <2>1. PICK p \in ActivePos : filePos <= p
    BY ActiveAhead
  <2>2. p \in 0 .. snEnd - 1
    BY DEF ActivePos
  <2>3. filePos \in Nat
    BY <1>3 DEF TypeOK
  <2> QED
    BY <1>3, <2>1, <2>2, <2>3
<1>11. RingCoversPassed'
  BY <1>1, <1>3, <1>6, <1>10 DEF RingCoversPassed
<1>12. NoActiveBelowStart'
  BY <1>1, <1>3, <1>6 DEF NoActiveBelowStart, TypeOK
<1>13. ReplayMatchesIndex'
  <2>1. \A m \in 0 .. snEnd - 1 : snEnd \notin log[m].dsn /\ snEnd + 1 \notin log[m].dsn
    BY <1>3 DEF ReplayMatchesIndex
  <2>2. SUFFICES ASSUME NEW n \in 0 .. snEnd + 1
        PROVE  /\ n \in ActivePos' <=> \A m \in 0 .. snEnd + 1 : n \notin log[m].dsn
               /\ \A l, m \in 0 .. snEnd + 1 :
                    n \in log[l].dsn /\ n \in log[m].dsn => l = m
               /\ \A d \in log[n].dsn : d < n
    BY <1>1, <1>3 DEF ReplayMatchesIndex
  <2>3. CASE n \in 0 .. snEnd - 1
    <3>1. n \in ActivePos' <=> \A m \in 0 .. snEnd + 1 : n \notin log[m].dsn
      BY <1>3, <1>4, <1>6, <2>3 DEF ReplayMatchesIndex
    <3>2. ASSUME NEW l \in 0 .. snEnd + 1, NEW m \in 0 .. snEnd + 1,
                 n \in log[l].dsn, n \in log[m].dsn
          PROVE  l = m
      BY <1>3, <1>4, <2>3, <3>2 DEF ReplayMatchesIndex
    <3>3. \A d \in log[n].dsn : d < n
      BY <2>3 DEF ReplayMatchesIndex
    <3> QED
      BY <3>1, <3>2, <3>3
  <2>4. CASE n = snEnd \/ n = snEnd + 1
    BY <1>3, <1>4, <1>6, <2>1, <2>4
  <2> QED
    BY <1>3, <2>3, <2>4
<1> QED
  BY <1>7, <1>8, <1>9, <1>11, <1>12, <1>13
-----------------------------------------------------------------------------
\* Taking the first job off the ring.
LEMMA RingTail ==
  ASSUME TypeOK, RingCoversPassed, ring # << >>,
         ring' = Tail(ring), returned' = returned + 1
  PROVE  /\ Head(ring) \in Nat /\ Head(ring) < filePos
         /\ ring' \in Seq(Nat) /\ returned' \in Nat
         /\ returned' + Len(ring') = RingSize
         /\ Len(ring') = Len(ring) - 1
         /\ \A i \in 1 .. Len(ring') : ring'[i] = ring[i + 1]
         /\ \A i \in 1 .. Len(ring) : i = 1 \/ i - 1 \in 1 .. Len(ring')
         /\ Len(ring) \in Nat \ {0} /\ Head(ring) = ring[1]
PROOF
<1>1. /\ Len(ring) \in Nat \ {0} /\ Head(ring) = ring[1] /\ ring[1] \in Nat
  BY EmptySeq, LenProperties DEF TypeOK
<1>2. /\ ring' \in Seq(Nat) /\ Len(ring') = Len(ring) - 1
      /\ \A i \in 1 .. Len(ring') : ring'[i] = ring[i + 1]
  BY HeadTailProperties DEF TypeOK
<1>3. returned' \in Nat /\ returned' + Len(ring') = RingSize
  BY <1>1, <1>2 DEF TypeOK
<1>4. Head(ring) < filePos
  BY <1>1 DEF RingCoversPassed
<1> QED
  BY <1>1, <1>2, <1>3, <1>4

\* compact with a job that is still indexed preserves the invariant.
LEMMA CompactIInv ==
  ASSUME IInv, Compact
  PROVE  IInv'
PROOF
<1> USE DEF IInv
<1> DEFINE old == Head(ring)
           e == Rewritten(log[old], log[old].next, {old})
<1>1. /\ pc = "compact" /\ ring # << >>
      /\ <<K80[log[old].key], old>> \in index
      /\ log' = Append1(e)
      /\ index' = ChangeKV(index, log[old].key, old, snEnd)
      /\ snStart' = old + 1 /\ snEnd' = snEnd + 1
      /\ todo' = todo - 1
      /\ pc' = (IF todo = 1 THEN "idle" ELSE "compact")
      /\ ring' = Tail(ring) /\ returned' = returned + 1
      /\ UNCHANGED <<oldPos, ops, blockStart, flushed, filePos, found>>
  BY DEF Compact, KeyExists, compactorVars
<1>2. /\ old \in Nat /\ old < filePos
      /\ ring' \in Seq(Nat) /\ returned' \in Nat
      /\ returned' + Len(ring') = RingSize
      /\ Len(ring') = Len(ring) - 1
      /\ \A i \in 1 .. Len(ring') : ring'[i] = ring[i + 1]
      /\ \A i \in 1 .. Len(ring) : i = 1 \/ i - 1 \in 1 .. Len(ring')
      /\ Len(ring) \in Nat \ {0} /\ old = ring[1]
  BY <1>1, RingTail
<1> HIDE DEF old
<1>3. /\ snEnd \in Nat /\ filePos \in Nat /\ filePos <= snEnd
      /\ log \in [0 .. snEnd - 1 -> Entry]
  BY <1>1 DEF TypeOK, LogEnd
<1>4. old \in 0 .. snEnd - 1 /\ log[old] \in Entry /\ old \in ActivePos
  <2>1. old \in 0 .. snEnd - 1
    BY <1>2, <1>3
  <2> HIDE DEF e
  <2> QED
    BY <1>1, <1>3, <2>1 DEF ActivePos
<1>5. e \in Entry /\ e.key = log[old].key /\ e.dsn = {old}
  BY <1>4 DEF Entry, Rewritten
<1>6. /\ todo' \in 0 .. 2 /\ pc' \in {"idle", "compact"}
      /\ (pc' = "compact") <=> (todo' > 0)
  BY <1>1 DEF TypeOK
<1>7. AppendsEntry(e, {old})
  <2>1. {<<K80[log[d].key], d>> : d \in {old}} = {<<K80[log[old].key], old>>}
    OBVIOUS
  <2>2. index' = (index \ {<<K80[log[old].key], old>>}) \cup {<<K80[e.key], snEnd>>}
    BY <1>1, <1>5 DEF ChangeKV
  <2> HIDE DEF e
  <2> QED
    BY <1>1, <1>4, <1>5, <1>6, <2>1, <2>2 DEF AppendsEntry
<1> HIDE DEF e
<1>8. ActivePos' = (ActivePos \ {old}) \cup {snEnd}
  BY <1>7, AppendActive
<1>9. TypeOK'
  <2>1. snStart' \in 0 .. snEnd' /\ ops' \in Nat
    BY <1>1, <1>2, <1>3 DEF TypeOK
  <2> QED
    BY <1>1, <1>2, <1>6, <1>7, <2>1, AppendType
<1>10. CreateOK'
  BY <1>6 DEF CreateOK
<1>11. SentriesActive' /\ ReplayMatchesIndex'
  BY <1>7, AppendSentries, AppendReplay
<1>12. RingCoversPassed'
  <2>1. \A i \in 1 .. Len(ring') : i + 1 \in 1 .. Len(ring)
    BY <1>2
  <2>2. \A i \in 1 .. Len(ring') : ring'[i] < filePos'
    BY <1>1, <1>2, <2>1 DEF RingCoversPassed
  <2>3. \A i, j \in 1 .. Len(ring') : i < j => ring'[i] < ring'[j]
    <3> SUFFICES ASSUME NEW i \in 1 .. Len(ring'), NEW j \in 1 .. Len(ring'), i < j
                 PROVE  ring'[i] < ring'[j]
      OBVIOUS
    <3>1. i + 1 \in 1 .. Len(ring) /\ j + 1 \in 1 .. Len(ring) /\ i + 1 < j + 1
      BY <1>2, <2>1
    <3>2. ring[i + 1] < ring[j + 1]
      BY <3>1 DEF RingCoversPassed
    <3> QED
      BY <1>2, <3>2
  <2>4. ASSUME NEW p \in ActivePos', p < filePos'
        PROVE  \E i \in 1 .. Len(ring') : ring'[i] = p
    <3>1. p \in ActivePos /\ p # old
      BY <1>1, <1>3, <1>8, <2>4
    <3>2. PICK i \in 1 .. Len(ring) : ring[i] = p
      BY <1>1, <2>4, <3>1 DEF RingCoversPassed
    <3>3. i # 1 /\ i - 1 \in 1 .. Len(ring')
      BY <1>2, <3>1, <3>2
    <3>4. ring'[i - 1] = ring[(i - 1) + 1] /\ (i - 1) + 1 = i
      BY <1>2, <3>3
    <3> QED
      BY <3>2, <3>3, <3>4
  <2> QED
    BY <2>2, <2>3, <2>4 DEF RingCoversPassed
<1>13. NoActiveBelowStart'
  <2> SUFFICES ASSUME NEW p \in ActivePos'
               PROVE  p >= old + 1
    BY <1>1 DEF NoActiveBelowStart
  <2>1. CASE p = snEnd
    BY <1>2, <1>3, <2>1
  <2>2. CASE p \in ActivePos /\ p # old
    <3>1. p \in Nat
      BY <2>2, <1>3 DEF ActivePos
    <3>2. CASE p < filePos
      <4>1. PICK i \in 1 .. Len(ring) : ring[i] = p
        BY <2>2, <3>2 DEF RingCoversPassed
      <4>2. i # 1 /\ 1 < i /\ 1 \in 1 .. Len(ring)
        BY <1>2, <2>2, <4>1
      <4>3. ring[1] < ring[i]
        BY <4>2 DEF RingCoversPassed
      <4> QED
        BY <1>2, <3>1, <4>1, <4>3
    <3>3. CASE p >= filePos
      BY <1>2, <1>3, <3>1, <3>3
    <3> QED
      BY <1>3, <3>1, <3>2, <3>3
  <2> QED
    BY <1>8, <2>1, <2>2
<1> QED
  BY <1>9, <1>10, <1>11, <1>12, <1>13

\* compact with a stale job, which goes back, preserves the invariant.
LEMMA CompactStaleIInv ==
  ASSUME IInv, CompactStale
  PROVE  IInv'
PROOF
<1> USE DEF IInv
<1>1. /\ ring # << >> /\ <<K80[log[Head(ring)].key], Head(ring)>> \notin index
      /\ ring' = Tail(ring) /\ returned' = returned + 1
      /\ UNCHANGED <<log, index, snStart, snEnd, pc, oldPos, todo, ops,
                     blockStart, flushed, filePos, found>>
  BY DEF CompactStale, KeyExists, updaterVars, compactorVars
<1>2. /\ ring' \in Seq(Nat) /\ returned' \in Nat
      /\ returned' + Len(ring') = RingSize
      /\ Len(ring') = Len(ring) - 1
      /\ \A i \in 1 .. Len(ring') : ring'[i] = ring[i + 1]
      /\ \A i \in 1 .. Len(ring) : i = 1 \/ i - 1 \in 1 .. Len(ring')
      /\ Len(ring) \in Nat \ {0} /\ Head(ring) = ring[1]
  BY <1>1, RingTail
<1>3. ActivePos' = ActivePos /\ LogEnd' = LogEnd
  BY <1>1 DEF ActivePos, LogEnd
<1>4. TypeOK'
  BY <1>1, <1>2, <1>3 DEF TypeOK
<1>5. CreateOK' /\ SentriesActive' /\ NoActiveBelowStart' /\ ReplayMatchesIndex'
  BY <1>1, <1>3
  DEF CreateOK, SentriesActive, NoActiveBelowStart, ReplayMatchesIndex
<1>6. RingCoversPassed'
  <2>1. \A i \in 1 .. Len(ring') : i + 1 \in 1 .. Len(ring)
    BY <1>2
  <2>2. \A i \in 1 .. Len(ring') : ring'[i] < filePos'
    BY <1>1, <1>2, <2>1 DEF RingCoversPassed
  <2>3. \A i, j \in 1 .. Len(ring') : i < j => ring'[i] < ring'[j]
    <3> SUFFICES ASSUME NEW i \in 1 .. Len(ring'), NEW j \in 1 .. Len(ring'), i < j
                 PROVE  ring'[i] < ring'[j]
      OBVIOUS
    <3>1. i + 1 \in 1 .. Len(ring) /\ j + 1 \in 1 .. Len(ring) /\ i + 1 < j + 1
      BY <1>2, <2>1
    <3>2. ring[i + 1] < ring[j + 1]
      BY <3>1 DEF RingCoversPassed
    <3> QED
      BY <1>2, <3>2
  <2>4. ASSUME NEW p \in ActivePos', p < filePos'
        PROVE  \E i \in 1 .. Len(ring') : ring'[i] = p
    <3>1. p # ring[1]
      BY <1>1, <1>2, <1>3 DEF ActivePos
    <3>2. PICK i \in 1 .. Len(ring) : ring[i] = p
      BY <1>1, <1>3, <2>4 DEF RingCoversPassed
    <3>3. i # 1 /\ i - 1 \in 1 .. Len(ring')
      BY <1>2, <3>1, <3>2
    <3>4. ring'[i - 1] = ring[(i - 1) + 1] /\ (i - 1) + 1 = i
      BY <1>2, <3>3
    <3> QED
      BY <3>2, <3>3, <3>4
  <2> QED
    BY <2>2, <2>3, <2>4 DEF RingCoversPassed
<1> QED
  BY <1>4, <1>5, <1>6

\* The steps of fill_compact_chan preserve the invariant.
LEMMA CompactorIInv ==
  ASSUME IInv, CompactorScan \/ CompactorProduce
  PROVE  IInv'
PROOF
<1> USE DEF IInv
<1>1. /\ UNCHANGED <<log, index, snStart, snEnd, pc, oldPos, todo, ops,
                     blockStart, flushed>>
      /\ ActivePos' = ActivePos /\ LogEnd' = LogEnd
  BY DEF CompactorScan, CompactorProduce, updaterVars, ActivePos, LogEnd
<1>2. CreateOK' /\ SentriesActive' /\ NoActiveBelowStart' /\ ReplayMatchesIndex'
  BY <1>1 DEF CreateOK, SentriesActive, NoActiveBelowStart, ReplayMatchesIndex
<1>3. Len(ring) \in Nat /\ filePos \in Nat /\ flushed \in Nat
  BY LenProperties DEF TypeOK, LogEnd
<1>4. CASE CompactorScan
  <2>1. /\ UNCHANGED <<ring, returned>> /\ filePos < flushed
        /\ \/ found' = TRUE /\ filePos' = filePos
           \/ /\ <<K80[log[filePos].key], filePos>> \notin index
              /\ found' = FALSE /\ filePos' = filePos + 1
    BY <1>4 DEF CompactorScan, KeyExists, ringVars
  <2>2. TypeOK'
    <3>1. filePos' \in 0 .. flushed' /\ filePos' <= flushed
      BY <1>1, <1>3, <2>1 DEF TypeOK
    <3>2. found' \in BOOLEAN
      BY <2>1, Zenon
    <3>3. found' => filePos' < flushed'
      BY <1>1, <2>1
    <3> QED
      BY <1>1, <2>1, <3>1, <3>2, <3>3 DEF TypeOK
  <2>3. filePos \in ActivePos => filePos' = filePos
    BY <2>1 DEF ActivePos
  <2>4. RingCoversPassed'
    <3>1. \A i \in 1 .. Len(ring) : ring[i] \in Nat
      BY LenProperties DEF TypeOK
    <3>2. \A i \in 1 .. Len(ring) : ring[i] < filePos'
      BY <1>3, <2>1, <3>1 DEF RingCoversPassed
    <3>3. \A p \in ActivePos : p < filePos' => p < filePos
      BY <1>3, <2>1, <2>3 DEF ActivePos
    <3> QED
      BY <1>1, <2>1, <3>2, <3>3 DEF RingCoversPassed
  <2> QED
    BY <1>2, <2>2, <2>4
<1>5. CASE CompactorProduce
  <2>1. /\ found /\ returned > 0 /\ ring' = Append(ring, filePos)
        /\ returned' = returned - 1 /\ found' = FALSE /\ filePos' = filePos + 1
    BY <1>5 DEF CompactorProduce
  <2>2. /\ ring' \in Seq(Nat) /\ Len(ring') = Len(ring) + 1
        /\ \A i \in 1 .. Len(ring) : ring'[i] = ring[i]
        /\ ring'[Len(ring) + 1] = filePos
    BY <1>3, <2>1, AppendProperties DEF TypeOK
  <2>3. TypeOK'
    <3>1. filePos < flushed
      BY <2>1 DEF TypeOK
    <3>2. filePos' \in 0 .. flushed'
      BY <1>1, <1>3, <2>1, <3>1
    <3>3. found' \in BOOLEAN /\ ~ found'
      BY <2>1, Zenon
    <3>4. returned' \in Nat /\ returned' + Len(ring') = RingSize
      BY <1>3, <2>1, <2>2 DEF TypeOK
    <3> QED
      BY <1>1, <2>2, <3>2, <3>3, <3>4 DEF TypeOK
  <2>4. RingCoversPassed'
    <3>1. \A i \in 1 .. Len(ring) : ring[i] \in Nat
      BY LenProperties DEF TypeOK
    <3>2. \A i \in 1 .. Len(ring') : i \in 1 .. Len(ring) \/ i = Len(ring) + 1
      BY <1>3, <2>2
    <3>3. \A i \in 1 .. Len(ring') : ring'[i] < filePos'
      BY <1>3, <2>1, <2>2, <3>1, <3>2 DEF RingCoversPassed
    <3>4. \A i, j \in 1 .. Len(ring') : i < j => ring'[i] < ring'[j]
      BY <1>3, <2>1, <2>2, <3>1, <3>2 DEF RingCoversPassed
    <3>5. ASSUME NEW p \in ActivePos', p < filePos'
          PROVE  \E i \in 1 .. Len(ring') : ring'[i] = p
      <4>1. p \in Nat /\ p \in ActivePos
        BY <1>1 DEF ActivePos
      <4>2. CASE p = filePos
        BY <1>3, <2>2, <4>2
      <4>3. CASE p < filePos
        <5>1. PICK i \in 1 .. Len(ring) : ring[i] = p
          BY <4>1, <4>3 DEF RingCoversPassed
        <5>2. i \in 1 .. Len(ring') /\ ring'[i] = p
          BY <1>3, <2>2, <5>1
        <5> QED
          BY <5>2
      <4> QED
        BY <1>3, <2>1, <3>5, <4>1, <4>2, <4>3
    <3> QED
      BY <3>3, <3>4, <3>5 DEF RingCoversPassed
  <2> QED
    BY <1>2, <2>3, <2>4
<1> QED
  BY <1>4, <1>5

\* The end of a block and the flusher preserve the invariant.
LEMMA OtherIInv ==
  ASSUME IInv, EndBlock \/ (\E n \in 1 .. MaxSN : Flush(n)) \/ UNCHANGED vars
  PROVE  IInv'
PROOF
<1> USE DEF IInv
<1>1. /\ UNCHANGED <<log, index, snStart, snEnd, pc, oldPos, todo, filePos,
                     found, ring, returned>>
      /\ ActivePos' = ActivePos /\ LogEnd' = LogEnd
  BY DEF EndBlock, Flush, vars, updaterVars, compactorVars, ringVars,
         ActivePos, LogEnd
<1>2. /\ CreateOK' /\ SentriesActive' /\ NoActiveBelowStart' /\ ReplayMatchesIndex'
      /\ RingCoversPassed'
  BY <1>1 DEF CreateOK, SentriesActive, NoActiveBelowStart, ReplayMatchesIndex,
              RingCoversPassed
<1>3. /\ ops' \in Nat /\ blockStart' \in 0 .. snEnd /\ flushed' \in 0 .. LogEnd
      /\ flushed <= flushed'
  <2>1. CASE EndBlock
    BY <2>1 DEF EndBlock, TypeOK
  <2>2. CASE \E n \in 1 .. MaxSN : Flush(n)
    <3>1. PICK n \in 1 .. MaxSN : Flush(n)
      BY <2>2
    <3>2. UNCHANGED <<ops, blockStart>> /\ flushed' = n /\ n <= Readable /\ flushed < n
      BY <3>1 DEF Flush, updaterVars
    <3>3. snEnd \in Nat /\ LogEnd \in Nat /\ blockStart \in 0 .. snEnd
          /\ snEnd <= LogEnd
      BY DEF TypeOK, LogEnd
    <3>4. Readable <= LogEnd
      BY <3>3 DEF Readable
    <3>5. Readable \in Int
      BY <3>3 DEF Readable
    <3>6. n \in Nat
      BY ConstAssumption
    <3> QED
      BY <3>2, <3>3, <3>4, <3>5, <3>6 DEF TypeOK
  <2>3. CASE UNCHANGED vars
    BY <2>3 DEF vars, updaterVars, TypeOK, LogEnd
  <2> QED
    BY <2>1, <2>2, <2>3
<1>4. TypeOK'
  <2>1. filePos' \in 0 .. flushed' /\ (found' => filePos' < flushed')
    BY <1>1, <1>3 DEF TypeOK, LogEnd
  <2> QED
    BY <1>1, <1>3, <2>1 DEF TypeOK
<1> QED
  BY <1>2, <1>4

\* Every step preserves the invariant.
LEMMA NextIInv == IInv /\ [Next]_vars => IInv'
PROOF
<1> SUFFICES ASSUME IInv, [Next]_vars PROVE IInv'
  OBVIOUS
<1>1. ASSUME NEW k \in Keys, NEW v \in Values, WriteKV(k, v) PROVE IInv'
  BY <1>1, WriteIInv
<1>2. ASSUME NEW k \in Keys, NEW v \in Values, CreateKV(k, v) PROVE IInv'
  BY <1>2, CreateIInv
<1>3. ASSUME NEW k \in Keys, DeleteKV(k) PROVE IInv'
  BY <1>3, DeleteIInv
<1>4. CASE CreateIndex
  BY <1>4, CreateIndexIInv
<1>5. CASE CompactStale
  BY <1>5, CompactStaleIInv
<1>6. CASE Compact
  BY <1>6, CompactIInv
<1>7. CASE CompactorScan \/ CompactorProduce
  BY <1>7, CompactorIInv
<1>8. CASE EndBlock \/ (\E n \in 1 .. MaxSN : Flush(n)) \/ UNCHANGED vars
  BY <1>8, OtherIInv
<1> QED
  BY <1>1, <1>2, <1>3, <1>4, <1>5, <1>6, <1>7, <1>8 DEF Next, UpdaterStep

\* The inductive invariant holds in every reachable state.
THEOREM InductiveInvariant == Spec => []IInv
PROOF
BY InitIInv, NextIInv, PTL DEF Spec

\* The shard's state keeps its type, whatever the updater, the compactor and the
\* flusher do.
THEOREM TypeCorrect == Spec => []TypeOK
PROOF
BY InductiveInvariant, PTL DEF IInv

\* Updater::compact never advances sn_start past an active entry, so the twigs
\* that the flusher evicts and prunes hold no live data.
THEOREM NothingLiveIsEvicted == Spec => []NoActiveBelowStart
PROOF
BY InductiveInvariant, PTL DEF IInv

\* The deactivation lists that the updater writes reproduce the indexer: the
\* Merkle tree's active bits and a recovery scan see the entries it sees.
THEOREM ReplayIsFaithful == Spec => []ReplayMatchesIndex
PROOF
BY InductiveInvariant, PTL DEF IInv

\* The jobs in the ring are all the active entries the compactor has passed, in
\* file order.
THEOREM RingIsComplete == Spec => []RingCoversPassed
PROOF
BY InductiveInvariant, PTL DEF IInv
=============================================================================
