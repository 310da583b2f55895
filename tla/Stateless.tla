----------------------------- MODULE Stateless -----------------------------
(***************************************************************************)
(* Stateless validation of the sequential ADS: get_proof (seqads/proof.rs) *)
(* foresees what a change set will read, write and compact and hands out   *)
(* entries and a witness; WitnessListUpdater (stateless/witnessupdater.rs) *)
(* executes the change set on them alone, and accepts if it arrives at the *)
(* root that the ADS has after commit_tx.  Both are functions of the state *)
(* of SeqAds: they change nothing in it.                                   *)
(***************************************************************************)
EXTENDS SeqAds, TLC

CONSTANT GroupBits   \* active bits of one group: 2^GroupBits (256 in the code)

W == INSTANCE Witness

\* A full twig is never the youngest.
Youngest(s) == s.snEnd \div 2^LeafBits

TreeOf(s) == [leaves |-> s.log, active |-> ActiveBits(s.log), youngest |-> Youngest(s)]

RootHash(s) == W!HashOf(TreeOf(s), W!CalcMaxLevel(Youngest(s)), 0)

-----------------------------------------------------------------------------
(* get_proof.  g is its state: what it foresees of the updater's, dead (the *)
(* deactivated serial numbers), entries (the EntryVec) and loaded; once is  *)
(* set when the second compaction of a create is not due after the first.   *)

Load(g, e) ==
  IF e.key \in g.loaded THEN g
  ELSE [g EXCEPT !.entries = Append(@, e), !.loaded = @ \cup {e.key}]

\* Mutant: the entries that this change set replaces are compacted again.
ProofCompactsDead(s, g) ==
  LET live == {p \in g.compact .. s.fileEnd - 1 :
                 <<K80[s.log[p].key], p>> \in s.index}
      p == CHOOSE p \in live : \A q \in live : p <= q
  IN IF ~ IsCompactible(g.active, g.snStart, g.snEnd) THEN g
     ELSE IF live = {} THEN [g EXCEPT !.ok = FALSE]
     ELSE Load([g EXCEPT !.compact = p + 1, !.snStart = p + 1, !.snEnd = @ + 1],
               s.log[p])

ProofCompact(s, g) ==
  LET live == {p \in g.compact .. s.fileEnd - 1 :
                 p \notin g.dead /\ <<K80[s.log[p].key], p>> \in s.index}
      p == CHOOSE p \in live : \A q \in live : p <= q
  IN IF ~ IsCompactible(g.active, g.snStart, g.snEnd) THEN g
     ELSE IF live = {} THEN [g EXCEPT !.ok = FALSE]
     ELSE Load([g EXCEPT !.compact = p + 1, !.snStart = p + 1, !.snEnd = @ + 1],
               s.log[p])

\* All reads are from the state before the change set.
ProofOp(s, g, op) ==
  LET own == s.log[The(EntriesOf(s, op.key))]
      prev == s.log[The({p \in AdjacentValues(s, op.key) :
                           \/ (op.op = "delete" /\ s.log[p].next = op.key)
                           \/ (s.log[p].key < op.key /\ op.key < s.log[p].next)})]
      Read(h, e) == Load([h EXCEPT !.dead = @ \cup {e.sn}], e)
  IN IF op.op = "delete"
     THEN Read(Read([g EXCEPT !.active = @ - 1, !.snEnd = @ + 1], own), prev)
     ELSE IF Exists(s, op.key)
     THEN ProofCompact(s, Read([g EXCEPT !.snEnd = @ + 1], own))
     ELSE LET one == ProofCompact(s, Read([g EXCEPT !.active = @ + 1, !.snEnd = @ + 2], prev))
              two == ProofCompact(s, one)
          IN [two EXCEPT !.once = @ \/ (one.snEnd > g.snEnd + 2 /\ two.snEnd = one.snEnd)]

\* `reads' exist, `absent' do not; a predecessor that shows a key absent is
\* added even if it is loaded already.
GetProof(s, cs, reads, absent) ==
  LET start == [compact |-> s.compact, snStart |-> s.snStart, snEnd |-> s.snEnd,
                active |-> Cardinality(s.index), dead |-> {}, entries |-> << >>,
                loaded |-> {}, once |-> FALSE, ok |-> TRUE]
      ran == FoldLeft(LAMBDA g, op : ProofOp(s, g, op), start, cs)
      read == FoldSet(LAMBDA k, g : Load(g, s.log[The(EntriesOf(s, k))]), ran, reads)
  IN FoldSet(LAMBDA k, g :
               LET e == s.log[The(PrevForCreate(s, k))]
               IN [g EXCEPT !.entries = Append(@, e), !.loaded = @ \cup {e.key}],
             read, absent)

TouchedSns(s, g) ==
  [i \in 1 .. Len(g.entries) |-> g.entries[i].sn] \o
    [i \in 1 .. g.snEnd - s.snEnd |-> s.snEnd + i - 1]

ProofWitness(s, g) ==
  W!EncodeWitness(W!GetWitnessFromTree(TreeOf(s), TouchedSns(s, g),
                                       s.snStart .. g.snStart - 1),
                  g.entries)

-----------------------------------------------------------------------------
(* WitnessListUpdater: v is the validator's state.                         *)

NewUpdater(nodes, entries, s) ==
  [nodes |-> nodes,
   kh2e |-> [k \in {e.key : e \in ToSet(entries)} |->
               The({e \in ToSet(entries) : e.key = k})],
   sn2e |-> [n \in {e.sn : e \in ToSet(entries)} |->
               The({e \in ToSet(entries) : e.sn = n})],
   ver |-> 0, next |-> s.snEnd, oldest |-> s.snStart,
   active |-> Cardinality(s.index), ok |-> TRUE]

Added(v, e, added) ==
  [v EXCEPT !.nodes = added.nodes, !.ok = @ /\ added.ok,
            !.kh2e = (e.key :> e) @@ @,
            !.sn2e = Restrict((e.sn :> e) @@ @, (DOMAIN @ \cup {e.sn}) \ e.dsn)]

WriteEntry(v, e) == Added(v, e, W!AddEntry(v.nodes, e))

PrevKeys(v, k) == {h \in DOMAIN v.kh2e : h < k}
PrevEntry(v, k) == v.kh2e[Max(PrevKeys(v, k))]

\* compact() ignores whether the entry could be added to the witness.
CompactSn(v, n) ==
  IF ~ v.ok \/ n \notin DOMAIN v.sn2e THEN [v EXCEPT !.ok = FALSE]
  ELSE [WriteEntry(v, [v.sn2e[n] EXCEPT !.sn = v.next, !.dsn = {n}])
          EXCEPT !.ok = TRUE, !.next = @ + 1, !.oldest = n + 1]

CompactWitness(v) == CompactSn(v, W!FindNextActiveSn(v.nodes, v.oldest))

Compactible(v) == v.ok /\ IsCompactible(v.active, v.oldest, v.next)

CompactOnce(v) == IF Compactible(v) THEN CompactWitness(v) ELSE v
CompactTwice(v) == IF Compactible(v) THEN CompactWitness(CompactWitness(v)) ELSE v

WitnessWrite(v, k) ==
  IF k \notin DOMAIN v.kh2e THEN [v EXCEPT !.ok = FALSE]
  ELSE LET old == v.kh2e[k]
           new == [old EXCEPT !.val = v.ver, !.ver = v.ver, !.sn = v.next, !.dsn = {old.sn}]
       IN CompactOnce([WriteEntry(v, new) EXCEPT !.next = @ + 1])

WitnessCreate(v, k) ==
  IF PrevKeys(v, k) = {} THEN [v EXCEPT !.ok = FALSE]
  ELSE LET prev == PrevEntry(v, k)
           new == [key |-> k, next |-> prev.next, val |-> v.ver, ver |-> v.ver,
                   sn |-> v.next, dsn |-> {}]
           changed == [prev EXCEPT !.next = k, !.ver = v.ver, !.sn = v.next + 1,
                                   !.dsn = {prev.sn}]
       IN CompactTwice([WriteEntry(WriteEntry(v, new), changed)
                          EXCEPT !.next = @ + 2, !.active = @ + 1])

WitnessDelete(v, k) ==
  IF k \notin DOMAIN v.kh2e \/ PrevKeys(v, k) = {} THEN [v EXCEPT !.ok = FALSE]
  ELSE LET cur == v.kh2e[k]
           rest == [v EXCEPT !.kh2e = Restrict(@, DOMAIN @ \ {k})]
           prev == PrevEntry(rest, k)
       IN [WriteEntry(rest, [prev EXCEPT !.next = cur.next, !.ver = v.ver, !.sn = v.next,
                                         !.dsn = {cur.sn, prev.sn}])
             EXCEPT !.next = @ + 1, !.active = @ - 1]

\* apply_change: the version is set for the first task of a block only.  The
\* change set says if a key is written or created: `s' knows.
ApplyChange(s, v, cs, height, n) ==
  FoldLeft(LAMBDA w, op : IF ~ w.ok THEN w
                          ELSE IF op.op = "delete" THEN WitnessDelete(w, op.key)
                          ELSE IF Exists(s, op.key) THEN WitnessWrite(w, op.key)
                          ELSE WitnessCreate(w, op.key),
           IF n = 0 THEN [v EXCEPT !.ver = TaskID(height, 0)] ELSE v, cs)

VerifyNonInclusion(v, absent) ==
  \A k \in absent : /\ PrevKeys(v, k) # {}
                    /\ PrevEntry(v, k).next > k

\* The validator's verdict on the change set, and the lists it carries on: v
\* is its state before the change set and `done' the one after it.
Verdict(s, after, entries, absent, v, done) ==
  [accepted |-> /\ W!VerifyEntries(v.nodes, entries)
                /\ VerifyNonInclusion(v, absent)
                /\ done.ok
                /\ W!VerifyWitness(done.nodes, RootHash(s), RootHash(after)),
   next |-> done.next, oldest |-> done.oldest, active |-> done.active]

Execute(s, after, cs, absent, n, entries, v) ==
  Verdict(s, after, entries, absent, v, ApplyChange(s, v, cs, meta.height + 1, n))

Validate(s, after, cs, absent, n, g) ==
  Execute(s, after, cs, absent, n, g.entries,
          NewUpdater(W!DecodeWitness(ProofWitness(s, g), g.entries), g.entries, s))

-----------------------------------------------------------------------------
(* Properties: of every change set that may be executed next, with no reads *)
(* or with reads of every key.                                              *)

TwigOf(sn) == sn \div 2^LeafBits

ReadSets(s) ==
  {[reads |-> {}, absent |-> {}],
   [reads |-> {k \in Keys : Exists(s, k)}, absent |-> {k \in Keys : ~ Exists(s, k)}]}

NextSets == {cs \in ChangeSets(u) : MayRun(AfterTx(u, cs))}

\* get_proof, which never executes the change set, foresees what commit_tx
\* does: how far compaction gets, how many entries are written and how many
\* are live; and every old entry that a new one deactivates is handed out.
ProofPredictsRun ==
  \A cs \in NextSets, rs \in ReadSets(u) :
    LET g == GetProof(u, cs, rs.reads, rs.absent)
        after == AfterTx(u, cs)
        new == {after.log[n] : n \in u.snEnd .. after.snEnd - 1}
    IN /\ g.ok
       /\ <<g.compact, g.snStart, g.snEnd, g.active>> =
            <<after.compact, after.snStart, after.snEnd, Cardinality(after.index)>>
       /\ UNION {e.dsn : e \in new} \cap DOMAIN u.log
            \subseteq {e.sn : e \in ToSet(g.entries)}

\* The change sets a witness of this code can serve (README, known limits).
Supported(s, after, g, n) ==
  LET touched == TouchedSns(s, g)
      level == W!CalcMaxLevel(Youngest(s))
      pair(sn) == W!SnToLevel8Nth(sn) \div 2
  IN /\ n = 0
     /\ ~ g.once
     /\ touched # << >> =>
          /\ TwigOf(Last(touched)) <= Youngest(s)
          /\ W!CalcMaxLevel(TwigOf(Last(touched))) = level
     /\ W!CalcMaxLevel(Youngest(after)) = level
     /\ \A sn \in s.snStart .. g.snStart - 1 :
          \E t \in ToSet(touched) : pair(t) = pair(sn)

\* What becomes of a change set that may come next.
Trial(cs, rs, after, g) ==
  [after |-> after, supported |-> Supported(u, after, g, txs),
   verdict |-> Validate(u, after, cs, rs.absent, txs, g)]

Trials == {Trial(cs, rs, AfterTx(u, cs), GetProof(u, cs, rs.reads, rs.absent)) :
             cs \in NextSets, rs \in ReadSets(u)}

=============================================================================
