------------------------------ MODULE CheckRec ------------------------------
(***************************************************************************)
(* The shard's data plane (Updater) run against the reference database     *)
(* (RefDB), as the fuzz driver does with the feature check_rec: gen_cset   *)
(* drives the reference database and puts the record of each operation     *)
(* into the change set; the updater executes the operation the record      *)
(* names and asserts that it reads, writes and compacts the same entries   *)
(* (the compare_ functions of updater.rs).  The driver generates its       *)
(* blocks ahead of the run; the reference database sees nothing of the     *)
(* run, so generating each operation when it runs gives the same records.  *)
(***************************************************************************)
EXTENDS Updater

VARIABLES
  ref,   \* the reference database
  rec    \* the record of the operation that runs, or that ran last

oracleVars == <<ref, rec>>
checkVars == <<vars, oracleVars>>

Ref == INSTANCE RefDB

WithSN(e, n) == [key |-> e.key, next |-> e.next, val |-> e.val, dsn |-> e.dsn, sn |-> n]

CheckInit ==
  /\ Init
  /\ ref = Ref!InitDB([n \in 1 .. SentryCount |-> WithSN(SentryEntry(n - 1), n - 1)])
  /\ rec = Ref!Record(ref, "none")

\* gen_cset's OP_WRITE: the reference database says if it is OP_WRITE or
\* OP_CREATE for the updater.
RunSet(k, v) ==
  LET g == Ref!SetEntry(ref, k, v) IN
  /\ MayRun
  /\ IF g.rec.op = "write" THEN WriteKV(k, v) ELSE CreateKV(k, v)
  /\ ref' = g.db /\ rec' = g.rec

\* gen_cset's OP_DELETE: dropped when the key does not exist.
RunRemove(k) ==
  /\ MayRun
  /\ k \in DOMAIN ref.kh2e
  /\ DeleteKV(k)
  /\ LET g == Ref!RemoveEntry(ref, k) IN ref' = g.db /\ rec' = g.rec

Background ==
  \/ CreateIndex \/ CompactStale \/ Compact \/ EndBlock
  \/ \E n \in 1 .. MaxSN : Flush(n)
  \/ CompactorScan \/ CompactorProduce

CheckNext ==
  \/ \E k \in Keys : (\E v \in Values : RunSet(k, v)) \/ RunRemove(k)
  \/ Background /\ UNCHANGED oracleVars

CheckSpec == CheckInit /\ [][CheckNext]_checkVars
-----------------------------------------------------------------------------
(* The assertions.                                                         *)

\* compare_active_info, before each operation.
CompareActiveInfo == Cardinality(index) = ref.active /\ snStart = ref.oldest

Logged(e) == e.sn \in DOMAIN log /\ WithSN(log[e.sn], e.sn) = e

InSeq(s) == {s[i] : i \in DOMAIN s}

\* compare_old_entry and compare_prev_entry: what an operation would read next.
CompareRead ==
  {WithSN(log[p], p) : p \in ActivePos} = {ref.kh2e[h] : h \in DOMAIN ref.kh2e}

\* compare_prev_changed and compare_new_entry, once the entries are appended.
CompareWritten == \A e \in InSeq(rec.wr) : Logged(e)

\* compare_dig_entry and compare_put_entry.  The calls of compact() still to be
\* made are the last `todo' of the record.
CompareCompacted ==
  pc # "index" =>
    /\ todo <= Len(rec.dig)
    /\ \A i \in 1 .. Len(rec.dig) - todo : Logged(rec.dig[i]) /\ Logged(rec.put[i])

\* The reference database and the shard never disagree: the same entries are
\* active between operations, with the same serial numbers; each operation
\* writes, digs out and puts back the entries of its record, however the
\* compactor and its ring of jobs are scheduled; and the next operation finds
\* num_active and sn_start as recorded.  A disagreement is a failed assertion
\* of check_rec.
OracleAgrees ==
  /\ pc = "idle" => /\ CompareActiveInfo /\ CompareRead /\ ref.next = snEnd
                    /\ \A h \in DOMAIN ref.kh2e : Ref!CheckEntry(ref, ref.kh2e[h])
  /\ CompareWritten
  /\ CompareCompacted
=============================================================================
