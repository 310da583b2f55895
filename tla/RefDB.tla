------------------------------- MODULE RefDB -------------------------------
(***************************************************************************)
(* The reference database of the fuzz driver (examples/v1_fuzz/refdb.rs),  *)
(* for one shard: the same entries kept in a sorted key-value database     *)
(* instead of a log, an indexer and a compactor.  Each operation returns   *)
(* the database and the record (OpRecord) of what it read and wrote, with  *)
(* which the updater's own run is compared (module CheckRec).              *)
(*                                                                         *)
(* A database is a record: kh2e, the KH2E records (key hash to entry);     *)
(* sn2kh, the SN2KH records (serial number of an active entry to key       *)
(* hash); oldest, next and active, this shard's places in                  *)
(* oldest_active_sn_arr, next_sn_arr and num_active_arr; batch, the        *)
(* entries of a write batch that is not written yet.  Versions are left    *)
(* out: they follow the same counter on both sides.                        *)
(***************************************************************************)
EXTENDS Integers, Sequences, FiniteSetsExt, Functions, TLC

CONSTANTS UtilRatio, UtilDiv, CompactThres   \* Config

AddEntry(r, e) ==
  [r EXCEPT !.kh2e = (e.key :> e) @@ @,
            !.sn2kh = (e.sn :> e.key) @@ Restrict(@, DOMAIN @ \ e.dsn)]

RECURSIVE WriteBatch(_)
WriteBatch(r) ==
  IF r.batch = << >> THEN r
  ELSE WriteBatch([AddEntry(r, Head(r.batch)) EXCEPT !.batch = Tail(@)])

\* init_db: `entries' are the sentries, in the order of their serial numbers.
InitDB(entries) ==
  WriteBatch([kh2e |-> << >>, sn2kh |-> << >>, oldest |-> 0,
              next |-> Len(entries), active |-> Len(entries), batch |-> entries])

\* The KH2E record before h; the iterator skips h itself.
PrevEntry(r, h) == r.kh2e[Max({g \in DOMAIN r.kh2e : g < h})]

OldestActive(r) == r.sn2kh[Min({n \in DOMAIN r.sn2kh : n >= r.oldest})]

IsCompactible(r) ==
  /\ (r.next - r.oldest) \div UtilDiv >= r.active \div UtilRatio
  /\ r.active >= CompactThres

Record(r, op) ==
  [op |-> op, active |-> r.active, oldest |-> r.oldest,
   rd |-> << >>, wr |-> << >>, dig |-> << >>, put |-> << >>]

\* compact() reads the database, not the batch it adds to.
Compact(g) ==
  LET old == g.db.kh2e[OldestActive(g.db)]
      new == [old EXCEPT !.sn = g.db.next, !.dsn = {old.sn}]
  IN [db |-> [g.db EXCEPT !.next = @ + 1, !.oldest = old.sn + 1,
                          !.batch = Append(@, new)],
      rec |-> [g.rec EXCEPT !.dig = Append(@, old), !.put = Append(@, new)]]

Written(g) == [g EXCEPT !.db = WriteBatch(@)]

Update(r, k, v) ==
  LET old == r.kh2e[k]
      new == [old EXCEPT !.val = v, !.sn = r.next, !.dsn = {old.sn}]
      g == [db |-> AddEntry([r EXCEPT !.next = @ + 1], new),
            rec |-> [Record(r, "write") EXCEPT !.rd = <<old>>, !.wr = <<new>>]]
  IN IF IsCompactible(g.db) THEN Written(Compact(g)) ELSE g

\* Mutant: only one entry is compacted.
CreateCompactsOnce(r, k, v) ==
  LET prev == PrevEntry(r, k)
      new == [key |-> k, next |-> prev.next, val |-> v, sn |-> r.next, dsn |-> {}]
      changed == [prev EXCEPT !.next = k, !.sn = r.next + 1, !.dsn = {prev.sn}]
      g == [db |-> [AddEntry(AddEntry(r, new), changed)
                      EXCEPT !.next = @ + 2, !.active = @ + 1],
            rec |-> [Record(r, "create") EXCEPT !.rd = <<prev>>,
                                                !.wr = <<changed, new>>]]
  IN IF IsCompactible(g.db) THEN Written(Compact(g)) ELSE g

\* Two calls of compact() after one test.
Create(r, k, v) ==
  LET prev == PrevEntry(r, k)
      new == [key |-> k, next |-> prev.next, val |-> v, sn |-> r.next, dsn |-> {}]
      changed == [prev EXCEPT !.next = k, !.sn = r.next + 1, !.dsn = {prev.sn}]
      g == [db |-> [AddEntry(AddEntry(r, new), changed)
                      EXCEPT !.next = @ + 2, !.active = @ + 1],
            rec |-> [Record(r, "create") EXCEPT !.rd = <<prev>>,
                                                !.wr = <<changed, new>>]]
  IN IF IsCompactible(g.db) THEN Written(Compact(Compact(g))) ELSE g

SetEntry(r, k, v) == IF k \in DOMAIN r.kh2e THEN Update(r, k, v) ELSE Create(r, k, v)

\* Only called for a key that exists: remove_entry does nothing otherwise.
RemoveEntry(r, k) ==
  LET old == r.kh2e[k]
      prev == PrevEntry(r, k)
      changed == [prev EXCEPT !.next = old.next, !.sn = r.next,
                              !.dsn = {old.sn, prev.sn}]
      added == AddEntry(r, changed)
  IN [db |-> [added EXCEPT !.next = @ + 1, !.active = @ - 1,
                           !.kh2e = Restrict(@, DOMAIN @ \ {k})],
      rec |-> [Record(r, "delete") EXCEPT !.rd = <<prev, old>>, !.wr = <<changed>>]]

\* check_entry, the assertion of read_all_entries on each entry.
CheckEntry(r, e) ==
  /\ e.sn \in DOMAIN r.sn2kh /\ r.sn2kh[e.sn] = e.key
  /\ e.dsn \cap DOMAIN r.sn2kh = {}
=============================================================================
