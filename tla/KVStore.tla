------------------------------ MODULE KVStore ------------------------------
(***************************************************************************)
(* What one shard of QMDB promises its client: a map from keys to values   *)
(* changed by the three operations of a change set (OP_CREATE, OP_WRITE    *)
(* and OP_DELETE).  Where an entry lives, how entries are linked, when one *)
(* is moved by compaction and when it reaches the disk are not visible.    *)
(***************************************************************************)
CONSTANTS Keys, Values, NoValue

VARIABLE db

Init == db = [k \in Keys |-> NoValue]

Create(k, v) == /\ db[k] = NoValue
                /\ db' = [db EXCEPT ![k] = v]

Write(k, v) == /\ db[k] # NoValue
               /\ db' = [db EXCEPT ![k] = v]

Delete(k) == /\ db[k] # NoValue
             /\ db' = [db EXCEPT ![k] = NoValue]

Next == \E k \in Keys : \/ \E v \in Values : Create(k, v) \/ Write(k, v)
                        \/ Delete(k)

Spec == Init /\ [][Next]_db
=============================================================================
