---------------------------- MODULE CommitStore ----------------------------
(***************************************************************************)
(* What the sequential ADS promises: a map changed by whole transactions.  *)
(* A block becomes durable when it is committed; a crash takes the map     *)
(* back to the last committed block, and the block that was open starts    *)
(* again from nothing.                                                     *)
(***************************************************************************)
EXTENDS Naturals

CONSTANTS Keys, Values, NoValue

VARIABLES
  db,      \* the map
  saved,   \* the map of the last committed block
  open     \* the number of transactions of the block that is not committed

vars == <<db, saved, open>>

Init == db = [k \in Keys |-> NoValue] /\ saved = db /\ open = 0

\* The keys of `set' get the value v and those of `gone' are deleted.
Tx(set, gone, v) ==
  /\ \A k \in gone : db[k] # NoValue
  /\ db' = [k \in Keys |-> IF k \in set THEN v
                           ELSE IF k \in gone THEN NoValue ELSE db[k]]
  /\ open' = open + 1
  /\ UNCHANGED saved

Commit == open > 0 /\ saved' = db /\ open' = 0 /\ UNCHANGED db

Crash == db' = saved /\ open' = 0 /\ UNCHANGED saved

Next ==
  \/ \E set \in SUBSET Keys, v \in Values :
       \E gone \in SUBSET (Keys \ set) : Tx(set, gone, v)
  \/ Commit \/ Crash

Spec == Init /\ [][Next]_vars
=============================================================================
