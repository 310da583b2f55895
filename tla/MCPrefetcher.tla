---------------------------- MODULE MCPrefetcher ----------------------------
(* Two shards and three blocks.  Two tasks of the first block share a        *)
(* position, a task has entries in one shard only, and with three blocks a   *)
(* cache comes back.  Entries have one or two bytes, a buffer has two.       *)
EXTENDS Prefetcher

MCSize(p) == IF p = 2 THEN 2 ELSE 1
Task(h, reads) == [height |-> h, reads |-> reads]
MCWork == << Task(1, << <<0, 1>>, <<0, 2>> >>), Task(1, << <<0, 2>> >>),
             Task(2, << <<1, 3>> >>), Task(3, << <<0, 1>> >>) >>
MCReads == {<<1, 0, 2>>}
=============================================================================
