----------------------------- MODULE MCPipeline -----------------------------
(* Two shards and three blocks: a task with two change sets in one shard, a  *)
(* block of two tasks, and in every task a shard without operations.         *)
EXTENDS Pipeline

MCWork == << << << <<0>>, <<0>> >>, << <<1>> >> >>,
             << << <<1>> >> >>,
             << << <<0>> >> >> >>
=============================================================================
