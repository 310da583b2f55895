--------------------------- MODULE MCShardStorage ---------------------------
(* ShardStorage with the entries that a new entry may deactivate bounded to *)
(* the oldest and the newest active one.                                    *)
EXTENDS ShardStorage

MCEnds(active) == {Min(active), Max(active)}
=============================================================================
