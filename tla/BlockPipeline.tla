--------------------------- MODULE BlockPipeline ----------------------------
(***************************************************************************)
(* What the database promises its client about blocks: blocks are started, *)
(* committed and reported in the order of their heights, a block is        *)
(* committed after it was started and reported after it was committed, and *)
(* at most two blocks are between their start and their report.            *)
(***************************************************************************)
EXTENDS Naturals

CONSTANT LastBlock

VARIABLES started, committed, reported
vars == <<started, committed, reported>>

Init == started = 0 /\ committed = 0 /\ reported = 0

Start ==
    /\ started < LastBlock
    /\ started - reported < 2
    /\ started' = started + 1
    /\ UNCHANGED <<committed, reported>>

Commit ==
    /\ committed < started
    /\ committed' = committed + 1
    /\ UNCHANGED <<started, reported>>

Report ==
    /\ reported < committed
    /\ reported' = reported + 1
    /\ UNCHANGED <<started, committed>>

Next == Start \/ Commit \/ Report

Spec == Init /\ [][Next]_vars
=============================================================================
