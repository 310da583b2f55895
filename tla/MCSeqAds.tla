------------------------------ MODULE MCSeqAds ------------------------------
(* Instances of Stateless for TLC, with the hashes of MCUpdater.               *)
EXTENDS Stateless

CONSTANTS MCSentries, MCUnitSize

MCSentryHash == [n \in 0 .. MCSentries - 1 |-> n * MCUnitSize]
MCEndHash == MCSentries * MCUnitSize
MCK80 == [h \in Keys \cup {MCSentryHash[n] : n \in DOMAIN MCSentryHash} |-> h \div 2]
MCUnitOf == [h \in DOMAIN MCK80 |-> h \div MCUnitSize]
=============================================================================
