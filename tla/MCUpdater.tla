----------------------------- MODULE MCUpdater -----------------------------
(* Instances of Updater for TLC.  Hash h has k80 h \div 2 and a unit holds  *)
(* MCUnitSize consecutive hashes, of which the first is the sentry.         *)
EXTENDS Updater

CONSTANTS MCSentries, MCUnitSize

MCSentryHash == [n \in 0 .. MCSentries - 1 |-> n * MCUnitSize]
MCEndHash == MCSentries * MCUnitSize
MCK80 == [h \in Keys \cup {MCSentryHash[n] : n \in DOMAIN MCSentryHash} |-> h \div 2]
MCUnitOf == [h \in DOMAIN MCK80 |-> h \div MCUnitSize]
=============================================================================
