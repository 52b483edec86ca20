--------------------------- MODULE MCThingDirectory -------------------------
(* ThingDirectory with SunSpec devices that have IDs of their own.  Two      *)
(* such devices are interchangeable.                                       *)
EXTENDS ThingDirectory, TLC

OwnIds == [d \in Devices |-> d]
DevicesAlike == Permutations(Devices)
=============================================================================
