--------------------------- MODULE MCSharedProfile ---------------------------
(* Two devices, two slots, two values for each.                              *)
EXTENDS SharedProfile, TLC

DeviceSymmetry == Permutations(Devices)
==============================================================================
