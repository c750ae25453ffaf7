------------------------------- MODULE MCSfcb -------------------------------
(* Small instances of the flash circular buffer for TLC.                   *)
EXTENDS SfcbRefinement, TLC

CONSTANTS idA, idB, v1, v2

(* An erase that is cut off has blanked the sector from one end.           *)
LowHalf  == {{0}, 0..SectorSize - 3}
HighHalf == {{SectorSize - 1}, 2..SectorSize - 1}

Symmetry == Permutations(Ids) \cup Permutations(Values)
=============================================================================
