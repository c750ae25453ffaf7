-------------------------------- MODULE MCZbDfu -----------------------------
(* Small instances of the reception of an image for TLC.                   *)
EXTENDS ZbDfu, TLC

CONSTANTS areaA, areaB, imgA, imgB, alien

(* imgA and imgB are for one area each, alien is for none.                 *)
TargetOf(m) == CASE m = imgA -> areaA [] m = imgB -> areaB [] OTHER -> None

(* Two sectors, and one.                                                   *)
SlotSizes == (areaA :> 2 * Sector) @@ (areaB :> Sector)
=============================================================================
