-------------------------- MODULE ZbSwapRefinement --------------------------
(***************************************************************************)
(* Where the two images are while they are being swapped.  The place of    *)
(* each sector follows from the last command in the log alone, so this is  *)
(* also where zb_img_swap has to look for it after a power failure.        *)
(***************************************************************************)
EXTENDS ZbSwap

Swapping == ~ InPlace /\ LastCmd.c2 \in {"RUN2MOV", "UPG2RUN", "MOV2UPG"}

(* Sector i of the image that comes and of the one that goes.              *)
InRun(i) ==
  /\ Swapping
  /\ \/ LastCmd.c2 = "UPG2RUN" /\ i < LastCmd.c3
     \/ LastCmd.c2 = "MOV2UPG" /\ i <= LastCmd.c3

InUpgrade(i) == LastCmd.c2 # "RUN2MOV" /\ i < LastCmd.c3

InMove(i) == IF LastCmd.c2 = "RUN2MOV" THEN i > LastCmd.c3
                                       ELSE i >= LastCmd.c3

Coming(m, i) == IF InRun(i) THEN flash[Run + i] = Sec(m, i, RunForm(m))
                            ELSE flash[Upgrade + i] = Sec(m, i, "sent")

Going(m, i) == IF InUpgrade(i) THEN flash[Upgrade + i] = Sec(m, i, "sent")
               ELSE IF InMove(i) THEN flash[Move + i] = Sec(m, i, RunForm(m))
               ELSE flash[Run + i] = Sec(m, i, RunForm(m))

TheImage(set) == IF set = {} THEN None ELSE CHOOSE m \in set : TRUE

Whole(P(_, _)) == TheImage({m \in Images : \A i \in 0..m.size - 1 : P(m, i)})

InRunSlot(m, i)     == flash[Run + i] = Sec(m, i, RunForm(m))
InUpgradeSlot(m, i) == flash[Upgrade + i] = Sec(m, i, "sent")

(* A slot area in place has no log and makes no such promise.              *)
Installed == IF InPlace THEN None
             ELSE IF Swapping THEN Whole(Coming) ELSE Whole(InRunSlot)

Spare     == IF InPlace THEN None
             ELSE IF Swapping THEN Whole(Going) ELSE Whole(InUpgradeSlot)

Device == INSTANCE ImageSwap WITH
            NoImage <- None, installed <- Installed, spare <- Spare

(* The swap is atomic: it happens when its first command is logged, and no *)
(* step, interrupted or not, loses or mixes an image after that.           *)
AtomicSwap == Device!Spec

(* The image that goes is never lost: from the first command in the log    *)
(* until the swap is over it can be put together again, whatever steps     *)
(* were interrupted.                                                       *)
OldImageKept == [][Swapping => Spare' = Spare]_vars

(* A swap whose upgrade image is refused at the last moment goes on as a   *)
(* drop back: the old image is moved from the move slot to the run slot.   *)
DroppingBack == ~ InPlace /\ in_place

SectorsBack == IF at = "copy" THEN cmd.c3 - 1 ELSE cmd.c3

DroppedBack(m, i) ==
  flash[(IF i < SectorsBack THEN Run ELSE Move) + i] = Sec(m, i, RunForm(m))

(* The old image is not lost while it is dropped back, until the swap ends *)
(* or power fails: in_place is not in the log.                             *)
OldImageBack ==
  [][DroppingBack /\ DroppingBack' =>
       Whole(DroppedBack)' = Whole(DroppedBack)]_vars
=============================================================================
