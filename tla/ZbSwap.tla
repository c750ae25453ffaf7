------------------------------- MODULE ZbSwap -------------------------------
(***************************************************************************)
(* The image swap of ZB-8 for one slot area: zb_img_swap and the log of    *)
(* its commands (src/zb8/zb8/src/zb8_move.c, zb8_flash.c), the validation  *)
(* and confirmation of images (zb8_image.c, zb8_confirm.c), the decision   *)
(* of the first stage loader which image to start (zb8_fsl.c), the swapper *)
(* around it and the upload of an image (zb8_dfu.c), with power failing    *)
(* between and within the steps.                                           *)
(*                                                                         *)
(* A cell is one sector of flash.  The move slot is the run slot shifted   *)
(* by one sector, the sector after the run slot keeps the CRC of a         *)
(* confirmed run image (VERIFY), and the upgrade slot is either apart      *)
(* (a classic swap, logged in swpstat) or the move slot itself (in place,  *)
(* without a log).  An image fills whole sectors, its header is in the     *)
(* first.                                                                  *)
(***************************************************************************)
EXTENDS Integers, Sequences

CONSTANTS
  N,             \* sectors of the run slot
  Layouts,       \* slot areas: in place (TRUE) or classic
  Images,        \* signed images: name, size, enc, conf, major, minor
  Factory,       \* images the run slot may hold when the device is delivered
  Uploads,       \* images that are sent to the device, by its layout
  LogSize,       \* commands the swpstat area has room for
  MaxLosses,     \* bound: power failures during one logged swap
  LossAt,        \* places (values of at) where power may fail
  TornLogErase,  \* an interrupted erase of swpstat may leave its first part
  OtherDeps,     \* outcomes of the dependencies on other slot areas: these
                 \* are swapped first, also after a restart
  None,          \* no image, no job, no key
  NoCrypt        \* the sector is copied as it is

ASSUME SlotAssumption ==
  /\ N \in 1..255                       \* cmd3 is a u8
  /\ Layouts \subseteq BOOLEAN /\ TornLogErase \in BOOLEAN
  /\ LogSize \in Nat /\ MaxLosses \in Nat
  /\ OtherDeps \subseteq BOOLEAN /\ OtherDeps # {}

ASSUME ImagesAssumption ==
  /\ \A m \in Images : /\ m.size \in 1..N
                       /\ m.enc \in BOOLEAN /\ m.conf \in BOOLEAN
                       /\ m.major \in Nat /\ m.minor \in Nat
  /\ Factory \subseteq Images /\ Uploads \in [BOOLEAN -> SUBSET Images]
  /\ None \notin Images /\ NoCrypt \notin Images /\ None # NoCrypt

VARIABLES
  flash,        \* the sectors of all slots; survives power loss
  log,          \* the swpstat area; survives power loss
  at,           \* what the processor is executing
  cmd,          \* zb_img_swap: the command being executed
  job,          \* zb_img_move: sector to copy, where to, and the key
  upgr_ok, upgr_key,             \* upgr_info.img_ok, enc_key
  run_confirmed,                 \* run_info.confirmed
  in_place, upgr_slt,            \* kind of swap, base of the upgrade slot
  upg2run_done, mov2upg_done,
  dfu,          \* image being received and the sectors written
  pending,      \* history: the image received and not yet taken to swap
  losses        \* power failures while the log says a swap is not over

session == <<cmd, job, upgr_ok, upgr_key, run_confirmed, in_place, upgr_slt,
             upg2run_done, mov2upg_done>>
vars == <<flash, log, at, session, dfu, pending, losses>>

-----------------------------------------------------------------------------
(* Sectors.  An image is sent encrypted if it has an EPUBKEY entry; in the *)
(* run slot it is plain.  Of a first sector that was written or erased in  *)
(* part the header may be intact ("broken").                               *)
Run  == 0
Move == 1
Verify  == N

Address(in_pl) == 0 .. (IF in_pl THEN N ELSE 2 * N)

(* zb_inplace_slt: there is no upgrade slot apart.                         *)
InPlace == N + 1 \notin DOMAIN flash
Upgrade == IF InPlace THEN Move ELSE N + 1

Blank == [kind |-> "blank"]
Torn  == [kind |-> "torn"]
Sec(m, n, f) == [kind |-> "image", of |-> m, n |-> n, form |-> f]
Crc(content) == [kind |-> "crc", of |-> content]

RunForm(m) == IF m.enc THEN "plain" ELSE "sent"

HasHdr(s) == flash[s].kind = "image" /\ flash[s].n = 0
Hdr(s)    == flash[s].of

Holds(s, m, form) == \A i \in 0..m.size - 1 : flash[s + i] = Sec(m, i, form)

(* What a sector may hold after its erase, or the write of c, was cut off. *)
Damaged(old, c) ==
  {Blank, Torn} \cup {Sec(x.of, 0, "broken") :
                        x \in {y \in {old, c} : y.kind = "image" /\ y.n = 0}}

(* zb_erase refuses what reaches over the end of the slot.                 *)
ErasedIn(slt, n) ==
  IF n < N THEN [flash EXCEPT ![slt + n] = Blank] ELSE flash

-----------------------------------------------------------------------------
(* AES-CTR over what follows the header: with the key of the image it      *)
(* turns the form it was sent in into the plain one and back, with another *)
(* key, or one that was never set, it makes garbage.  NoCrypt: enc_start   *)
(* is the end of the image.                                                *)

Crypted(c, key) ==
  IF key = NoCrypt THEN c
  ELSE IF c.kind # "image" THEN Torn
  ELSE IF c.of = key /\ c.form \in {"sent", "plain"}
       THEN [c EXCEPT !.form = IF @ = "sent" THEN "plain" ELSE "sent"]
  ELSE IF c.n = 0 THEN Sec(c.of, 0, "broken") ELSE Torn

(* zb_slt_validate: the CRC of the run image is the one in VERIFY.         *)
RunContent == [i \in 0..Hdr(Run).size - 1 |-> flash[Run + i]]
Validated  == HasHdr(Run) /\ flash[Verify] = Crc(RunContent)

(* Mutant: the hash of an image is not compared.                           *)
HashOk_Skipped(s) == TRUE

(* img_get_info, the hash over the image as it was sent ...                *)
HashOk(s) == Holds(s, Hdr(s), "sent")

(* Mutant: dependencies are not looked at.                                 *)
DepOk_Ignored(m) == TRUE

(* ... and the dependency on the run image that zb8tool writes: its major  *)
(* and minor versions are at most those of the new image, and equal to     *)
(* them if the new image is not confirmed.  An empty run slot passes.      *)
DepOk(m) ==
  HasHdr(Run) =>
    /\ Hdr(Run).major <= m.major /\ Hdr(Run).minor <= m.minor
    /\ ~ m.conf => Hdr(Run).major = m.major /\ Hdr(Run).minor = m.minor

(* The key after img_get_info of image m: it is computed once only.        *)
KeyOf(m) == IF m.enc /\ upgr_key = None THEN m ELSE upgr_key

-----------------------------------------------------------------------------
(* The log: zb_cmd_read returns the last command whose CRC8 is right.      *)
C2 == {"EMPTY", "RUN2MOV", "UPG2RUN", "MOV2UPG", "FINALISE", "SWP_END"}
Cmd(c2, c3) == [c2 |-> c2, c3 |-> c3]
NoCmd == Cmd("EMPTY", 0)

(* Mutant: the swap goes on after the last command in the log, as if the   *)
(* log was written after a command and not before it.                      *)
LastCmd_Done ==
  LET good == {k \in 1..Len(log) : log[k] # Torn}
      k == CHOOSE x \in good : \A l \in good : l <= x
  IN  IF good = {} THEN NoCmd
      ELSE IF log[k].c2 = "UPG2RUN" THEN Cmd("MOV2UPG", log[k].c3)
      ELSE log[k]

LastCmd ==
  LET good == {k \in 1..Len(log) : log[k] # Torn}
  IN  IF good = {} THEN NoCmd
      ELSE log[CHOOSE k \in good : \A l \in good : l <= k]

Continue == ~ InPlace /\ LastCmd.c2 \notin {"EMPTY", "SWP_END"}

-----------------------------------------------------------------------------
(* zb_img_swap has returned, or has not started.                           *)
NoSession ==
  /\ cmd' = NoCmd /\ job' = None
  /\ upgr_ok' = FALSE /\ upgr_key' = None /\ run_confirmed' = FALSE
  /\ in_place' = InPlace /\ upgr_slt' = Upgrade
  /\ upg2run_done' = FALSE /\ mov2upg_done' = InPlace

Init ==
  /\ \E m \in Factory \cup {None}, in_pl \in Layouts :
       flash = [s \in Address(in_pl) |->
                  IF m # None /\ s < m.size THEN Sec(m, s, RunForm(m))
                  ELSE IF m # None /\ s = Verify
                  THEN Crc([i \in 0..m.size - 1 |-> Sec(m, i, RunForm(m))])
                  ELSE Blank]
  /\ log = <<>> /\ at = "off"
  /\ cmd = NoCmd /\ job = None
  /\ upgr_ok = FALSE /\ upgr_key = None /\ run_confirmed = FALSE
  /\ in_place = InPlace /\ upgr_slt = Upgrade
  /\ upg2run_done = FALSE /\ mov2upg_done = InPlace
  /\ dfu = None /\ pending = None /\ losses = 0

(* zb_fsl_boot *)
Boot ==
  /\ at = "off"
  /\ at' = IF Validated THEN "app" ELSE "swap"
  /\ UNCHANGED <<flash, log, session, dfu, pending, losses>>

(* zb_fsl_jump_run: the image is started without a look at its CRC.        *)
JumpRun == at' = (IF HasHdr(Run) THEN "app" ELSE "dead") /\ NoSession

(* zb_val_img_info of the upgrade slot                                     *)
UpgradeValid(others) ==
  HasHdr(Upgrade) /\ HashOk(Upgrade) /\ DepOk(Hdr(Upgrade)) /\ others

(* zb_img_swap up to its loop, and what main does with an error            *)
SwapStart ==
  /\ at = "swap"
  /\ \/ Validated /\ JumpRun /\ UNCHANGED pending
     \/ /\ ~ Validated /\ Continue
        /\ at' = "cmd" /\ cmd' = LastCmd
        /\ UNCHANGED <<job, upgr_ok, upgr_key, run_confirmed, in_place,
                       upgr_slt, upg2run_done, mov2upg_done, pending>>
     \/ /\ ~ Validated /\ ~ Continue
        /\ \E others \in OtherDeps : ~ UpgradeValid(others)
        /\ IF InPlace THEN at' = "loader" /\ NoSession ELSE JumpRun
        /\ UNCHANGED pending
     \/ /\ ~ Validated /\ ~ Continue
        /\ \E others \in OtherDeps : UpgradeValid(others)
        /\ upgr_ok' = TRUE /\ upgr_key' = KeyOf(Hdr(Upgrade))
        /\ at' = IF InPlace THEN "cmd" ELSE "wipe"
        /\ pending' = None
        /\ UNCHANGED <<cmd, job, run_confirmed, in_place, upgr_slt,
                       upg2run_done, mov2upg_done>>
  /\ UNCHANGED <<flash, log, dfu, losses>>

WipeLog ==
  /\ at = "wipe"
  /\ log' = <<>> /\ losses' = 0 /\ at' = "cmd"
  /\ UNCHANGED <<flash, session, dfu, pending>>

-----------------------------------------------------------------------------
(* The loop of zb_img_swap: a command erases the sector it is about, then  *)
(* the sector is copied and the next command written to the log.           *)
Goto(place, c2, c3) == at' = place /\ cmd' = Cmd(c2, c3 % 256)   \* cmd3 is a u8

CopyJob(from, to, key) == job' = [from |-> from, to |-> to, key |-> key]

(* run_info.confirmed is set by img_get_info and never reset.              *)
ReadRunInfo ==
  run_confirmed' = (run_confirmed \/ (HasHdr(Run) /\ Hdr(Run).conf))

StartMove ==
  /\ at = "cmd" /\ cmd.c2 = "EMPTY"
  /\ IF in_place \/ ~ HasHdr(Run)
       THEN Goto("log", "UPG2RUN", 0) /\ UNCHANGED run_confirmed
       ELSE Goto("log", "RUN2MOV", Hdr(Run).size - 1) /\ ReadRunInfo
  /\ UNCHANGED <<flash, log, job, upgr_ok, upgr_key, in_place, upgr_slt,
                 upg2run_done, mov2upg_done, dfu, pending, losses>>

Run2Mov ==
  /\ at = "cmd" /\ cmd.c2 = "RUN2MOV"
  /\ flash' = ErasedIn(Move, cmd.c3)
  /\ CopyJob(Run + cmd.c3, Move + cmd.c3, NoCrypt)
  /\ IF cmd.c3 = 0 THEN Goto("copy", "UPG2RUN", 0)
                   ELSE Goto("copy", "RUN2MOV", cmd.c3 - 1)
  /\ ReadRunInfo
  /\ UNCHANGED <<log, upgr_ok, upgr_key, in_place, upgr_slt,
                 upg2run_done, mov2upg_done, dfu, pending, losses>>

(* Mutant: the old image is not moved on to the upgrade slot.              *)
AfterUpg2Run_NoMov2Upg(place) == Goto(place, "UPG2RUN", cmd.c3 + 1)

(* Mutant: a drop back is continued like a classic swap.                   *)
AfterUpg2Run_Classic(place) == Goto(place, "MOV2UPG", cmd.c3)

(* After sector c3 of the run slot.                                        *)
AfterUpg2Run(place) ==
  IF in_place THEN Goto(place, "UPG2RUN", cmd.c3 + 1)
              ELSE Goto(place, "MOV2UPG", cmd.c3)

(* Sector 0: the upgrade image is read, and validated unless that was done *)
(* when the swap was started.  Its dependency on the run slot, where the   *)
(* header has just been erased, holds.                                     *)
UpgradeGood(others) ==
  /\ HasHdr(upgr_slt) /\ (upgr_ok \/ HashOk(upgr_slt))
  /\ others

Upg2RunFirst ==
  /\ at = "cmd" /\ cmd.c2 = "UPG2RUN" /\ ~ upg2run_done /\ cmd.c3 = 0
  /\ flash' = ErasedIn(Run, 0)
  /\ \E others \in IF upgr_ok /\ upgr_slt = Upgrade THEN {TRUE} ELSE OtherDeps :
       LET m == Hdr(upgr_slt)
       IN  \/ /\ UpgradeGood(others)
              /\ upgr_ok' = TRUE /\ upgr_key' = KeyOf(m)
              /\ CopyJob(upgr_slt, Run, IF m.enc THEN KeyOf(m) ELSE NoCrypt)
              /\ AfterUpg2Run("copy")
              /\ UNCHANGED <<in_place, upgr_slt>>
           \/ /\ ~ UpgradeGood(others)              \* drop back the old image
              /\ IF HasHdr(upgr_slt) /\ (upgr_ok \/ HashOk(upgr_slt))
                   THEN upgr_ok' = TRUE /\ upgr_key' = KeyOf(m)
                   ELSE UNCHANGED <<upgr_ok, upgr_key>>
              /\ in_place' = TRUE /\ upgr_slt' = Move
              /\ Goto("log", "UPG2RUN", 0) /\ UNCHANGED job
  /\ UNCHANGED <<log, run_confirmed, upg2run_done, mov2upg_done, dfu, pending,
                 losses>>

(* Mutant: the end of the image is not looked for.                         *)
Upg2RunNext_NoEnd ==
  /\ at = "cmd" /\ cmd.c2 = "UPG2RUN" /\ ~ upg2run_done /\ cmd.c3 > 0
  /\ flash' = ErasedIn(Run, cmd.c3)
  /\ CopyJob(upgr_slt + cmd.c3, Run + cmd.c3, upgr_key)
  /\ AfterUpg2Run("copy")
  /\ UNCHANGED <<log, upgr_ok, upgr_key, run_confirmed, in_place,
                 upgr_slt, upg2run_done, mov2upg_done, dfu, pending, losses>>

(* The sectors after it: the header is read from the run slot.  After a    *)
(* restart img_ok is not set, the hash over the half-written run image     *)
(* fails, and the key is not computed although enc_start already is the    *)
(* start of the image.                                                     *)
Upg2RunNext ==
  /\ at = "cmd" /\ cmd.c2 = "UPG2RUN" /\ ~ upg2run_done /\ cmd.c3 > 0
  /\ flash' = ErasedIn(Run, cmd.c3)
  /\ \E end \in IF HasHdr(Run) THEN {Hdr(Run).size} ELSE 0..N :
       IF cmd.c3 < end
         THEN /\ CopyJob(upgr_slt + cmd.c3, Run + cmd.c3,
                         IF upgr_ok /\ HasHdr(Run) /\ ~ Hdr(Run).enc
                         THEN NoCrypt ELSE upgr_key)
              /\ AfterUpg2Run("copy") /\ UNCHANGED upg2run_done
         ELSE /\ upg2run_done' = TRUE
              /\ AfterUpg2Run("log") /\ UNCHANGED job
  /\ upgr_ok' = (upgr_ok \/ (HasHdr(Run) /\ HashOk(Run)
                                /\ cmd.c3 >= Hdr(Run).size))
  /\ UNCHANGED <<log, upgr_key, run_confirmed, in_place, upgr_slt,
                 mov2upg_done, dfu, pending, losses>>

Upg2RunSkip ==
  /\ at = "cmd" /\ cmd.c2 = "UPG2RUN" /\ upg2run_done
  /\ Goto("log", IF in_place THEN "FINALISE" ELSE "MOV2UPG", cmd.c3)
  /\ UNCHANGED <<flash, log, job, upgr_ok, upgr_key, run_confirmed, in_place,
                 upgr_slt, upg2run_done, mov2upg_done, dfu, pending, losses>>

(* The header of the old image is in the move slot for sector 0 and in the *)
(* upgrade slot after that; there may be no old image.                     *)
Mov2Upg ==
  /\ at = "cmd" /\ cmd.c2 = "MOV2UPG" /\ ~ mov2upg_done
  /\ flash' = ErasedIn(upgr_slt, cmd.c3)
  /\ LET s == IF cmd.c3 = 0 THEN Move ELSE upgr_slt
     IN  IF HasHdr(s) /\ cmd.c3 < Hdr(s).size
           THEN /\ CopyJob(Move + cmd.c3, upgr_slt + cmd.c3,
                           IF Hdr(s).enc THEN Hdr(s) ELSE NoCrypt)
                /\ Goto("copy", "UPG2RUN", cmd.c3 + 1)
                /\ UNCHANGED mov2upg_done
           ELSE /\ mov2upg_done' = TRUE
                /\ Goto("log", "UPG2RUN", cmd.c3 + 1) /\ UNCHANGED job
  /\ UNCHANGED <<log, upgr_ok, upgr_key, run_confirmed, in_place, upgr_slt,
                 upg2run_done, dfu, pending, losses>>

(* Mutant: when both images are through, it goes back and not on.          *)
Mov2UpgSkip_Back ==
  /\ at = "cmd" /\ cmd.c2 = "MOV2UPG" /\ mov2upg_done
  /\ Goto("log", "UPG2RUN", cmd.c3 + (IF upg2run_done THEN 0 ELSE 1))
  /\ UNCHANGED <<flash, log, job, upgr_ok, upgr_key, run_confirmed, in_place,
                 upgr_slt, upg2run_done, mov2upg_done, dfu, pending, losses>>

Mov2UpgSkip ==
  /\ at = "cmd" /\ cmd.c2 = "MOV2UPG" /\ mov2upg_done
  /\ IF upg2run_done THEN Goto("log", "FINALISE", cmd.c3)
                     ELSE Goto("log", "UPG2RUN", cmd.c3 + 1)
  /\ UNCHANGED <<flash, log, job, upgr_ok, upgr_key, run_confirmed, in_place,
                 upgr_slt, upg2run_done, mov2upg_done, dfu, pending, losses>>

(* zb_img_move *)
Copy ==
  /\ at = "copy"
  /\ flash' = [flash EXCEPT ![job.to] = Crypted(flash[job.from], job.key)]
  /\ at' = "log" /\ job' = None
  /\ UNCHANGED <<log, cmd, upgr_ok, upgr_key, run_confirmed, in_place,
                 upgr_slt, upg2run_done, mov2upg_done, dfu, pending, losses>>

(* zb_slt_confirm changes nothing when the CRC is right already.           *)
Finalise ==
  /\ at = "cmd" /\ cmd.c2 = "FINALISE"
  /\ ReadRunInfo
  /\ IF run_confirmed' /\ HasHdr(Run) /\ ~ Validated
       THEN Goto("unsign", "SWP_END", cmd.c3)
       ELSE Goto("log", "SWP_END", cmd.c3)
  /\ UNCHANGED <<flash, log, job, upgr_ok, upgr_key, in_place, upgr_slt,
                 upg2run_done, mov2upg_done, dfu, pending, losses>>

(* zb_cmd_write; its -ENOSPC is ignored.                                   *)
WriteLog ==
  /\ at = "log"
  /\ log' = IF ~ InPlace /\ Len(log) < LogSize THEN Append(log, cmd) ELSE log
  /\ IF cmd.c2 = "SWP_END" THEN JumpRun
                           ELSE at' = "cmd" /\ UNCHANGED session
  /\ UNCHANGED <<flash, dfu, pending, losses>>

-----------------------------------------------------------------------------
(* VERIFY is erased by zb_slt_confirm and before an upload, and written by *)
(* zb_slt_confirm.                                                         *)
EraseVerify ==
  /\ at = "unsign"
  /\ flash' = [flash EXCEPT ![Verify] = Blank]
  /\ at' = IF dfu # None THEN "upload" ELSE "sign"
  /\ UNCHANGED <<log, session, dfu, pending, losses>>

WriteVerify ==
  /\ at = "sign"
  /\ flash' = [flash EXCEPT ![Verify] = Crc(RunContent)]
  /\ at' = IF cmd.c2 = "SWP_END" THEN "log" ELSE "app"
  /\ UNCHANGED <<log, session, dfu, pending, losses>>

(* zb_dfu_confirm *)
AppConfirm ==
  /\ at = "app" /\ ~ Validated
  /\ at' = "unsign"
  /\ UNCHANGED <<flash, log, session, dfu, pending, losses>>

(* zb_dfu_ldr_start, zb_dfu_swpr_start *)
AppLeaves ==
  /\ \/ at = "app" /\ at' = IF InPlace THEN "loader" ELSE "swap"
     \/ at = "loader" /\ at' = "swap"
  /\ UNCHANGED <<flash, log, session, dfu, pending, losses>>

(* zb_dfu_receive: the first buffer erases VERIFY of a classic slot area,  *)
(* the first buffer of a sector erases that sector.                        *)
UploadStart ==
  /\ at = (IF InPlace THEN "loader" ELSE "app")
  /\ \E m \in Uploads[InPlace] : dfu' = [of |-> m, n |-> 0]
  /\ at' = IF InPlace THEN "upload" ELSE "unsign"
  /\ pending' = None
  /\ UNCHANGED <<flash, log, session, losses>>

UploadSector ==
  /\ at = "upload" /\ dfu.n < dfu.of.size
  /\ flash' = [flash EXCEPT ![Upgrade + dfu.n] = Sec(dfu.of, dfu.n, "sent")]
  /\ dfu' = [dfu EXCEPT !.n = @ + 1]
  /\ UNCHANGED <<log, at, session, pending, losses>>

UploadDone ==
  /\ at = "upload" /\ dfu.n = dfu.of.size
  /\ pending' = dfu.of /\ dfu' = None
  /\ at' = IF InPlace THEN "loader" ELSE "app"
  /\ UNCHANGED <<flash, log, session, losses>>

-----------------------------------------------------------------------------
(* The sector under way, and what it is to hold.                           *)
Erasing ==
  \/ cmd.c2 = "RUN2MOV"
  \/ cmd.c2 = "UPG2RUN" /\ ~ upg2run_done /\ cmd.c3 < N
  \/ cmd.c2 = "MOV2UPG" /\ ~ mov2upg_done /\ cmd.c3 < N

ErasedSector == cmd.c3 + CASE cmd.c2 = "RUN2MOV" -> Move
                           [] cmd.c2 = "UPG2RUN" -> Run
                           [] cmd.c2 = "MOV2UPG" -> upgr_slt

Changing ==
  CASE at = "cmd" /\ Erasing -> {<<ErasedSector, Blank>>}
    [] at = "copy"   -> {<<job.to, Crypted(flash[job.from], job.key)>>}
    [] at = "unsign" -> {<<Verify, Blank>>}
    [] at = "sign"   -> {<<Verify, Crc(RunContent)>>}
    [] at = "upload" /\ dfu.n < dfu.of.size ->
         {<<Upgrade + dfu.n, Sec(dfu.of, dfu.n, "sent")>>}
    [] OTHER -> {}

PowerLoss ==
  /\ at \in LossAt
  /\ Continue => losses < MaxLosses
  /\ losses' = IF Continue THEN losses + 1 ELSE losses
  /\ \/ UNCHANGED <<flash, log>>
     \/ \E t \in Changing : \E c \in Damaged(flash[t[1]], t[2]) :
          flash' = [flash EXCEPT ![t[1]] = c] /\ UNCHANGED log
     \/ /\ at = "log" /\ ~ InPlace
        /\ Len(log) < LogSize
        /\ log' = Append(log, Torn) /\ UNCHANGED flash
     \/ /\ at = "wipe"
        /\ \E k \in IF TornLogErase THEN 0..Len(log) ELSE {0} :
             log' = SubSeq(log, 1, k)
        /\ UNCHANGED flash
  /\ at' = "off" /\ dfu' = None /\ NoSession
  /\ UNCHANGED pending

Reset ==
  /\ at \in {"app", "loader", "dead"}
  /\ at' = "off"
  /\ UNCHANGED <<flash, log, session, dfu, pending, losses>>

-----------------------------------------------------------------------------
Step == \/ Boot \/ SwapStart \/ WipeLog \/ StartMove \/ Run2Mov
        \/ Upg2RunFirst \/ Upg2RunNext \/ Upg2RunSkip
        \/ Mov2Upg \/ Mov2UpgSkip \/ Copy \/ Finalise \/ WriteLog
        \/ EraseVerify \/ WriteVerify \/ UploadSector \/ UploadDone

Environment == AppConfirm \/ AppLeaves \/ UploadStart \/ Reset

Next == Step \/ Environment \/ PowerLoss

Spec == Init /\ [][Next]_vars

(* The processor runs on; nothing makes the application confirm or upload, *)
(* and power may fail for ever.                                            *)
FairSpec == Spec /\ WF_vars(Step)

-----------------------------------------------------------------------------
ImageSec == [kind: {"image"}, of: Images, n: 0..N - 1,
             form: {"sent", "plain", "broken"}]

(* Every variable has its type.                                            *)
TypeOK ==
  /\ DOMAIN flash \in {Address(in_pl) : in_pl \in Layouts}
  /\ \A s \in DOMAIN flash :
       \/ flash[s] \in {Blank, Torn} \cup ImageSec
       \/ s = Verify /\ flash[s].kind = "crc"
  /\ \A k \in 1..Len(log) : log[k] \in {Torn} \cup [c2: C2, c3: 0..255]
  /\ Len(log) <= LogSize
  /\ at \in {"off", "swap", "wipe", "cmd", "copy", "log", "unsign", "sign",
             "app", "loader", "upload", "dead"}
  /\ cmd \in [c2: C2, c3: 0..255]
  /\ job = None \/ job \in [from: DOMAIN flash, to: DOMAIN flash,
                            key: {NoCrypt, None} \cup Images]
  /\ upgr_ok \in BOOLEAN /\ upgr_key \in Images \cup {None}
  /\ run_confirmed \in BOOLEAN /\ in_place \in BOOLEAN
  /\ upgr_slt \in {Move, Upgrade}
  /\ upg2run_done \in BOOLEAN /\ mov2upg_done \in BOOLEAN
  /\ dfu = None \/ dfu \in [of: Images, n: 0..N]
  /\ pending \in Images \cup {None}
  /\ losses \in 0..MaxLosses

(* Whatever is started in the run slot is a whole, decrypted image: the    *)
(* swapper jumps to it without looking (zb_fsl_jump_run).                  *)
RunsWhole == at = "app" => HasHdr(Run) /\ Holds(Run, Hdr(Run), RunForm(Hdr(Run)))

(* What the first stage loader will start from now on without a look by    *)
(* the swapper is whole too: a CRC is never written for a damaged image.   *)
SignsWhole == Validated => Holds(Run, Hdr(Run), RunForm(Hdr(Run)))

(* The swapper only confirms images that were confirmed when they were     *)
(* made: an unconfirmed image runs once and has to confirm itself.         *)
ConfirmsConfirmed ==
  at = "sign" /\ cmd.c2 = "SWP_END" => HasHdr(Run) /\ Hdr(Run).conf

(* A swap that ends with success has not passed over an image that was     *)
(* received completely before it.                                          *)
UpgradeTaken == at = "log" /\ cmd.c2 = "SWP_END" => pending = None

(* zb_img_move always knows how much to copy: where sectors after the      *)
(* first are moved, the header of the image they belong to is in the run   *)
(* slot, also when the swap goes on after a power failure.                 *)
LengthKnown ==
  at = "cmd" /\ cmd.c2 = "UPG2RUN" /\ cmd.c3 > 0 => HasHdr(Run)

(* A device that has started an image once has one to start ever after.    *)
StaysAlive == [](at = "app" => [](at # "dead"))

(* Every swap ends and the device starts an image, waits for one in the    *)
(* loader, gives up, or loses power: zb_img_swap does not loop for ever.   *)
SwapEnds == []<>(at \in {"app", "loader", "dead", "off"})
=============================================================================
