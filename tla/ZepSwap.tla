------------------------------- MODULE ZepSwap ------------------------------
(***************************************************************************)
(* ZEPboot, the predecessor of ZB-8, for one slot area: the bootloader     *)
(* (zb_img_swap, zb_img_cmd_proc and main), what it reads and writes in    *)
(* flash (zb_flash.c, zb_image.c), and the application that receives an    *)
(* image over Bluetooth and asks for the swap (zepboot_dfu.c).             *)
(*                                                                         *)
(* The last sector of a slot is its "end": in slot 0 it keeps the          *)
(* parameters and the swap that was done, in slot 1 the requests of the    *)
(* application; a swap uses it as room for an image that is moved up.      *)
(*                                                                         *)
(* What the processor is about to do to the flash is a sequence of         *)
(* operations, ops.  Power may fail before, in, and after each.            *)
(***************************************************************************)
EXTENDS Integers, Sequences

CONSTANTS
  Sectors,    \* sectors of a slot, its end included
  Images,     \* signed images: name, size, enc, load, version
  First,      \* the image a new device is programmed with
  Uploads,    \* images that are sent to the application
  LogSize,    \* commands the swap status area has room for
  EndSize,    \* commands the end of a slot has room for
  MaxLosses,  \* bound: power failures from one swap to the next
  Spared,     \* what does not happen, see PowerLoss and Begin
  None        \* no image, no key

ASSUME ZepAssumption ==
  /\ Sectors \in Nat \ {0, 1}
  /\ \A m \in Images : /\ m.size \in 1..Sectors - 1 /\ m.enc \in BOOLEAN
                       /\ m.load \in {"slot0", "slot1", "ram"}
                       /\ m.version \in Nat
  /\ First \in Images /\ Uploads \subseteq Images /\ None \notin Images
  /\ LogSize \in Nat \ {0} /\ EndSize \in Nat \ {0} /\ MaxLosses \in Nat
  /\ Spared \subseteq {"swap", "upload"}

VARIABLES
  flash,    \* cells of the slots, parameters, commands; survives power loss
  at,       \* what the processor is executing
  ops,      \* flash operations left of the step
  info,     \* zb_img_swp_info of zb_img_swap
  ran,      \* the slot that was started
  dfu,      \* the image being received and the sectors written
  hist,     \* history: the image that is to run, the one in slot 0, the one
            \* that is to be back
  intent,   \* history: hist once ops are done
  losses    \* power failures since the last swap began

vars == <<flash, at, ops, info, ran, dfu, hist, intent, losses>>

-----------------------------------------------------------------------------
(* Sectors.  The header is in the first; it is never encrypted.  Of a      *)
(* first sector that was damaged the header may be intact ("broken").      *)
End == Sectors - 1

Cell(m, i, f) == [img |-> m, sec |-> i, form |-> f]
Blank   == Cell(None, 0, "blank")
Garbage == Cell(None, 0, "garbage")

HasHdr(c) == c.img # None /\ c.sec = 0

Damaged(old, new) ==
  {old, Blank, Garbage} \cup
    {Cell(c.img, 0, "broken") : c \in {x \in {old, new} : HasHdr(x)}}

(* The place an image runs from, and the form it has there                 *)
RunSlot(m) == IF m.load = "slot1" THEN 1 ELSE 0
RunForm(m) == IF m.enc /\ m.load # "ram" THEN "plain" ELSE "sent"

Holds(s, m, form) ==
  \A i \in 0..m.size - 1 : flash.cell[s][i] = Cell(m, i, form)

(* Commands: cmd1 is a set of bits.  Of a place for commands (0 and 1, the *)
(* ends of the slots; 2, swpstat) it matters which valid command was       *)
(* written last, the one zb_cmd_read finds, and how many places are used:  *)
(* a command with a wrong CRC-8 is passed over, but takes one.             *)
Cmd(bits, step, inplace, sec) ==
  [cmd1 |-> bits, cmd2 |-> step, inplace |-> inplace, cmd3 |-> sec]

NoCmd    == Cmd({}, "empty", FALSE, 0)
EmptyCmd == Cmd({"PERM", "REQUEST", "BT0", "ERROR"}, "all", TRUE, 255)

Room(loc) == IF loc = 2 THEN LogSize ELSE EndSize

Fresh      == [last |-> NoCmd, used |-> 0]
AllTorn(l) == [last |-> NoCmd, used |-> Room(l)]

LastCmd(f, loc) == f.cmds[loc].last
HasCmd(f, loc)  == LastCmd(f, loc) # NoCmd

Requested(f, bit) == HasCmd(f, 1) /\ bit \in LastCmd(f, 1).cmd1

Steps == {"START", "MOVE_UP", "P1", "P2", "P3", "P4"}

Swapping == HasCmd(flash, 2) /\ LastCmd(flash, 2).cmd2 \in Steps

-----------------------------------------------------------------------------
(* zb_img_get_info: what the header at sector e of slot s says.  enc_start *)
(* is the end for an image that is not encrypted: it has no key.           *)
NoImg == [img |-> None, size |-> 0, key |-> None]

ImgInfo(s, e) ==
  LET c == flash.cell[s][e]
  IN  IF HasHdr(c) THEN [img |-> c.img, size |-> c.img.size,
                         key |-> IF c.img.enc THEN c.img ELSE None]
      ELSE NoImg

(* zb_img_calc_crc32: two contents have the same CRC when they are equal.  *)
Content(s) == [i \in 1..ImgInfo(s, 0).size |-> flash.cell[s][i - 1]]

(* zb_img_check; zb_prm_read fails as long as there are no parameters.     *)
NoPrm == [pri |-> "empty"]

Good ==
  LET m == ImgInfo(1, 0).img
  IN  /\ m # None
      /\ Holds(1, m, "sent")
      /\ flash.prm # NoPrm => m.version >= flash.prm.ver[RunSlot(m)]

(* zb_img_cmd_proc_p3_wrt: the parameters of the images now in the slots   *)
Version(s) == IF ImgInfo(s, 0) = NoImg THEN 0 ELSE ImgInfo(s, 0).img.version
LoadOf(s)  == IF ImgInfo(s, 0) = NoImg THEN IF s = 0 THEN "slot0" ELSE "slot1"
              ELSE ImgInfo(s, 0).img.load

Prm(inplace) ==
  [crc |-> [s \in 0..1 |-> Content(s)],
   ver |-> [s \in 0..1 |-> Version(s)],
   sec |-> LoadOf(0),
   pri |-> IF inplace /\ ImgInfo(1, 0) # NoImg THEN LoadOf(1) ELSE LoadOf(0)]

-----------------------------------------------------------------------------
(* Operations on the flash, what they do, and what power failure leaves    *)
Erase(s, i)    == [op |-> "erase", slot |-> s, sec |-> i]
Write(s, i, c) == [op |-> "write", slot |-> s, sec |-> i, cell |-> c]
EraseStat      == [op |-> "erase swpstat"]
WriteCmd(l, c) == [op |-> "command", loc |-> l, cmd |-> c]
WritePrm(p)    == [op |-> "parameters", prm |-> p]

(* The end of a slot holds image data or commands, and in slot 0 the       *)
(* parameters.                                                             *)
WithEnd(f, s, i, cs, p) ==
  IF i # End THEN f
  ELSE [f EXCEPT !.cmds[s] = cs, !.prm = IF s = 0 THEN p ELSE @]

WithCell(f, s, i, c) == [f EXCEPT !.cell[s][i] = c]

(* zb_cmd_write: without an empty place the command is not written.        *)
Full(f, l) == f.cmds[l].used = Room(l)

WithCmd(f, l, c) ==
  IF Full(f, l) THEN f
  ELSE [f EXCEPT !.cmds[l] = [last |-> c, used |-> @.used + 1]]

Done(f, o) ==
  CASE o.op = "erase" ->
         WithEnd(WithCell(f, o.slot, o.sec, Blank), o.slot, o.sec, Fresh, NoPrm)
    [] o.op = "write" ->
         WithCell(f, o.slot, o.sec,
                  IF f.cell[o.slot][o.sec] = Blank THEN o.cell ELSE Garbage)
    [] o.op = "erase swpstat" -> [f EXCEPT !.cmds[2] = Fresh]
    [] o.op = "command" -> WithCmd(f, o.loc, o.cmd)
    [] o.op = "parameters" -> [f EXCEPT !.prm = o.prm]

WildPrm == [pri |-> "wild"]

Interrupted(f, o) ==
  CASE o.op = "erase" ->
         {WithEnd(WithCell(f, o.slot, o.sec, c), o.slot, o.sec, cs, p) :
            c  \in Damaged(f.cell[o.slot][o.sec], Blank),
            cs \in {f.cmds[o.slot], Fresh, AllTorn(o.slot)},
            p  \in {f.prm, NoPrm, WildPrm}}
    [] o.op = "write" ->
         {WithCell(f, o.slot, o.sec, c) : c \in Damaged(Blank, o.cell)}
    [] o.op = "erase swpstat" ->
         {[f EXCEPT !.cmds[2] = cs] : cs \in {f.cmds[2], Fresh, AllTorn(2)}}
    [] o.op = "command" -> {WithCmd(f, o.loc, LastCmd(f, o.loc))}
    [] o.op = "parameters" -> {[f EXCEPT !.prm = WildPrm]}

(* The next operation takes effect; with the first command of a swap, or   *)
(* the one that keeps the running image, the intention becomes a promise.  *)
Promised(o) ==
  /\ o.op = "command"
  /\ \/ o.loc = 2 /\ o.cmd.cmd2 = "START"
     \/ o.loc = 0 /\ at = "restore"

Execute ==
  /\ ops # <<>>
  /\ flash' = Done(flash, Head(ops))
  /\ ops' = Tail(ops)
  /\ hist' = IF Promised(Head(ops)) THEN intent ELSE hist
  /\ losses' = IF Promised(Head(ops)) THEN 0 ELSE losses
  /\ UNCHANGED <<at, info, ran, dfu, intent>>

Ready(place) == at = place /\ ops = <<>>

-----------------------------------------------------------------------------
(* zb_img_swap: a swap that goes on, a request, the wish to keep the       *)
(* running image, the return of the one before it                          *)
NotLoaded == [loaded |-> FALSE]

Continue ==
  /\ Ready("off") /\ Swapping
  /\ at' = "swap"
  /\ UNCHANGED <<flash, ops, info, ran, dfu, hist, intent, losses>>

\* Mutant: the commands of the last swap are not erased.
StartSwap_KeepsLog(bits, inplace) ==
  /\ ops' = <<WriteCmd(2, Cmd(bits, "START", inplace, 0))>>
  /\ at' = "swap"
  /\ UNCHANGED <<flash, info, ran, dfu, hist, losses>>

StartSwap(bits, inplace) ==
  /\ ops' = <<EraseStat, WriteCmd(2, Cmd(bits, "START", inplace, 0))>>
  /\ at' = "swap"
  /\ UNCHANGED <<flash, info, ran, dfu, hist, losses>>

ToSwap == Requested(flash, "REQUEST") /\ Good

Accept ==
  /\ Ready("off") /\ ~Swapping
  /\ ToSwap
  /\ LET m       == ImgInfo(1, 0).img
         inplace == RunSlot(m) = 1
         bits    == (LastCmd(flash, 1).cmd1 \ {"REQUEST"})
                      \cup (IF inplace THEN {"PERM"} ELSE {})
     IN  /\ StartSwap(bits, inplace)
         /\ intent' = [good |-> m,
                       base |-> IF inplace THEN hist.base ELSE m,
                       back |-> IF "PERM" \in bits THEN None ELSE hist.base]

(* Without a command in the end of slot 0 the place that was read is       *)
(* written, all ones.                                                      *)
KeptCmd ==
  IF HasCmd(flash, 0)
  THEN [LastCmd(flash, 0) EXCEPT !.cmd1 = @ \cup {"PERM"}]
  ELSE EmptyCmd

MakePermanent ==
  /\ Ready("off") /\ ~Swapping /\ ~ToSwap
  /\ Requested(flash, "PERM")
  /\ ops' = <<WriteCmd(0, KeptCmd)>>
  /\ at' = "restore"
  /\ intent' = [hist EXCEPT !.back = None]
  /\ UNCHANGED <<flash, info, ran, dfu, hist, losses>>

Nothing ==
  /\ Ready("off") /\ ~Swapping /\ ~ToSwap
  /\ ~Requested(flash, "PERM")
  /\ at' = "restore"
  /\ UNCHANGED <<flash, ops, info, ran, dfu, hist, intent, losses>>

\* Mutant: the request is looked at, not the swap that was done.
Temporary_OfRequest ==
  HasCmd(flash, 1) /\ "PERM" \notin LastCmd(flash, 1).cmd1

Temporary == HasCmd(flash, 0) /\ "PERM" \notin LastCmd(flash, 0).cmd1

Restore ==
  /\ Ready("restore") /\ Temporary
  /\ StartSwap(LastCmd(flash, 0).cmd1 \cup {"PERM"}, FALSE)
  /\ intent' = [good |-> hist.back, base |-> hist.back, back |-> None]

NoRestore ==
  /\ Ready("restore") /\ ~Temporary
  /\ at' = IF HasCmd(flash, 0) THEN "boot" ELSE "dead"
  /\ UNCHANGED <<flash, ops, info, ran, dfu, hist, intent, losses>>

-----------------------------------------------------------------------------
(* zb_get_img_swp_info.  What is moved in RAM load images stays as it is.  *)
Side(s, e) ==
  LET i == ImgInfo(s, e)
  IN  [slot |-> s, img |-> i.img, size |-> i.size,
       key |-> IF i.img # None /\ i.img.load = "ram" THEN None ELSE i.key]

Loaded(c) ==
  LET late == c.cmd2 \in {"P1", "P2"}
      turn == late /\ c.cmd3 # 0
      eoff == IF late /\ c.cmd3 = 0 THEN 1 ELSE 0
  IN  IF c.inplace THEN [loaded |-> TRUE, to |-> Side(1, 0), fr |-> Side(1, 0)]
      ELSE IF turn THEN [loaded |-> TRUE, to |-> Side(1, 0), fr |-> Side(0, 0)]
      ELSE [loaded |-> TRUE, to |-> Side(0, eoff), fr |-> Side(1, eoff)]

(* zb_img_cmd_proc executes the last command, and logs the next one.       *)
cmd == LastCmd(flash, 2)

Step(step) ==
  /\ Ready("swap") /\ Swapping
  /\ cmd.cmd2 = step
  /\ info' = IF info.loaded THEN info ELSE Loaded(cmd)
  /\ UNCHANGED <<flash, at, ran, dfu, hist, intent, losses>>

Then(todo, step, sec) ==
  ops' = Append(todo, WriteCmd(2, [cmd EXCEPT !.cmd2 = step, !.cmd3 = sec]))

\* Mutant: one sector too many is moved up.
Start_OneTooMany ==
  /\ Step("START")
  /\ IF cmd.inplace /\ info'.fr.key = None THEN Then(<<>>, "P3", 0)
     ELSE IF info'.to.size = 0 THEN Then(<<>>, "P1", 0)
     ELSE Then(<<>>, "MOVE_UP", info'.to.size)

Start ==
  /\ Step("START")
  /\ IF cmd.inplace /\ info'.fr.key = None THEN Then(<<>>, "P3", 0)
     ELSE IF info'.to.size = 0 THEN Then(<<>>, "P1", 0)
     ELSE Then(<<>>, "MOVE_UP", info'.to.size - 1)

(* zb_img_move: the data that follows the header is encrypted or           *)
(* decrypted with the key of the image, and the counter of its place.      *)
Crypted(c, key, k) ==
  IF key = None THEN c
  ELSE IF c.img = key /\ c.sec = k /\ c.form \in {"sent", "plain"}
       THEN [c EXCEPT !.form = IF @ = "sent" THEN "plain" ELSE "sent"]
  ELSE IF k = 0 /\ HasHdr(c) THEN Cell(c.img, 0, "broken") ELSE Garbage

Move(s, i, c) == <<Erase(s, i), Write(s, i, c)>>

MoveUp ==
  /\ Step("MOVE_UP")
  /\ LET k == cmd.cmd3
         s == info'.to.slot
     IN  /\ Then(Move(s, k + 1, flash.cell[s][k]),
                 IF k # 0 THEN "MOVE_UP"
                 ELSE IF cmd.inplace THEN "P2" ELSE "P1",
                 IF k = 0 THEN 0 ELSE k - 1)

\* Mutant: the new image is decrypted with the key of the old one.
P1_OtherKey ==
  /\ Step("P1")
  /\ LET k  == cmd.cmd3
         fr == info'.fr
         to == info'.to
     IN  \/ k >= fr.size /\ k >= to.size /\ Then(<<>>, "P3", k)
         \/ k >= fr.size /\ k < to.size  /\ Then(<<>>, "P2", k)
         \/ /\ k < fr.size
            /\ Then(Move(to.slot, k, Crypted(flash.cell[fr.slot][k], to.key, k)),
                    "P2", k)

P1 ==
  /\ Step("P1")
  /\ LET k  == cmd.cmd3
         fr == info'.fr
         to == info'.to
     IN  \/ k >= fr.size /\ k >= to.size /\ Then(<<>>, "P3", k)
         \/ k >= fr.size /\ k < to.size  /\ Then(<<>>, "P2", k)
         \/ /\ k < fr.size
            /\ Then(Move(to.slot, k, Crypted(flash.cell[fr.slot][k], fr.key, k)),
                    "P2", k)

\* Mutant: the image in slot 0 has ended when the new one has.
P2_EndsEarly ==
  /\ Step("P2")
  /\ LET k  == cmd.cmd3
         fr == info'.fr
         to == info'.to
     IN  \/ k >= fr.size /\ Then(<<>>, "P3", k)
         \/ k >= to.size /\ k < fr.size  /\ Then(<<>>, "P1", k + 1)
         \/ /\ k < to.size /\ k < fr.size
            /\ Then(Move(fr.slot, k,
                         Crypted(flash.cell[to.slot][k + 1], to.key, k)),
                    IF cmd.inplace THEN "P2" ELSE "P1", k + 1)

P2 ==
  /\ Step("P2")
  /\ LET k  == cmd.cmd3
         fr == info'.fr
         to == info'.to
     IN  \/ k >= to.size /\ k >= fr.size /\ Then(<<>>, "P3", k)
         \/ k >= to.size /\ k < fr.size  /\ Then(<<>>, "P1", k + 1)
         \/ /\ k < to.size
            /\ Then(Move(fr.slot, k,
                         Crypted(flash.cell[to.slot][k + 1], to.key, k)),
                    IF cmd.inplace THEN "P2" ELSE "P1", k + 1)

(* Without an image in slot 1 there is nothing to go back to.              *)
P3 ==
  /\ Step("P3")
  /\ LET bits == IF ImgInfo(1, 0) = NoImg THEN cmd.cmd1 \cup {"PERM"}
                 ELSE cmd.cmd1
     IN  Then(<<Erase(0, End), WritePrm(Prm(cmd.inplace)),
                WriteCmd(0, [cmd EXCEPT !.cmd1 = bits])>>, "P4", cmd.cmd3)

P4 == Step("P4") /\ Then(<<Erase(1, End)>>, "END", cmd.cmd3)

Finished ==
  /\ Ready("swap") /\ ~Swapping
  /\ at' = "boot"
  /\ UNCHANGED <<flash, ops, info, ran, dfu, hist, intent, losses>>

-----------------------------------------------------------------------------
(* main, after the swap.  When no place in the end of slot 1 is empty and  *)
(* none is valid, cmd is what was on the stack.                            *)
BootsSlot0 ==
  IF HasCmd(flash, 1) THEN {LastCmd(flash, 1).cmd1 = {"BT0"}}
  ELSE IF Full(flash, 1) THEN BOOLEAN ELSE {FALSE}

Chosen(slot0) ==
  LET p   == flash.prm
      pri == IF slot0 THEN p.sec ELSE p.pri
  IN  IF pri = "slot1" /\ Content(1) # p.crc[1] THEN p.sec ELSE pri

Intact(pri) == pri \in {"slot0", "ram"} => Content(0) = flash.prm.crc[0]

Boot ==
  /\ Ready("boot")
  /\ IF flash.prm \in {NoPrm, WildPrm} THEN at' = "dead" /\ UNCHANGED ran
     ELSE \E slot0 \in BootsSlot0 :
            LET pri == Chosen(slot0)
            IN  /\ at' = IF Intact(pri) THEN "app" ELSE "dead"
                /\ ran' = IF pri = "slot1" THEN 1 ELSE 0
  /\ info' = NotLoaded
  /\ UNCHANGED <<flash, ops, dfu, hist, intent, losses>>

-----------------------------------------------------------------------------
(* The application.  The one in slot 1 only reboots.  Spared "upload":     *)
(* nothing is sent to an image that runs on trial.                         *)
NoDfu == [img |-> None, n |-> 0]

App == Ready("app") /\ UNCHANGED <<flash, info, ran, hist, intent, losses>>

(* init_flash_img_ctx                                                      *)
Begin(m) ==
  /\ App /\ ran = 0
  /\ "upload" \in Spared => hist.back = None
  /\ dfu' = [img |-> m, n |-> 0]
  /\ UNCHANGED <<at, ops>>

(* flush_flash_img_ctx erases a sector when it gets to it.                 *)
Receive ==
  /\ App /\ dfu.img # None /\ dfu.n < dfu.img.size
  /\ ops' = Move(1, dfu.n, Cell(dfu.img, dfu.n, "sent"))
  /\ dfu' = [dfu EXCEPT !.n = @ + 1]
  /\ UNCHANGED at

(* A command for the bootloader; a full end of slot 1 is erased first.     *)
Tell(bits) ==
  LET c == WriteCmd(1, Cmd(bits, "none", FALSE, 0))
  IN  IF Full(flash, 1) THEN <<Erase(1, End), c>> ELSE <<c>>

(* finished, with the mode that write_mode has set                         *)
Finish(bits) ==
  /\ App /\ ran = 0
  /\ bits \in {{"REQUEST", "PERM"}, {"REQUEST"}, {"PERM"}}
  /\ ops' = Tell(bits)
  /\ dfu' = NoDfu
  /\ UNCHANGED at

(* write_reboot: 1, start slot 0; 2, start slot 1 again                    *)
RebootTo(slot) ==
  /\ App
  /\ ops' = IF slot = 0 THEN Tell({"BT0"})
            ELSE IF Full(flash, 1) THEN <<Erase(1, End)>> ELSE Tell({})
  /\ UNCHANGED <<at, dfu>>

Off == /\ at' = "off" /\ ops' = <<>> /\ info' = NotLoaded /\ dfu' = NoDfu
       /\ ran' = 0 /\ intent' = hist
       /\ UNCHANGED hist

(* A reset; a dead device is switched off and on.                          *)
Reboot ==
  /\ Ready("app") \/ Ready("dead")
  /\ Off
  /\ UNCHANGED <<flash, losses>>

(* Spared "swap": power does not fail while the images change places.      *)
ChangePlaces ==
  Swapping /\ cmd.cmd2 \in {"P1", "P2"} /\ (cmd.inplace => cmd.cmd3 = 0)

PowerLoss ==
  /\ at # "off"
  /\ "swap" \in Spared => ~ChangePlaces
  /\ losses < MaxLosses /\ losses' = losses + 1
  /\ flash' \in IF ops = <<>> THEN {flash} ELSE Interrupted(flash, Head(ops))
  /\ Off

-----------------------------------------------------------------------------
(* A new device: the first image is in slot 1, with the request to swap.   *)
Init ==
  /\ flash = [cell |-> [s \in 0..1 |-> [i \in 0..End |->
                          IF s = 1 /\ i < First.size THEN Cell(First, i, "sent")
                          ELSE Blank]],
              prm  |-> NoPrm,
              cmds |-> [l \in 0..2 |->
                          IF l = 1 THEN [last |-> Cmd({"REQUEST", "PERM"},
                                                      "none", FALSE, 0),
                                         used |-> 1]
                          ELSE Fresh]]
  /\ at = "off" /\ ops = <<>> /\ info = NotLoaded /\ ran = 0 /\ dfu = NoDfu
  /\ hist = [good |-> First, base |-> First, back |-> None]
  /\ intent = hist
  /\ losses = 0

Bootloader ==
  \/ Continue \/ Accept \/ MakePermanent \/ Nothing \/ Restore \/ NoRestore
  \/ Start \/ MoveUp \/ P1 \/ P2 \/ P3 \/ P4 \/ Finished \/ Boot

Application ==
  \/ \E m \in Uploads : Begin(m)
  \/ Receive
  \/ \E bits \in SUBSET {"REQUEST", "PERM"} : Finish(bits)
  \/ \E slot \in 0..1 : RebootTo(slot)

Next == Bootloader \/ Application \/ Execute \/ Reboot \/ PowerLoss

(* The processor executes; users and power do what they like.              *)
Spec == Init /\ [][Next]_vars /\ WF_vars(Bootloader) /\ WF_vars(Execute)

-----------------------------------------------------------------------------
Ended == ~Swapping /\ at # "swap"

(* Every variable has its type; no operation leaves its slot.              *)
TypeOK ==
  /\ at \in {"off", "swap", "restore", "boot", "app", "dead"}
  /\ ran \in 0..1 /\ losses \in 0..MaxLosses
  /\ \A s \in 0..1 : DOMAIN flash.cell[s] = 0..End
  /\ \A l \in 0..2 : flash.cmds[l].used \in 0..Room(l)
  /\ \A i \in DOMAIN ops : ops[i].op \in {"erase", "write"} =>
                             ops[i].slot \in 0..1 /\ ops[i].sec \in 0..End
  /\ hist.good \in Images /\ hist.back \in Images \cup {None}
  /\ dfu.img \in Images \cup {None}
  /\ info.loaded \in BOOLEAN

(* What the bootloader starts is a whole image, in the form it runs in:    *)
(* the one that was accepted last, the one it was tested against, or, when *)
(* that one runs from slot 1, the one in slot 0 that can replace it.       *)
RunsWhole ==
  /\ at # "dead"
  /\ at = "app" =>
       \E m \in Images : /\ Holds(ran, m, RunForm(m)) /\ RunSlot(m) = ran
                         /\ m \in {hist.good, hist.base}

(* While an image is on trial the one before it is whole in slot 1, ready  *)
(* to be swapped back (docs/usage.md).                                     *)
OldKept == Ended /\ hist.back # None => Holds(1, hist.back, "sent")

(* An image on trial is started only by the boot that swapped it in: by    *)
(* any later one the image before it is back.                              *)
TrialOnce ==
  [][at = "boot" /\ at' = "app" /\ hist.back # None => info.loaded]_vars

(* A swap that has begun comes to its end.                                 *)
SwapEnds == Swapping ~> ~Swapping
=============================================================================
