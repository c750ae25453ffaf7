--------------------------- MODULE ZepSwapProofs ---------------------------
(***************************************************************************)
(* Proofs about the swap of ZEPboot, for every number of sectors and set   *)
(* of images, encrypted or not, run from slot 0, from slot 1 or from RAM,  *)
(* and every size of the command logs.                                     *)
(*                                                                         *)
(* The invariant ZInv says what is in each sector of the two slots from    *)
(* the last command of the swap log and the history alone (Swap), and of   *)
(* the operations that are left of a step that the last of them may be     *)
(* logged once the others are done (Moving, Closing, Ending).  A sector    *)
(* that a step rewrites is one of which the last command demands nothing   *)
(* (Writing): whatever power failure leaves there, the step can be         *)
(* repeated.                                                               *)
(***************************************************************************)
EXTENDS ZepSwap, TLAPS

-----------------------------------------------------------------------------
(* What the theorems assume.  A new device is programmed with an image     *)
(* that runs from slot 0.  Power does not fail while the images change     *)
(* places, and not so often while one image is on trial that commands cut  *)
(* off fill the end of slot 0 before it is kept; and nothing is sent to    *)
(* an image on trial.                                                      *)
Proviso ==
  /\ {"swap", "upload"} \subseteq Spared
  /\ First.load # "slot1"
  /\ EndSize >= MaxLosses + 2

-----------------------------------------------------------------------------
(* The flash, typed.                                                       *)

Form    == {"blank", "garbage", "sent", "plain", "broken"}
CellSet == [img: Images \cup {None}, sec: Nat, form: Form]
Word    == Steps \cup {"empty", "all", "none", "END"}
CmdSet  == [cmd1: SUBSET {"PERM", "REQUEST", "BT0", "ERROR"}, cmd2: Word,
            inplace: BOOLEAN, cmd3: Nat]

CellsOK(g) == g \in [0..1 -> [0..End -> CellSet]]

Place(l) == [last: CmdSet, used: 0..Room(l)]

FlashOK(f) ==
  /\ f = [cell |-> f.cell, prm |-> f.prm, cmds |-> f.cmds]
  /\ CellsOK(f.cell)
  /\ DOMAIN f.cmds = 0..2 /\ f.cmds = [l \in 0..2 |-> f.cmds[l]]
  /\ \A l \in 0..2 : f.cmds[l] \in Place(l)

-----------------------------------------------------------------------------
(* Images in the cells g.                                                  *)

Put(g, s, i, x) == [g EXCEPT ![s][i] = x]

Size(m) == IF m = None THEN 0 ELSE m.size

Hdr(g, s) == IF HasHdr(g[s][0]) THEN g[s][0].img ELSE None

KeyOf(m) == IF m = None THEN None
            ELSE IF m.enc /\ m.load # "ram" THEN m ELSE None

SideOf(s, m) == [slot |-> s, img |-> m, size |-> Size(m), key |-> KeyOf(m)]

Kept(g, s, m, form) == \A i \in 0..Size(m) - 1 : g[s][i] = Cell(m, i, form)

(* The sectors after k have been moved up.                                 *)
MovedUp(g, s, m, form, k) ==
  \A i \in 0..Size(m) - 1 :
    IF i <= k THEN g[s][i] = Cell(m, i, form) ELSE g[s][i + 1] = Cell(m, i, form)

(* The sectors below k of the image that comes are in slot 0.              *)
Came(g, m, k) ==
  \A i \in 0..Size(m) - 1 :
    IF i < k THEN g[0][i] = Cell(m, i, RunForm(m)) ELSE g[1][i] = Cell(m, i, "sent")

(* Those of the image that goes are in slot 1.                             *)
Went(g, m, k) ==
  \A i \in 0..Size(m) - 1 :
    IF i < k THEN g[1][i] = Cell(m, i, "sent")
    ELSE g[0][i + 1] = Cell(m, i, RunForm(m))

(* The sectors below k of the image that stays in slot 1 are decrypted.    *)
Opened(g, m, k) ==
  \A i \in 0..Size(m) - 1 :
    IF i < k THEN g[1][i] = Cell(m, i, "plain") ELSE g[1][i + 1] = Cell(m, i, "sent")

-----------------------------------------------------------------------------
(* What the flash owes its user when no swap is going on.                  *)

Body(m) == [i \in 1..m.size |-> Cell(m, i - 1, RunForm(m))]

(* The parameters in the end of slot 0: what main compares the slots with  *)
(* before it starts one                                                    *)
PrmOK(p, h) ==
  /\ p \notin {NoPrm, WildPrm}
  /\ p.crc[0] = Body(h.base) /\ p.sec = h.base.load
  /\ \/ p.pri = h.base.load
     \/ p.pri = "slot1" /\ RunSlot(h.good) = 1 /\ p.crc[1] = Body(h.good)

(* After a swap: the image in slot 0 is whole, and while it is on trial    *)
(* the one before it is whole in slot 1                                    *)
Settled(f, h, l) ==
  /\ Kept(f.cell, 0, h.base, RunForm(h.base))
  /\ PrmOK(f.prm, h)
  /\ HasCmd(f, 0)
  /\ "PERM" \in LastCmd(f, 0).cmd1 <=> h.back = None
  /\ h.back # None => /\ Kept(f.cell, 1, h.back, "sent")
                      /\ f.cmds[0].used <= 1 + l

(* A new device.                                                           *)
Fresh0(f, h) ==
  /\ f.prm = NoPrm
  /\ ~ HasHdr(f.cell[0][0])
  /\ Kept(f.cell, 1, First, "sent")
  /\ HasCmd(f, 1) /\ LastCmd(f, 1).cmd1 = {"REQUEST", "PERM"}
  /\ h = [good |-> First, base |-> First, back |-> None]

Resting(f, h, l) == Fresh0(f, h) \/ Settled(f, h, l)

-----------------------------------------------------------------------------
(* A swap, when the last command of the log is c.                          *)

(* The image m that goes, which may be none, is the one to be back         *)
Goes(h, m) == /\ m \in Images \cup {None}
              /\ m # None => RunSlot(m) = 0
              /\ h.back # None => m = h.back

(* What RAM holds of the headers, if anything                              *)
Tells(inf, to, fr) == inf.loaded => inf.to = to /\ inf.fr = fr

(* The images change places: what is where after command c                 *)
Exchange(g, c, h, inf) ==
  LET k   == c.cmd3
      new == h.base
      old == Hdr(g, 0)
  IN  /\ h.good = new
      /\ "PERM" \in c.cmd1 <=> h.back = None
      /\ c.cmd2 \in {"START", "MOVE_UP"} =>
           /\ Goes(h, old) /\ Kept(g, 1, new, "sent")
           /\ Tells(inf, SideOf(0, old), SideOf(1, new))
      /\ c.cmd2 = "START" => Kept(g, 0, old, RunForm(old))
      /\ c.cmd2 = "MOVE_UP" =>
           k < Size(old) /\ MovedUp(g, 0, old, RunForm(old), k)
      /\ c.cmd2 \in {"P1", "P2"} =>
           /\ inf.loaded
           /\ inf.to = SideOf(0, inf.to.img) /\ inf.fr = SideOf(1, new)
           /\ Goes(h, inf.to.img)
           /\ Went(g, inf.to.img, k)
      /\ c.cmd2 = "P1" => Came(g, new, k)
      /\ c.cmd2 = "P2" => Came(g, new, k + 1)
      /\ c.cmd2 \in {"P3", "P4"} =>
           /\ Kept(g, 0, new, RunForm(new))
           /\ h.back # None => Kept(g, 1, h.back, "sent")

(* The image stays in slot 1 and is decrypted there, from the sector above *)
InPlace(g, c, h, inf) ==
  LET k == c.cmd3
      m == h.good
  IN  /\ RunSlot(m) = 1 /\ h.back = None /\ "PERM" \in c.cmd1
      /\ Kept(g, 0, h.base, RunForm(h.base))
      /\ c.cmd2 # "P1"
      /\ c.cmd2 \in {"START", "MOVE_UP", "P2"} =>
           Tells(inf, SideOf(1, m), SideOf(1, m))
      /\ c.cmd2 = "START" => Kept(g, 1, m, "sent")
      /\ c.cmd2 = "MOVE_UP" =>
           m.enc /\ k < Size(m) /\ MovedUp(g, 1, m, "sent", k)
      /\ c.cmd2 = "P2" => /\ m.enc /\ Opened(g, m, k)
                          /\ k = 0 => inf.loaded
      /\ c.cmd2 = "P3" => Kept(g, 1, m, RunForm(m))

Swap(g, c, h, inf) ==
  /\ c.cmd2 \in Steps
  /\ IF c.inplace THEN InPlace(g, c, h, inf) ELSE Exchange(g, c, h, inf)

-----------------------------------------------------------------------------
(* What the processor is doing.                                            *)

HistOK(h) ==
  /\ h = [good |-> h.good, base |-> h.base, back |-> h.back]
  /\ h.good \in Images /\ h.base \in Images /\ h.back \in Images \cup {None}
  /\ RunSlot(h.base) = 0
  /\ h.back # None => RunSlot(h.back) = 0

Log(f)   == LastCmd(f, 2)
Going(f) == HasCmd(f, 2) /\ Log(f).cmd2 \in Steps

(* The first command of a swap is about to be written.                     *)
Starting(f, o, h, it, inf, l) ==
  /\ inf = NotLoaded /\ Resting(f, h, l)
  /\ \E c \in CmdSet :
       /\ c.cmd2 = "START" /\ HistOK(it) /\ Swap(f.cell, c, it, inf)
       /\ \/ o = <<EraseStat, WriteCmd(2, c)>>
          \/ o = <<WriteCmd(2, c)>> /\ f.cmds[2] = Fresh

(* A sector is being rewritten, on which the command does not depend.      *)
Writing(f, o, h, inf, s, i, x, c) ==
  /\ \A y \in CellSet : Swap(Put(f.cell, s, i, y), Log(f), h, inf)
  /\ Swap(Put(f.cell, s, i, x), c, h, inf)
  /\ \/ o = <<Erase(s, i), Write(s, i, x), WriteCmd(2, c)>>
     \/ o = <<Write(s, i, x), WriteCmd(2, c)>> /\ f.cell[s][i] = Blank

(* What is left of a step that moves a sector, or none                     *)
Moving(f, o, h, inf) ==
  /\ Log(f).cmd2 \in {"START", "MOVE_UP", "P1", "P2"}
  /\ \E c \in CmdSet :
       /\ c.cmd2 \in {"MOVE_UP", "P1", "P2", "P3"}
       /\ \/ o = <<WriteCmd(2, c)>> /\ Swap(f.cell, c, h, inf)
          \/ \E s \in 0..1, i \in 0..End, x \in CellSet :
               Writing(f, o, h, inf, s, i, x, c)

(* What is left of P3: parameters and command in the end of slot 0         *)
Recording(f, o, h, l, p, x, y) ==
  \/ o = <<Erase(0, End), WritePrm(p), WriteCmd(0, x), WriteCmd(2, y)>>
  \/ /\ o = <<WritePrm(p), WriteCmd(0, x), WriteCmd(2, y)>>
     /\ f.cmds[0] = Fresh
  \/ /\ o = <<WriteCmd(0, x), WriteCmd(2, y)>>
     /\ f.cmds[0] = Fresh /\ f.prm = p
  \/ o = <<WriteCmd(2, y)>> /\ Settled(f, h, l)

Closing(f, o, h, inf, l) ==
  /\ Log(f).cmd2 = "P3"
  /\ \E p : \E x \in CmdSet, y \in CmdSet :
       /\ x # NoCmd /\ ("PERM" \in x.cmd1 <=> h.back = None)
       /\ y.cmd2 = "P4" /\ Swap(f.cell, y, h, inf)
       /\ PrmOK(p, h) /\ Recording(f, o, h, l, p, x, y)

(* What is left of P4                                                      *)
Ending(f, o) ==
  /\ Log(f).cmd2 = "P4"
  /\ \E c \in CmdSet :
       /\ c.cmd2 = "END"
       /\ \/ o = <<Erase(1, End), WriteCmd(2, c)>>
          \/ o = <<WriteCmd(2, c)>>

SwapOK(f, h, inf, l) ==
  /\ Swap(f.cell, Log(f), h, inf)
  /\ Log(f).cmd2 = "P4" => Settled(f, h, l)

(* What the application may do to the flash                                *)
AppOp(h, r, o) ==
  \/ o = Erase(1, End)
  \/ \E c \in CmdSet : o = WriteCmd(1, c)
  \/ /\ h.back = None /\ r = 0
     /\ \E i \in 0..End - 1 : \/ o = Erase(1, i)
                              \/ \E c \in CellSet : o = Write(1, i, c)

Running(f, o, h, r, m) ==
  /\ \/ o = <<>>
     \/ o = <<o[1]>> /\ AppOp(h, r, o[1])
     \/ o = <<o[1], o[2]>> /\ AppOp(h, r, o[1]) /\ AppOp(h, r, o[2])
  /\ m # None => r = 0 /\ h.back = None
  /\ r = 1 => RunSlot(h.good) = 1 /\ Kept(f.cell, 1, h.good, RunForm(h.good))

Keeping(o, h, it) ==
  \/ o = <<>>
  \/ /\ it = [h EXCEPT !.back = None]
     /\ \E c \in CmdSet : /\ c # NoCmd /\ "PERM" \in c.cmd1
                          /\ o = <<WriteCmd(0, c)>>

(* What holds at each place in the code                                    *)
Doing(f, a, o, inf, r, m, h, it, l) ==
  \/ /\ a = "off" /\ o = <<>> /\ inf = NotLoaded
     /\ IF Going(f) THEN SwapOK(f, h, inf, l) ELSE Resting(f, h, l)
  \/ /\ a = "swap" /\ Going(f) /\ SwapOK(f, h, inf, l)
     /\ \/ o = <<>>
        \/ inf.loaded /\ (Moving(f, o, h, inf) \/ Closing(f, o, h, inf, l) \/ Ending(f, o))
  \/ /\ a = "swap" /\ ~ Going(f)
     /\ \/ Starting(f, o, h, it, inf, l)
        \/ o = <<>> /\ inf.loaded /\ Settled(f, h, l)
  \/ /\ a = "restore" /\ ~ Going(f) /\ inf = NotLoaded
     /\ Settled(f, h, l) /\ Keeping(o, h, it)
  \/ /\ a = "boot" /\ ~ Going(f) /\ o = <<>> /\ Settled(f, h, l)
     /\ h.back # None => inf.loaded
  \/ /\ a = "app" /\ ~ Going(f) /\ inf = NotLoaded
     /\ Settled(f, h, l) /\ Running(f, o, h, r, m)

InfoOK(inf) ==
  \/ inf = NotLoaded
  \/ inf = [loaded |-> TRUE, to |-> inf.to, fr |-> inf.fr]

DfuOK(a, d) ==
  /\ d = [img |-> d.img, n |-> d.n]
  /\ d.img \in Images \cup {None} /\ d.n \in Nat
  /\ a # "app" => d.img = None

ZInv ==
  /\ FlashOK(flash) /\ HistOK(hist) /\ InfoOK(info) /\ DfuOK(at, dfu)
  /\ ran \in 0..1 /\ losses \in 0..MaxLosses
  /\ Doing(flash, at, ops, info, ran, dfu.img, hist, intent, losses)

-----------------------------------------------------------------------------
(* Images, cells and commands                                              *)

LEMMA EndNat == End \in Nat /\ End >= 1
BY ZepAssumption DEF End

LEMMA ImageFacts ==
  ASSUME NEW m \in Images
  PROVE  /\ m # None /\ Size(m) = m.size
         /\ m.size \in 1..End /\ m.enc \in BOOLEAN
         /\ m.load \in {"slot0", "slot1", "ram"}
         /\ RunForm(m) \in {"plain", "sent"} /\ RunSlot(m) \in 0..1
BY ZepAssumption DEF Size, RunForm, RunSlot, End

LEMMA SizeFacts ==
  ASSUME NEW m \in Images \cup {None}
  PROVE  Size(m) \in 0..End /\ (Size(m) = 0 <=> m = None)
<1>1. CASE m = None
  BY <1>1, EndNat DEF Size
<1>2. CASE m # None
  BY <1>2, ImageFacts, EndNat
<1>. QED BY <1>1, <1>2

LEMMA CellFacts ==
  /\ \A m \in Images \cup {None}, i \in Nat, f \in Form : Cell(m, i, f) \in CellSet
  /\ Blank \in CellSet /\ Garbage \in CellSet
  /\ ~ HasHdr(Blank) /\ ~ HasHdr(Garbage)
BY DEF Cell, CellSet, Form, Blank, Garbage, HasHdr

LEMMA CellParts ==
  ASSUME NEW m, NEW i, NEW f
  PROVE  Cell(m, i, f).img = m /\ Cell(m, i, f).sec = i /\ Cell(m, i, f).form = f
BY DEF Cell

LEMMA DamagedFacts ==
  ASSUME NEW x \in CellSet, NEW y \in CellSet, NEW z \in Damaged(x, y)
  PROVE  z \in CellSet
<1>1. CASE z \in {x, Blank, Garbage}
  BY <1>1, CellFacts
<1>2. CASE z \notin {x, Blank, Garbage}
  <2>1. PICK c \in {x, y} : z = Cell(c.img, 0, "broken")
    BY <1>2 DEF Damaged
  <2>2. c.img \in Images \cup {None}
    BY DEF CellSet
  <2>. QED BY <2>1, <2>2, CellFacts DEF Form
<1>. QED BY <1>1, <1>2

LEMMA RoomFacts ==
  /\ Room(0) = EndSize /\ Room(1) = EndSize /\ Room(2) = LogSize
  /\ EndSize \in Nat /\ EndSize >= 1 /\ LogSize \in Nat /\ LogSize >= 1
BY ZepAssumption DEF Room

LEMMA NoCmdFacts ==
  /\ NoCmd \in CmdSet /\ EmptyCmd \in CmdSet
  /\ \A l \in 0..2 : Fresh \in Place(l) /\ AllTorn(l) \in Place(l)
  /\ Fresh.last = NoCmd /\ Fresh.used = 0
  /\ NoCmd.cmd2 = "empty"
  /\ \A l : AllTorn(l).last = NoCmd
  /\ EmptyCmd # NoCmd /\ "PERM" \in EmptyCmd.cmd1
<1>1. NoCmd \in CmdSet
  BY DEF NoCmd, Cmd, CmdSet, Word
<1>2. EmptyCmd \in CmdSet
  BY DEF EmptyCmd, Cmd, CmdSet, Word
<1>3. \A l \in 0..2 : Room(l) \in Nat
  BY RoomFacts DEF Room
<1>4. \A l \in 0..2 : Fresh \in Place(l) /\ AllTorn(l) \in Place(l)
  BY <1>1, <1>3 DEF Fresh, AllTorn, Place
<1>5. Fresh.last = NoCmd /\ Fresh.used = 0 /\ NoCmd.cmd2 = "empty"
      /\ \A l : AllTorn(l).last = NoCmd
  BY DEF Fresh, AllTorn, NoCmd, Cmd
<1>6. EmptyCmd # NoCmd /\ "PERM" \in EmptyCmd.cmd1
  BY DEF EmptyCmd, NoCmd, Cmd
<1>. QED BY <1>1, <1>2, <1>4, <1>5, <1>6

LEMMA CmdParts ==
  ASSUME NEW b, NEW w, NEW p, NEW n
  PROVE  /\ Cmd(b, w, p, n).cmd1 = b /\ Cmd(b, w, p, n).cmd2 = w
         /\ Cmd(b, w, p, n).inplace = p /\ Cmd(b, w, p, n).cmd3 = n
         /\ b \in SUBSET {"PERM", "REQUEST", "BT0", "ERROR"} /\ w \in Word
            /\ p \in BOOLEAN /\ n \in Nat => Cmd(b, w, p, n) \in CmdSet
BY DEF Cmd, CmdSet

LEMMA StepWords ==
  /\ Steps \subseteq Word /\ "empty" \notin Steps /\ "END" \notin Steps
  /\ "END" \in Word /\ "none" \in Word /\ "none" \notin Steps /\ "all" \notin Steps
BY DEF Steps, Word

-----------------------------------------------------------------------------
(* One sector changes                                                      *)

LEMMA PutFacts ==
  ASSUME NEW g, CellsOK(g), NEW s \in 0..1, NEW i \in 0..End, NEW x \in CellSet
  PROVE  /\ CellsOK(Put(g, s, i, x))
         /\ Put(g, s, i, x)[s][i] = x
         /\ \A t \in 0..1, j \in 0..End :
              t # s \/ j # i => Put(g, s, i, x)[t][j] = g[t][j]
BY DEF CellsOK, Put

LEMMA PutTwice ==
  ASSUME NEW g, CellsOK(g), NEW s \in 0..1, NEW i \in 0..End,
         NEW x \in CellSet, NEW y \in CellSet
  PROVE  Put(Put(g, s, i, x), s, i, y) = Put(g, s, i, y)
BY DEF CellsOK, Put

LEMMA PutSame ==
  ASSUME NEW g, CellsOK(g), NEW s \in 0..1, NEW i \in 0..End
  PROVE  Put(g, s, i, g[s][i]) = g
BY DEF CellsOK, Put

LEMMA CellIn ==
  ASSUME NEW g, CellsOK(g), NEW s \in 0..1, NEW i \in 0..End
  PROVE  g[s][i] \in CellSet
BY DEF CellsOK

LEMMA KeptPut ==
  ASSUME NEW g, CellsOK(g), NEW s \in 0..1, NEW i \in 0..End, NEW x \in CellSet,
         NEW t \in 0..1, NEW m \in Images \cup {None}, NEW f,
         Kept(g, t, m, f), t # s \/ i >= Size(m)
  PROVE  Kept(Put(g, s, i, x), t, m, f)
<1>1. Size(m) \in 0..End
  BY SizeFacts
<1>2. \A j \in 0..Size(m) - 1 : j \in 0..End /\ (t # s \/ j # i)
  BY <1>1, EndNat
<1>3. \A j \in 0..Size(m) - 1 : Put(g, s, i, x)[t][j] = g[t][j]
  BY <1>2, PutFacts
<1>. QED BY <1>3 DEF Kept

-----------------------------------------------------------------------------
(* What the operations do                                                  *)

(* After an operation on the sector i of slot s, finished or interrupted,  *)
(* the flash f is d: the sector holds y, and of the parameters and the     *)
(* commands only those have changed that the sector holds.                 *)
Hit(f, d, s, i, y) ==
  /\ FlashOK(d) /\ y \in CellSet /\ d.cell = Put(f.cell, s, i, y)
  /\ d.cmds[2] = f.cmds[2]
  /\ i # End => d.prm = f.prm /\ d.cmds[0] = f.cmds[0] /\ d.cmds[1] = f.cmds[1]
  /\ s = 1 => d.prm = f.prm /\ d.cmds[0] = f.cmds[0]

LEMMA HitEnd ==
  ASSUME NEW f, FlashOK(f), NEW s \in 0..1, NEW i \in 0..End, NEW y \in CellSet,
         NEW cs \in Place(s), NEW p
  PROVE  LET d == WithEnd(WithCell(f, s, i, y), s, i, cs, p)
         IN  /\ Hit(f, d, s, i, y)
             /\ i = End => d.cmds[s] = cs
             /\ i = End /\ s = 0 => d.prm = p
<1>. DEFINE e == WithCell(f, s, i, y)
            d == WithEnd(e, s, i, cs, p)
<1>1. e = [cell |-> Put(f.cell, s, i, y), prm |-> f.prm, cmds |-> f.cmds]
  BY DEF WithCell, FlashOK, Put
<1>2. CellsOK(e.cell) /\ e.cell = Put(f.cell, s, i, y)
  BY <1>1, PutFacts DEF FlashOK
<1>3. FlashOK(e)
  <2>1. e.prm = f.prm /\ e.cmds = f.cmds
    BY <1>1
  <2>. QED BY <1>1, <1>2, <2>1 DEF FlashOK
<1>4. CASE i # End
  <2>1. d = e
    BY <1>4 DEF WithEnd
  <2>. HIDE DEF d, e
  <2>2. e.prm = f.prm /\ e.cmds = f.cmds
    BY <1>1
  <2>. QED BY <2>1, <2>2, <1>2, <1>3, <1>4 DEF Hit, d, e
<1>5. CASE i = End
  <2>. DEFINE v == [f.cmds EXCEPT ![s] = cs]
              q == IF s = 0 THEN p ELSE f.prm
  <2>1. d = [cell |-> Put(f.cell, s, i, y), prm |-> q, cmds |-> v]
    <3>1. d = [e EXCEPT !.cmds[s] = cs, !.prm = IF s = 0 THEN p ELSE @]
      BY <1>5 DEF WithEnd
    <3>2. /\ e = [cell |-> e.cell, prm |-> e.prm, cmds |-> e.cmds]
          /\ e.cell = Put(f.cell, s, i, y) /\ e.prm = f.prm /\ e.cmds = f.cmds
      BY <1>1
    <3>. HIDE DEF e, d
    <3>3. d = [cell |-> e.cell, prm |-> IF s = 0 THEN p ELSE e.prm,
               cmds |-> [e.cmds EXCEPT ![s] = cs]]
      BY <3>1, <3>2
    <3>. QED BY <3>2, <3>3
  <2>2. /\ DOMAIN v = 0..2 /\ v = [l \in 0..2 |-> v[l]]
        /\ v[s] = cs /\ \A l \in 0..2 : l # s => v[l] = f.cmds[l]
    BY DEF FlashOK
  <2>3. \A l \in 0..2 : v[l] \in Place(l)
    BY <2>2 DEF FlashOK
  <2>. HIDE DEF d, e, v
  <2>4. FlashOK(d)
    BY <1>1, <1>2, <2>1, <2>2, <2>3 DEF FlashOK
  <2>5. d.cmds = v /\ d.prm = q /\ d.cell = Put(f.cell, s, i, y)
    BY <2>1
  <2>6. d.cmds[2] = f.cmds[2] /\ (s = 1 => d.cmds[0] = f.cmds[0] /\ d.prm = f.prm)
    BY <2>2, <2>5
  <2>7. d.cmds[s] = cs /\ (s = 0 => d.prm = p)
    BY <2>2, <2>5
  <2>8. Hit(f, d, s, i, y)
    BY <2>4, <2>5, <2>6, <1>5 DEF Hit
  <2>. QED BY <2>7, <2>8, <1>5 DEF d, e
<1>. QED BY <1>4, <1>5

LEMMA DoneErase ==
  ASSUME NEW f, FlashOK(f), NEW s \in 0..1, NEW i \in 0..End
  PROVE  /\ Hit(f, Done(f, Erase(s, i)), s, i, Blank)
         /\ i = End => Done(f, Erase(s, i)).cmds[s] = Fresh
<1>1. Done(f, Erase(s, i)) = WithEnd(WithCell(f, s, i, Blank), s, i, Fresh, NoPrm)
  BY DEF Done, Erase
<1>2. s \in 0..2 /\ Fresh \in Place(s) /\ Blank \in CellSet
  BY NoCmdFacts, CellFacts
<1>. QED BY <1>1, <1>2, HitEnd

LEMMA TornErase ==
  ASSUME NEW f, FlashOK(f), NEW s \in 0..1, NEW i \in 0..End,
         NEW d \in Interrupted(f, Erase(s, i))
  PROVE  \E y \in CellSet : Hit(f, d, s, i, y)
<1>1. Interrupted(f, Erase(s, i)) =
        {WithEnd(WithCell(f, s, i, c), s, i, cs, p) :
            c  \in Damaged(f.cell[s][i], Blank),
            cs \in {f.cmds[s], Fresh, AllTorn(s)},
            p  \in {f.prm, NoPrm, WildPrm}}
  BY DEF Interrupted, Erase
<1>2. PICK c \in Damaged(f.cell[s][i], Blank),
           cs \in {f.cmds[s], Fresh, AllTorn(s)},
           p \in {f.prm, NoPrm, WildPrm} :
             d = WithEnd(WithCell(f, s, i, c), s, i, cs, p)
  BY <1>1
<1>3. c \in CellSet
  BY DamagedFacts, CellFacts, CellIn DEF FlashOK
<1>4. cs \in Place(s)
  <2>1. s \in 0..2
    OBVIOUS
  <2>. QED BY <2>1, <1>2, NoCmdFacts DEF FlashOK
<1>. QED BY <1>2, <1>3, <1>4, HitEnd

LEMMA HitWrite ==
  ASSUME NEW f, FlashOK(f), NEW s \in 0..1, NEW i \in 0..End, NEW y \in CellSet
  PROVE  Hit(f, WithCell(f, s, i, y), s, i, y)
<1>. DEFINE e == WithCell(f, s, i, y)
<1>1. e = [cell |-> Put(f.cell, s, i, y), prm |-> f.prm, cmds |-> f.cmds]
  BY DEF WithCell, FlashOK, Put
<1>2. CellsOK(e.cell) /\ e.cell = Put(f.cell, s, i, y)
  BY <1>1, PutFacts DEF FlashOK
<1>3. e.prm = f.prm /\ e.cmds = f.cmds
  BY <1>1
<1>4. FlashOK(e)
  BY <1>1, <1>2, <1>3 DEF FlashOK
<1>. HIDE DEF e
<1>. QED BY <1>2, <1>3, <1>4 DEF Hit, e

LEMMA DoneWrite ==
  ASSUME NEW f, FlashOK(f), NEW s \in 0..1, NEW i \in 0..End, NEW x \in CellSet
  PROVE  /\ f.cell[s][i] = Blank => Hit(f, Done(f, Write(s, i, x)), s, i, x)
         /\ \E y \in CellSet : Hit(f, Done(f, Write(s, i, x)), s, i, y)
<1>. DEFINE y == IF f.cell[s][i] = Blank THEN x ELSE Garbage
<1>1. Done(f, Write(s, i, x)) = WithCell(f, s, i, y)
  BY DEF Done, Write
<1>2. y \in CellSet
  BY CellFacts
<1>3. Hit(f, WithCell(f, s, i, y), s, i, y)
  BY <1>2, HitWrite
<1>. QED BY <1>1, <1>2, <1>3

LEMMA TornWrite ==
  ASSUME NEW f, FlashOK(f), NEW s \in 0..1, NEW i \in 0..End, NEW x \in CellSet,
         NEW d \in Interrupted(f, Write(s, i, x))
  PROVE  \E y \in CellSet : Hit(f, d, s, i, y)
<1>1. Interrupted(f, Write(s, i, x)) =
        {WithCell(f, s, i, c) : c \in Damaged(Blank, x)}
  BY DEF Interrupted, Write
<1>2. PICK c \in Damaged(Blank, x) : d = WithCell(f, s, i, c)
  BY <1>1
<1>3. c \in CellSet
  BY DamagedFacts, CellFacts
<1>. QED BY <1>2, <1>3, HitWrite

(* The commands of the place l have changed, and they are v.               *)
Logged(f, d, l, v) ==
  /\ FlashOK(d) /\ d.cell = f.cell /\ d.prm = f.prm
  /\ d.cmds[l] = v
  /\ \A k \in 0..2 : k # l => d.cmds[k] = f.cmds[k]

LEMMA LoggedFacts ==
  ASSUME NEW f, FlashOK(f), NEW l \in 0..2, NEW v \in Place(l)
  PROVE  Logged(f, [f EXCEPT !.cmds[l] = v], l, v)
<1>. DEFINE e == [f EXCEPT !.cmds[l] = v]
            w == [f.cmds EXCEPT ![l] = v]
<1>1. e = [cell |-> f.cell, prm |-> f.prm, cmds |-> w]
  BY DEF FlashOK
<1>2. /\ DOMAIN w = 0..2 /\ w = [k \in 0..2 |-> w[k]]
      /\ w[l] = v /\ \A k \in 0..2 : k # l => w[k] = f.cmds[k]
  BY DEF FlashOK
<1>3. \A k \in 0..2 : w[k] \in Place(k)
  BY <1>2 DEF FlashOK
<1>. HIDE DEF e, w
<1>4. e.cell = f.cell /\ e.prm = f.prm /\ e.cmds = w
  BY <1>1
<1>5. FlashOK(e)
  BY <1>1, <1>2, <1>3, <1>4 DEF FlashOK
<1>. QED BY <1>2, <1>4, <1>5 DEF Logged, e

LEMMA DoneStat ==
  ASSUME NEW f, FlashOK(f)
  PROVE  Logged(f, Done(f, EraseStat), 2, Fresh)
<1>1. Done(f, EraseStat) = [f EXCEPT !.cmds[2] = Fresh]
  BY DEF Done, EraseStat
<1>. QED BY <1>1, LoggedFacts, NoCmdFacts

LEMMA TornStat ==
  ASSUME NEW f, FlashOK(f), NEW d \in Interrupted(f, EraseStat)
  PROVE  \E v \in {f.cmds[2], Fresh, AllTorn(2)} : Logged(f, d, 2, v)
<1>1. Interrupted(f, EraseStat) =
        {[f EXCEPT !.cmds[2] = cs] : cs \in {f.cmds[2], Fresh, AllTorn(2)}}
  BY DEF Interrupted, EraseStat
<1>2. PICK cs \in {f.cmds[2], Fresh, AllTorn(2)} : d = [f EXCEPT !.cmds[2] = cs]
  BY <1>1
<1>3. cs \in Place(2)
  BY <1>2, NoCmdFacts DEF FlashOK
<1>. QED BY <1>2, <1>3, LoggedFacts

LEMMA WithCmdFacts ==
  ASSUME NEW f, FlashOK(f), NEW l \in 0..2, NEW c \in CmdSet
  PROVE  /\ Full(f, l) => WithCmd(f, l, c) = f
         /\ ~ Full(f, l) =>
              Logged(f, WithCmd(f, l, c), l, [last |-> c, used |-> f.cmds[l].used + 1])
<1>1. CASE Full(f, l)
  BY <1>1 DEF WithCmd
<1>2. CASE ~ Full(f, l)
  <2>. DEFINE v == [last |-> c, used |-> f.cmds[l].used + 1]
  <2>1. WithCmd(f, l, c) = [f EXCEPT !.cmds[l] = v]
    BY <1>2 DEF WithCmd
  <2>2. Room(l) \in Nat /\ f.cmds[l].used \in 0..Room(l) /\ f.cmds[l].used # Room(l)
    BY <1>2, RoomFacts DEF FlashOK, Place, Full, Room
  <2>3. v \in Place(l)
    BY <2>2 DEF Place
  <2>. QED BY <2>1, <2>3, <1>2, LoggedFacts
<1>. QED BY <1>1, <1>2

LEMMA DoneCmd ==
  ASSUME NEW f, FlashOK(f), NEW l \in 0..2, NEW c \in CmdSet
  PROVE  /\ Full(f, l) => Done(f, WriteCmd(l, c)) = f
         /\ ~ Full(f, l) =>
              Logged(f, Done(f, WriteCmd(l, c)), l,
                     [last |-> c, used |-> f.cmds[l].used + 1])
<1>1. Done(f, WriteCmd(l, c)) = WithCmd(f, l, c)
  BY DEF Done, WriteCmd
<1>. QED BY <1>1, WithCmdFacts

(* A command that is not written whole takes a place, no more.             *)
LEMMA TornCmd ==
  ASSUME NEW f, FlashOK(f), NEW l \in 0..2, NEW c \in CmdSet,
         NEW d \in Interrupted(f, WriteCmd(l, c))
  PROVE  \/ d = f
         \/ Logged(f, d, l, [last |-> LastCmd(f, l), used |-> f.cmds[l].used + 1])
<1>1. d = WithCmd(f, l, LastCmd(f, l))
  BY DEF Interrupted, WriteCmd
<1>2. LastCmd(f, l) \in CmdSet
  BY DEF FlashOK, Place, LastCmd
<1>. QED BY <1>1, <1>2, WithCmdFacts

LEMMA DonePrm ==
  ASSUME NEW f, FlashOK(f), NEW p
  PROVE  LET d == Done(f, WritePrm(p))
         IN  FlashOK(d) /\ d.cell = f.cell /\ d.cmds = f.cmds /\ d.prm = p
<1>1. Done(f, WritePrm(p)) = [cell |-> f.cell, prm |-> p, cmds |-> f.cmds]
  BY DEF Done, WritePrm, FlashOK
<1>. QED BY <1>1 DEF FlashOK

LEMMA TornPrm ==
  ASSUME NEW f, FlashOK(f), NEW p, NEW d \in Interrupted(f, WritePrm(p))
  PROVE  FlashOK(d) /\ d.cell = f.cell /\ d.cmds = f.cmds
<1>1. Interrupted(f, WritePrm(p)) = {[f EXCEPT !.prm = WildPrm]}
  BY DEF Interrupted, WritePrm
<1>2. d = [cell |-> f.cell, prm |-> WildPrm, cmds |-> f.cmds]
  BY <1>1 DEF FlashOK
<1>. QED BY <1>2 DEF FlashOK

-----------------------------------------------------------------------------
(* The steps of a swap, in the cells                                       *)

LEMMA KeptEq ==
  ASSUME NEW g, NEW s, NEW m, NEW f, Kept(g, s, m, f), NEW i \in 0..Size(m) - 1
  PROVE  g[s][i] = Cell(m, i, f)
BY DEF Kept

LEMMA MovedUpPut ==
  ASSUME NEW g, CellsOK(g), NEW s \in 0..1, NEW m \in Images \cup {None}, NEW f,
         NEW k \in Nat, k < Size(m), MovedUp(g, s, m, f, k), NEW y \in CellSet
  PROVE  MovedUp(Put(g, s, k + 1, y), s, m, f, k)
<1>1. Size(m) \in 0..End /\ k + 1 \in 0..End
  BY SizeFacts, EndNat
<1>2. \A i \in 0..Size(m) - 1 : /\ i <= k => Put(g, s, k + 1, y)[s][i] = g[s][i]
                                /\ ~ i <= k => Put(g, s, k + 1, y)[s][i + 1] = g[s][i + 1]
  <2>. TAKE i \in 0..Size(m) - 1
  <2>1. i \in 0..End /\ i + 1 \in 0..End
    BY <1>1, EndNat
  <2>2. i <= k => i # k + 1
    BY <2>1
  <2>3. ~ i <= k => i + 1 # k + 1
    BY <2>1
  <2>4. \A j \in 0..End : j # k + 1 => Put(g, s, k + 1, y)[s][j] = g[s][j]
    BY <1>1, PutFacts
  <2>. QED BY <2>1, <2>2, <2>3, <2>4
<1>3. SUFFICES ASSUME NEW i \in 0..Size(m) - 1
      PROVE  IF i <= k THEN Put(g, s, k + 1, y)[s][i] = Cell(m, i, f)
             ELSE Put(g, s, k + 1, y)[s][i + 1] = Cell(m, i, f)
  BY DEF MovedUp
<1>4. IF i <= k THEN g[s][i] = Cell(m, i, f) ELSE g[s][i + 1] = Cell(m, i, f)
  BY DEF MovedUp
<1>. QED BY <1>2, <1>4

(* The last sector that was not moved up is.                               *)
LEMMA MovedUpNext ==
  ASSUME NEW g, CellsOK(g), NEW s \in 0..1, NEW m \in Images \cup {None}, NEW f,
         NEW k \in Nat, k < Size(m), MovedUp(g, s, m, f, k)
  PROVE  /\ k # 0 => MovedUp(Put(g, s, k + 1, g[s][k]), s, m, f, k - 1)
         /\ k = 0 => \A i \in 0..Size(m) - 1 :
                       Put(g, s, k + 1, g[s][k])[s][i + 1] = Cell(m, i, f)
<1>. DEFINE p == Put(g, s, k + 1, g[s][k])
<1>1. Size(m) \in 0..End /\ k + 1 \in 0..End /\ k \in 0..End
  BY SizeFacts, EndNat
<1>2. g[s][k] \in CellSet /\ g[s][k] = Cell(m, k, f)
  BY <1>1, CellIn, k <= k, k \in 0..Size(m) - 1 DEF MovedUp
<1>3. MovedUp(p, s, m, f, k)
  BY <1>2, MovedUpPut
<1>4. p[s][k + 1] = Cell(m, k, f)
  BY <1>1, <1>2, PutFacts
<1>. HIDE DEF p
<1>5. ASSUME NEW i \in 0..Size(m) - 1
      PROVE  IF i <= k - 1 THEN p[s][i] = Cell(m, i, f)
             ELSE p[s][i + 1] = Cell(m, i, f)
  <2>1. IF i <= k THEN p[s][i] = Cell(m, i, f) ELSE p[s][i + 1] = Cell(m, i, f)
    BY <1>3 DEF MovedUp
  <2>2. CASE i = k
    <3>1. ~ i <= k - 1
      BY <2>2
    <3>. QED BY <3>1, <2>2, <1>4
  <2>3. CASE i # k
    <3>1. i <= k <=> i <= k - 1
      BY <2>3, <1>1
    <3>. QED BY <3>1, <2>1
  <2>. QED BY <2>2, <2>3
<1>6. k # 0 => MovedUp(p, s, m, f, k - 1)
  BY <1>5 DEF MovedUp
<1>7. k = 0 => \A i \in 0..Size(m) - 1 : p[s][i + 1] = Cell(m, i, f)
  <2>. SUFFICES ASSUME k = 0, NEW i \in 0..Size(m) - 1 PROVE p[s][i + 1] = Cell(m, i, f)
    OBVIOUS
  <2>1. ~ i <= k - 1
    BY <1>1
  <2>. QED BY <2>1, <1>5
<1>. QED BY <1>6, <1>7 DEF p

(* What does not depend on the sector that is rewritten in phase 1         *)
LEMMA CamePut0 ==
  ASSUME NEW g, CellsOK(g), NEW m \in Images \cup {None}, NEW k \in 0..End,
         Came(g, m, k), NEW y \in CellSet
  PROVE  Came(Put(g, 0, k, y), m, k)
<1>1. Size(m) \in 0..End
  BY SizeFacts
<1>2. SUFFICES ASSUME NEW i \in 0..Size(m) - 1
      PROVE  IF i < k THEN Put(g, 0, k, y)[0][i] = Cell(m, i, RunForm(m))
             ELSE Put(g, 0, k, y)[1][i] = Cell(m, i, "sent")
  BY DEF Came
<1>3. IF i < k THEN g[0][i] = Cell(m, i, RunForm(m)) ELSE g[1][i] = Cell(m, i, "sent")
  BY DEF Came
<1>4. i \in 0..End /\ (i < k => i # k)
  BY <1>1, EndNat
<1>5. (i < k => Put(g, 0, k, y)[0][i] = g[0][i]) /\ Put(g, 0, k, y)[1][i] = g[1][i]
  BY <1>4, PutFacts
<1>. QED BY <1>3, <1>5

LEMMA WentPut0 ==
  ASSUME NEW g, CellsOK(g), NEW m \in Images \cup {None}, NEW k \in 0..End,
         Went(g, m, k), NEW y \in CellSet
  PROVE  Went(Put(g, 0, k, y), m, k)
<1>1. Size(m) \in 0..End
  BY SizeFacts
<1>2. SUFFICES ASSUME NEW i \in 0..Size(m) - 1
      PROVE  IF i < k THEN Put(g, 0, k, y)[1][i] = Cell(m, i, "sent")
             ELSE Put(g, 0, k, y)[0][i + 1] = Cell(m, i, RunForm(m))
  BY DEF Went
<1>3. IF i < k THEN g[1][i] = Cell(m, i, "sent") ELSE g[0][i + 1] = Cell(m, i, RunForm(m))
  BY DEF Went
<1>4. i \in 0..End /\ i + 1 \in 0..End /\ (~ i < k => i + 1 # k)
  BY <1>1, EndNat
<1>5. (~ i < k => Put(g, 0, k, y)[0][i + 1] = g[0][i + 1]) /\ Put(g, 0, k, y)[1][i] = g[1][i]
  BY <1>4, PutFacts
<1>. QED BY <1>3, <1>5

LEMMA CamePut1 ==
  ASSUME NEW g, CellsOK(g), NEW m \in Images \cup {None}, NEW k \in 0..End,
         Came(g, m, k + 1), NEW y \in CellSet
  PROVE  Came(Put(g, 1, k, y), m, k + 1)
<1>1. Size(m) \in 0..End
  BY SizeFacts
<1>2. SUFFICES ASSUME NEW i \in 0..Size(m) - 1
      PROVE  IF i < k + 1 THEN Put(g, 1, k, y)[0][i] = Cell(m, i, RunForm(m))
             ELSE Put(g, 1, k, y)[1][i] = Cell(m, i, "sent")
  BY DEF Came
<1>3. IF i < k + 1 THEN g[0][i] = Cell(m, i, RunForm(m)) ELSE g[1][i] = Cell(m, i, "sent")
  BY DEF Came
<1>4. i \in 0..End /\ (~ i < k + 1 => i # k)
  BY <1>1, EndNat
<1>5. (~ i < k + 1 => Put(g, 1, k, y)[1][i] = g[1][i]) /\ Put(g, 1, k, y)[0][i] = g[0][i]
  BY <1>4, PutFacts
<1>. QED BY <1>3, <1>5

LEMMA WentPut1 ==
  ASSUME NEW g, CellsOK(g), NEW m \in Images \cup {None}, NEW k \in 0..End,
         Went(g, m, k), NEW y \in CellSet
  PROVE  Went(Put(g, 1, k, y), m, k)
<1>1. Size(m) \in 0..End
  BY SizeFacts
<1>2. SUFFICES ASSUME NEW i \in 0..Size(m) - 1
      PROVE  IF i < k THEN Put(g, 1, k, y)[1][i] = Cell(m, i, "sent")
             ELSE Put(g, 1, k, y)[0][i + 1] = Cell(m, i, RunForm(m))
  BY DEF Went
<1>3. IF i < k THEN g[1][i] = Cell(m, i, "sent") ELSE g[0][i + 1] = Cell(m, i, RunForm(m))
  BY DEF Went
<1>4. i \in 0..End /\ i + 1 \in 0..End /\ (i < k => i # k)
  BY <1>1, EndNat
<1>5. (i < k => Put(g, 1, k, y)[1][i] = g[1][i]) /\ Put(g, 1, k, y)[0][i + 1] = g[0][i + 1]
  BY <1>4, PutFacts
<1>. QED BY <1>3, <1>5

LEMMA OpenedPut ==
  ASSUME NEW g, CellsOK(g), NEW m \in Images \cup {None}, NEW k \in 0..End,
         Opened(g, m, k), NEW y \in CellSet
  PROVE  Opened(Put(g, 1, k, y), m, k)
<1>1. Size(m) \in 0..End
  BY SizeFacts
<1>2. SUFFICES ASSUME NEW i \in 0..Size(m) - 1
      PROVE  IF i < k THEN Put(g, 1, k, y)[1][i] = Cell(m, i, "plain")
             ELSE Put(g, 1, k, y)[1][i + 1] = Cell(m, i, "sent")
  BY DEF Opened
<1>3. IF i < k THEN g[1][i] = Cell(m, i, "plain") ELSE g[1][i + 1] = Cell(m, i, "sent")
  BY DEF Opened
<1>4. i \in 0..End /\ i + 1 \in 0..End /\ (i < k => i # k) /\ (~ i < k => i + 1 # k)
  BY <1>1, EndNat
<1>5. /\ i < k => Put(g, 1, k, y)[1][i] = g[1][i]
      /\ ~ i < k => Put(g, 1, k, y)[1][i + 1] = g[1][i + 1]
  BY <1>4, PutFacts
<1>. QED BY <1>3, <1>5

(* One sector more                                                         *)
LEMMA CameNext ==
  ASSUME NEW g, CellsOK(g), NEW m \in Images \cup {None}, NEW k \in Nat, Came(g, m, k),
         k < Size(m) => g[0][k] = Cell(m, k, RunForm(m))
  PROVE  Came(g, m, k + 1)
<1>1. Size(m) \in 0..End
  BY SizeFacts
<1>2. SUFFICES ASSUME NEW i \in 0..Size(m) - 1
      PROVE  IF i < k + 1 THEN g[0][i] = Cell(m, i, RunForm(m))
             ELSE g[1][i] = Cell(m, i, "sent")
  BY DEF Came
<1>3. IF i < k THEN g[0][i] = Cell(m, i, RunForm(m)) ELSE g[1][i] = Cell(m, i, "sent")
  BY DEF Came
<1>4. CASE i = k
  <2>1. k < Size(m) /\ i < k + 1
    BY <1>4, <1>1, EndNat
  <2>. QED BY <2>1, <1>4
<1>5. CASE i # k
  <2>1. i < k + 1 <=> i < k
    BY <1>5, <1>1, EndNat
  <2>. QED BY <2>1, <1>3
<1>. QED BY <1>4, <1>5

LEMMA WentNext ==
  ASSUME NEW g, CellsOK(g), NEW m \in Images \cup {None}, NEW k \in Nat, Went(g, m, k),
         k < Size(m) => g[1][k] = Cell(m, k, "sent")
  PROVE  Went(g, m, k + 1)
<1>1. Size(m) \in 0..End
  BY SizeFacts
<1>2. SUFFICES ASSUME NEW i \in 0..Size(m) - 1
      PROVE  IF i < k + 1 THEN g[1][i] = Cell(m, i, "sent")
             ELSE g[0][i + 1] = Cell(m, i, RunForm(m))
  BY DEF Went
<1>3. IF i < k THEN g[1][i] = Cell(m, i, "sent") ELSE g[0][i + 1] = Cell(m, i, RunForm(m))
  BY DEF Went
<1>4. CASE i = k
  <2>1. k < Size(m) /\ i < k + 1
    BY <1>4, <1>1, EndNat
  <2>. QED BY <2>1, <1>4
<1>5. CASE i # k
  <2>1. i < k + 1 <=> i < k
    BY <1>5, <1>1, EndNat
  <2>. QED BY <2>1, <1>3
<1>. QED BY <1>4, <1>5

LEMMA OpenedNext ==
  ASSUME NEW g, CellsOK(g), NEW m \in Images \cup {None}, NEW k \in Nat,
         Opened(g, m, k), k < Size(m) => g[1][k] = Cell(m, k, "plain")
  PROVE  Opened(g, m, k + 1)
<1>1. Size(m) \in 0..End
  BY SizeFacts
<1>2. SUFFICES ASSUME NEW i \in 0..Size(m) - 1
      PROVE  IF i < k + 1 THEN g[1][i] = Cell(m, i, "plain")
             ELSE g[1][i + 1] = Cell(m, i, "sent")
  BY DEF Opened
<1>3. IF i < k THEN g[1][i] = Cell(m, i, "plain") ELSE g[1][i + 1] = Cell(m, i, "sent")
  BY DEF Opened
<1>4. CASE i = k
  <2>1. k < Size(m) /\ i < k + 1
    BY <1>4, <1>1, EndNat
  <2>. QED BY <2>1, <1>4
<1>5. CASE i # k
  <2>1. i < k + 1 <=> i < k
    BY <1>5, <1>1, EndNat
  <2>. QED BY <2>1, <1>3
<1>. QED BY <1>4, <1>5

(* All sectors                                                             *)
LEMMA AllMoved ==
  ASSUME NEW g, NEW m \in Images \cup {None}, NEW k \in Nat, k >= Size(m)
  PROVE  /\ Came(g, m, k) => Kept(g, 0, m, RunForm(m))
         /\ Went(g, m, k) => Kept(g, 1, m, "sent")
         /\ Opened(g, m, k) => Kept(g, 1, m, "plain")
<1>1. Size(m) \in 0..End
  BY SizeFacts
<1>2. \A i \in 0..Size(m) - 1 : i < k
  BY <1>1, EndNat
<1>. QED BY <1>2 DEF Came, Went, Opened, Kept

-----------------------------------------------------------------------------
(* The steps of a swap, in its commands                                    *)

Nx(c, w, n) == [c EXCEPT !.cmd2 = w, !.cmd3 = n]

LEMMA NxFacts ==
  ASSUME NEW c \in CmdSet, NEW w \in Word, NEW n \in Nat
  PROVE  /\ Nx(c, w, n) \in CmdSet
         /\ Nx(c, w, n).cmd1 = c.cmd1 /\ Nx(c, w, n).inplace = c.inplace
         /\ Nx(c, w, n).cmd2 = w /\ Nx(c, w, n).cmd3 = n
BY DEF Nx, CmdSet

LEMMA CmdFields ==
  ASSUME NEW c \in CmdSet
  PROVE  /\ c.cmd2 \in Word /\ c.inplace \in BOOLEAN /\ c.cmd3 \in Nat
         /\ c.cmd2 \in Steps => c # NoCmd
BY StepWords, NoCmdFacts DEF CmdSet

LEMMA SideParts ==
  ASSUME NEW s, NEW m
  PROVE  /\ SideOf(s, m).slot = s /\ SideOf(s, m).img = m
         /\ SideOf(s, m).size = Size(m) /\ SideOf(s, m).key = KeyOf(m)
BY DEF SideOf

LEMMA HdrPut ==
  ASSUME NEW g, CellsOK(g), NEW s \in 0..1, NEW i \in 0..End, s = 1 \/ i # 0,
         NEW y \in CellSet
  PROVE  Hdr(Put(g, s, i, y), 0) = Hdr(g, 0)
BY PutFacts, EndNat DEF Hdr

LEMMA HdrOfKept ==
  ASSUME NEW g, NEW m \in Images, NEW f, Kept(g, 0, m, f)
  PROVE  Hdr(g, 0) = m
<1>1. g[0][0] = Cell(m, 0, f)
  BY ImageFacts, KeptEq
<1>. QED BY <1>1, CellParts, ImageFacts DEF Hdr, HasHdr

(* MOVE_UP, when the images change places                                  *)
LEMMA UpExchange ==
  ASSUME NEW g, CellsOK(g), NEW c \in CmdSet, NEW h, HistOK(h), NEW inf,
         ~ c.inplace, c.cmd2 = "MOVE_UP", Swap(g, c, h, inf), inf.loaded
  PROVE  LET k == c.cmd3
             p == Put(g, 0, k + 1, g[0][k])
         IN  /\ inf.to.slot = 0 /\ k \in Nat /\ k + 1 \in 0..End /\ g[0][k] \in CellSet
             /\ \A y \in CellSet : Swap(Put(g, 0, k + 1, y), c, h, inf)
             /\ k # 0 => Swap(p, Nx(c, "MOVE_UP", k - 1), h, inf)
             /\ k = 0 => Swap(p, Nx(c, "P1", 0), h, inf)
<1>. DEFINE k == c.cmd3
            p == Put(g, 0, k + 1, g[0][k])
            old == Hdr(g, 0)
<1>1. /\ Goes(h, old) /\ Kept(g, 1, h.base, "sent") /\ h.good = h.base
      /\ "PERM" \in c.cmd1 <=> h.back = None
      /\ inf.to = SideOf(0, old) /\ inf.fr = SideOf(1, h.base)
      /\ k < Size(old) /\ MovedUp(g, 0, old, RunForm(old), k)
  BY DEF Swap, Exchange, Tells
<1>2. old \in Images \cup {None} /\ k \in Nat /\ c.inplace \in BOOLEAN
  BY <1>1, CmdFields DEF Goes
<1>3. k + 1 \in 0..End /\ k \in 0..End
  BY <1>1, <1>2, SizeFacts, EndNat
<1>4. g[0][k] \in CellSet
  BY <1>3, CellIn
<1>5. h.base \in Images
  BY DEF HistOK
<1>6. ASSUME NEW y \in CellSet
      PROVE  /\ Hdr(Put(g, 0, k + 1, y), 0) = old
             /\ Kept(Put(g, 0, k + 1, y), 1, h.base, "sent")
             /\ MovedUp(Put(g, 0, k + 1, y), 0, old, RunForm(old), k)
  <2>1. Hdr(Put(g, 0, k + 1, y), 0) = old
    BY <1>2, <1>3, HdrPut
  <2>2. Kept(Put(g, 0, k + 1, y), 1, h.base, "sent")
    BY <1>1, <1>3, <1>5, KeptPut
  <2>3. MovedUp(Put(g, 0, k + 1, y), 0, old, RunForm(old), k)
    BY <1>1, <1>2, MovedUpPut
  <2>. QED BY <2>1, <2>2, <2>3
<1>7. ASSUME NEW y \in CellSet
      PROVE  Swap(Put(g, 0, k + 1, y), c, h, inf)
  BY <1>1, <1>6 DEF Swap, Exchange, Tells, Steps
<1>8. /\ k # 0 => MovedUp(p, 0, old, RunForm(old), k - 1)
      /\ k = 0 => \A i \in 0..Size(old) - 1 : p[0][i + 1] = Cell(old, i, RunForm(old))
  BY <1>1, <1>2, MovedUpNext
<1>9. /\ Hdr(p, 0) = old /\ Kept(p, 1, h.base, "sent")
  BY <1>4, <1>6
<1>. HIDE DEF p, old
<1>10. ASSUME k # 0 PROVE Swap(p, Nx(c, "MOVE_UP", k - 1), h, inf)
  <2>. DEFINE d == Nx(c, "MOVE_UP", k - 1)
  <2>1. k - 1 \in Nat /\ "MOVE_UP" \in Word
    BY <1>2, <1>10 DEF Word, Steps
  <2>2. /\ d.cmd1 = c.cmd1 /\ d.inplace = c.inplace /\ d.cmd2 = "MOVE_UP"
        /\ d.cmd3 = k - 1
    BY <2>1, NxFacts
  <2>3. k - 1 < Size(old)
    BY <1>1, <1>2, SizeFacts, EndNat
  <2>4. d.cmd2 \in Steps
    BY <2>2 DEF Steps
  <2>. HIDE DEF d
  <2>5. Exchange(p, d, h, inf)
    BY <1>1, <1>8, <1>9, <1>10, <2>2, <2>3 DEF Exchange, Tells
  <2>. QED BY <2>2, <2>4, <2>5 DEF Swap, d
<1>11. ASSUME k = 0 PROVE Swap(p, Nx(c, "P1", 0), h, inf)
  <2>. DEFINE d == Nx(c, "P1", 0)
  <2>1. "P1" \in Word
    BY DEF Word, Steps
  <2>2. d.cmd1 = c.cmd1 /\ d.inplace = c.inplace /\ d.cmd2 = "P1" /\ d.cmd3 = 0
    BY <2>1, NxFacts, 0 \in Nat
  <2>3. Went(p, old, 0)
    BY <1>8, <1>11, <1>2, SizeFacts, EndNat DEF Went
  <2>4. Came(p, h.base, 0)
    BY <1>9, <1>5, SizeFacts, EndNat DEF Came, Kept
  <2>5. d.cmd2 \in Steps
    BY <2>2 DEF Steps
  <2>6. inf.to.img = old
    BY <1>1, SideParts
  <2>. HIDE DEF d
  <2>7. Exchange(p, d, h, inf)
    BY <1>1, <2>2, <2>3, <2>4, <2>6 DEF Exchange
  <2>. QED BY <2>2, <2>5, <2>7 DEF Swap, d
<1>12. inf.to.slot = 0
  BY <1>1, SideParts
<1>. QED BY <1>2, <1>3, <1>4, <1>7, <1>10, <1>11, <1>12 DEF p

(* MOVE_UP, of an image that stays in slot 1                               *)
LEMMA UpInPlace ==
  ASSUME NEW g, CellsOK(g), NEW c \in CmdSet, NEW h, HistOK(h), NEW inf,
         c.inplace, c.cmd2 = "MOVE_UP", Swap(g, c, h, inf), inf.loaded
  PROVE  LET k == c.cmd3
             p == Put(g, 1, k + 1, g[1][k])
         IN  /\ inf.to.slot = 1 /\ k \in Nat /\ k + 1 \in 0..End /\ g[1][k] \in CellSet
             /\ \A y \in CellSet : Swap(Put(g, 1, k + 1, y), c, h, inf)
             /\ k # 0 => Swap(p, Nx(c, "MOVE_UP", k - 1), h, inf)
             /\ k = 0 => Swap(p, Nx(c, "P2", 0), h, inf)
<1>. DEFINE k == c.cmd3
            p == Put(g, 1, k + 1, g[1][k])
            m == h.good
<1>1. /\ RunSlot(m) = 1 /\ h.back = None /\ "PERM" \in c.cmd1
      /\ Kept(g, 0, h.base, RunForm(h.base))
      /\ inf.to = SideOf(1, m) /\ inf.fr = SideOf(1, m)
      /\ m.enc /\ k < Size(m) /\ MovedUp(g, 1, m, "sent", k)
  BY DEF Swap, InPlace, Tells
<1>2. m \in Images /\ m \in Images \cup {None} /\ k \in Nat /\ h.base \in Images
  BY CmdFields DEF HistOK
<1>3. k + 1 \in 0..End /\ k \in 0..End
  BY <1>1, <1>2, SizeFacts, EndNat
<1>4. g[1][k] \in CellSet
  BY <1>3, CellIn
<1>6. ASSUME NEW y \in CellSet
      PROVE  /\ Kept(Put(g, 1, k + 1, y), 0, h.base, RunForm(h.base))
             /\ MovedUp(Put(g, 1, k + 1, y), 1, m, "sent", k)
  <2>2. Kept(Put(g, 1, k + 1, y), 0, h.base, RunForm(h.base))
    BY <1>1, <1>2, <1>3, KeptPut
  <2>3. MovedUp(Put(g, 1, k + 1, y), 1, m, "sent", k)
    BY <1>1, <1>2, MovedUpPut
  <2>. QED BY <2>2, <2>3
<1>7. ASSUME NEW y \in CellSet
      PROVE  Swap(Put(g, 1, k + 1, y), c, h, inf)
  BY <1>1, <1>6 DEF Swap, InPlace, Tells, Steps
<1>8. /\ k # 0 => MovedUp(p, 1, m, "sent", k - 1)
      /\ k = 0 => \A i \in 0..Size(m) - 1 : p[1][i + 1] = Cell(m, i, "sent")
  BY <1>1, <1>2, MovedUpNext
<1>9. Kept(p, 0, h.base, RunForm(h.base))
  BY <1>4, <1>6
<1>. HIDE DEF p, m
<1>10. ASSUME k # 0 PROVE Swap(p, Nx(c, "MOVE_UP", k - 1), h, inf)
  <2>. DEFINE d == Nx(c, "MOVE_UP", k - 1)
  <2>1. k - 1 \in Nat /\ "MOVE_UP" \in Word
    BY <1>2, <1>10 DEF Word, Steps
  <2>2. /\ d.cmd1 = c.cmd1 /\ d.inplace = c.inplace /\ d.cmd2 = "MOVE_UP"
        /\ d.cmd3 = k - 1
    BY <2>1, NxFacts
  <2>3. k - 1 < Size(m)
    BY <1>1, <1>2, SizeFacts, EndNat
  <2>4. d.cmd2 \in Steps
    BY <2>2 DEF Steps
  <2>. HIDE DEF d
  <2>5. InPlace(p, d, h, inf)
    BY <1>1, <1>8, <1>9, <1>10, <2>2, <2>3 DEF InPlace, Tells, m
  <2>. QED BY <2>2, <2>4, <2>5 DEF Swap, d
<1>11. ASSUME k = 0 PROVE Swap(p, Nx(c, "P2", 0), h, inf)
  <2>. DEFINE d == Nx(c, "P2", 0)
  <2>1. "P2" \in Word
    BY DEF Word, Steps
  <2>2. d.cmd1 = c.cmd1 /\ d.inplace = c.inplace /\ d.cmd2 = "P2" /\ d.cmd3 = 0
    BY <2>1, NxFacts, 0 \in Nat
  <2>3. Opened(p, m, 0)
    BY <1>8, <1>11, <1>2, SizeFacts, EndNat DEF Opened
  <2>5. d.cmd2 \in Steps
    BY <2>2 DEF Steps
  <2>. HIDE DEF d
  <2>7. InPlace(p, d, h, inf)
    BY <1>1, <1>9, <2>2, <2>3 DEF InPlace, Tells, m
  <2>. QED BY <2>2, <2>5, <2>7 DEF Swap, d
<1>12. inf.to.slot = 1
  BY <1>1, SideParts
<1>. QED BY <1>2, <1>3, <1>4, <1>7, <1>10, <1>11, <1>12 DEF p

(* What moves to the place it runs from gets the form it has there, what   *)
(* moves back the form in which it was sent.                               *)
LEMMA CryptFacts ==
  ASSUME NEW m \in Images, NEW k \in Nat
  PROVE  /\ Crypted(Cell(m, k, "sent"), KeyOf(m), k) = Cell(m, k, RunForm(m))
         /\ Crypted(Cell(m, k, RunForm(m)), KeyOf(m), k) = Cell(m, k, "sent")
<1>0. m # None
  BY ImageFacts
<1>1. CASE KeyOf(m) = None
  <2>1. RunForm(m) = "sent"
    BY <1>0, <1>1 DEF KeyOf, RunForm
  <2>. QED BY <1>1, <2>1 DEF Crypted
<1>2. CASE KeyOf(m) # None
  <2>1. RunForm(m) = "plain" /\ KeyOf(m) = m
    BY <1>0, <1>2 DEF KeyOf, RunForm
  <2>2. [Cell(m, k, "sent") EXCEPT !.form = "plain"] = Cell(m, k, "plain")
        /\ [Cell(m, k, "plain") EXCEPT !.form = "sent"] = Cell(m, k, "sent")
    BY DEF Cell
  <2>. QED BY <1>0, <2>1, <2>2, CellParts DEF Crypted
<1>. QED BY <1>1, <1>2

(* From phase 1 or 2 to what follows, when no sector is left to move       *)
LEMMA PhaseEnds ==
  ASSUME NEW g, NEW c \in CmdSet, NEW h, HistOK(h), NEW inf,
         ~ c.inplace, c.cmd2 \in {"P1", "P2"}, Swap(g, c, h, inf),
         c.cmd3 >= inf.fr.size, c.cmd3 >= inf.to.size
  PROVE  Swap(g, Nx(c, "P3", c.cmd3), h, inf)
<1>. DEFINE k == c.cmd3
            d == Nx(c, "P3", k)
            old == inf.to.img
<1>1. /\ h.good = h.base /\ ("PERM" \in c.cmd1 <=> h.back = None)
      /\ inf.to = SideOf(0, old) /\ inf.fr = SideOf(1, h.base)
      /\ Goes(h, old) /\ Went(g, old, k)
      /\ c.cmd2 = "P1" => Came(g, h.base, k)
      /\ c.cmd2 = "P2" => Came(g, h.base, k + 1)
  BY DEF Swap, Exchange
<1>2. k \in Nat /\ "P3" \in Word
  BY CmdFields DEF Word, Steps
<1>3. d.cmd1 = c.cmd1 /\ d.inplace = c.inplace /\ d.cmd2 = "P3" /\ d.cmd3 = k
  BY <1>2, NxFacts
<1>4. h.base \in Images /\ h.base \in Images \cup {None} /\ old \in Images \cup {None}
  BY <1>1 DEF HistOK, Goes
<1>5. Size(h.base) \in Nat /\ Size(old) \in Nat
  BY <1>4, SizeFacts, EndNat
<1>6. k >= Size(h.base) /\ k >= Size(old)
  BY <1>1, SideParts
<1>7. Kept(g, 0, h.base, RunForm(h.base))
  <2>1. k + 1 \in Nat /\ k + 1 >= Size(h.base)
    BY <1>2, <1>5, <1>6
  <2>. QED BY <1>1, <1>2, <1>4, <1>6, <2>1, AllMoved
<1>8. Kept(g, 1, old, "sent")
  BY <1>1, <1>2, <1>4, <1>6, AllMoved
<1>9. h.back # None => Kept(g, 1, h.back, "sent")
  BY <1>1, <1>8 DEF Goes
<1>10. d.cmd2 \in Steps
  BY <1>3 DEF Steps
<1>. HIDE DEF d, old
<1>11. Exchange(g, d, h, inf)
  BY <1>1, <1>3, <1>7, <1>9 DEF Exchange
<1>. QED BY <1>3, <1>10, <1>11 DEF Swap, d

(* Phase 1 moves a sector of the image that comes to slot 0.               *)
LEMMA StepP1 ==
  ASSUME NEW g, CellsOK(g), NEW c \in CmdSet, NEW h, HistOK(h), NEW inf,
         ~ c.inplace, c.cmd2 = "P1", Swap(g, c, h, inf)
  PROVE  LET k == c.cmd3
             x == Crypted(g[1][k], inf.fr.key, k)
         IN  /\ inf.to.slot = 0 /\ inf.fr.slot = 1 /\ k \in Nat
             /\ k >= inf.fr.size => Swap(g, Nx(c, "P2", k), h, inf)
             /\ k < inf.fr.size =>
                  /\ k \in 0..End /\ x \in CellSet
                  /\ \A y \in CellSet : Swap(Put(g, 0, k, y), c, h, inf)
                  /\ Swap(Put(g, 0, k, x), Nx(c, "P2", k), h, inf)
<1>. DEFINE k == c.cmd3
            d == Nx(c, "P2", k)
            old == inf.to.img
            new == h.base
            x == Crypted(g[1][k], inf.fr.key, k)
<1>1. /\ h.good = new /\ ("PERM" \in c.cmd1 <=> h.back = None)
      /\ inf.loaded
      /\ inf.to = SideOf(0, old) /\ inf.fr = SideOf(1, new)
      /\ Goes(h, old) /\ Went(g, old, k) /\ Came(g, new, k)
  BY DEF Swap, Exchange
<1>2. k \in Nat /\ "P2" \in Word
  BY CmdFields DEF Word, Steps
<1>3. d.cmd1 = c.cmd1 /\ d.inplace = c.inplace /\ d.cmd2 = "P2" /\ d.cmd3 = k
  BY <1>2, NxFacts
<1>4. new \in Images /\ new \in Images \cup {None} /\ old \in Images \cup {None}
  BY <1>1 DEF HistOK, Goes
<1>5. Size(new) \in 0..End /\ inf.fr.size = Size(new) /\ inf.fr.key = KeyOf(new)
      /\ inf.to.slot = 0 /\ inf.fr.slot = 1
  BY <1>1, <1>4, SizeFacts, SideParts
<1>6. d.cmd2 \in Steps /\ c.cmd2 \in Steps
  BY <1>3 DEF Steps
<1>. HIDE DEF d, old, new
<1>7. ASSUME NEW p, Went(p, old, k), Came(p, new, k + 1)
      PROVE  Swap(p, d, h, inf)
  <2>1. Exchange(p, d, h, inf)
    BY <1>1, <1>3, <1>7 DEF Exchange, old, new
  <2>. QED BY <1>3, <1>6, <2>1 DEF Swap
<1>8. ASSUME k >= Size(new) PROVE Swap(g, d, h, inf)
  <2>1. Came(g, new, k + 1)
    BY <1>1, <1>2, <1>4, <1>5, <1>8, CameNext, EndNat
  <2>. QED BY <1>1, <1>7, <2>1
<1>9. ASSUME k < Size(new)
      PROVE  /\ k \in 0..End /\ x \in CellSet
             /\ \A y \in CellSet : Swap(Put(g, 0, k, y), c, h, inf)
             /\ Swap(Put(g, 0, k, x), d, h, inf)
  <2>1. k \in 0..End /\ k \in 0..Size(new) - 1
    BY <1>2, <1>5, <1>9, EndNat
  <2>2. g[1][k] = Cell(new, k, "sent")
    BY <1>1, <1>2, <2>1 DEF Came
  <2>3. x = Cell(new, k, RunForm(new))
    BY <1>2, <1>4, <1>5, <2>2, CryptFacts
  <2>4. RunForm(new) \in Form
    BY <1>4, ImageFacts DEF Form
  <2>5. x \in CellSet
    BY <2>3, <2>4, <1>2, <1>4, CellFacts
  <2>. HIDE DEF x
  <2>6. \A y \in CellSet : Went(Put(g, 0, k, y), old, k) /\ Came(Put(g, 0, k, y), new, k)
    BY <1>1, <1>4, <2>1, WentPut0, CamePut0
  <2>7. ASSUME NEW y \in CellSet PROVE Swap(Put(g, 0, k, y), c, h, inf)
    <3>1. Exchange(Put(g, 0, k, y), c, h, inf)
      BY <1>1, <2>6 DEF Exchange, old, new
    <3>. QED BY <1>6, <3>1 DEF Swap
  <2>8. Put(g, 0, k, x)[0][k] = Cell(new, k, RunForm(new))
    BY <2>1, <2>3, <2>5, PutFacts
  <2>9. CellsOK(Put(g, 0, k, x))
    BY <2>1, <2>5, PutFacts
  <2>10. Came(Put(g, 0, k, x), new, k + 1)
    BY <1>2, <1>4, <2>5, <2>6, <2>8, <2>9, CameNext
  <2>11. Swap(Put(g, 0, k, x), d, h, inf)
    BY <2>5, <2>6, <2>10, <1>7
  <2>. QED BY <2>1, <2>5, <2>7, <2>11
<1>. QED BY <1>2, <1>5, <1>8, <1>9 DEF d

(* Phase 2 moves a sector of the image that goes to slot 1.                *)
LEMMA StepP2 ==
  ASSUME NEW g, CellsOK(g), NEW c \in CmdSet, NEW h, HistOK(h), NEW inf,
         ~ c.inplace, c.cmd2 = "P2", Swap(g, c, h, inf)
  PROVE  LET k == c.cmd3
             x == Crypted(g[0][k + 1], inf.to.key, k)
         IN  /\ inf.to.slot = 0 /\ inf.fr.slot = 1 /\ k \in Nat
             /\ k >= inf.to.size => Swap(g, Nx(c, "P1", k + 1), h, inf)
             /\ k < inf.to.size =>
                  /\ k \in 0..End /\ x \in CellSet
                  /\ \A y \in CellSet : Swap(Put(g, 1, k, y), c, h, inf)
                  /\ Swap(Put(g, 1, k, x), Nx(c, "P1", k + 1), h, inf)
<1>. DEFINE k == c.cmd3
            d == Nx(c, "P1", k + 1)
            old == inf.to.img
            new == h.base
            x == Crypted(g[0][k + 1], inf.to.key, k)
<1>1. /\ h.good = new /\ ("PERM" \in c.cmd1 <=> h.back = None)
      /\ inf.loaded
      /\ inf.to = SideOf(0, old) /\ inf.fr = SideOf(1, new)
      /\ Goes(h, old) /\ Went(g, old, k) /\ Came(g, new, k + 1)
  BY DEF Swap, Exchange
<1>2. k \in Nat /\ k + 1 \in Nat /\ "P1" \in Word
  BY CmdFields DEF Word, Steps
<1>3. d.cmd1 = c.cmd1 /\ d.inplace = c.inplace /\ d.cmd2 = "P1" /\ d.cmd3 = k + 1
  BY <1>2, NxFacts
<1>4. new \in Images /\ new \in Images \cup {None} /\ old \in Images \cup {None}
  BY <1>1 DEF HistOK, Goes
<1>5. Size(old) \in 0..End /\ inf.to.size = Size(old) /\ inf.to.key = KeyOf(old)
      /\ inf.to.slot = 0 /\ inf.fr.slot = 1
  BY <1>1, <1>4, SizeFacts, SideParts
<1>6. d.cmd2 \in Steps /\ c.cmd2 \in Steps
  BY <1>3 DEF Steps
<1>. HIDE DEF d, old, new
<1>7. ASSUME NEW p, Went(p, old, k + 1), Came(p, new, k + 1)
      PROVE  Swap(p, d, h, inf)
  <2>1. Exchange(p, d, h, inf)
    BY <1>1, <1>3, <1>7 DEF Exchange, old, new
  <2>. QED BY <1>3, <1>6, <2>1 DEF Swap
<1>8. ASSUME k >= Size(old) PROVE Swap(g, d, h, inf)
  <2>1. Went(g, old, k + 1)
    BY <1>1, <1>2, <1>4, <1>5, <1>8, WentNext, EndNat
  <2>. QED BY <1>1, <1>7, <2>1
<1>9. ASSUME k < Size(old)
      PROVE  /\ k \in 0..End /\ x \in CellSet
             /\ \A y \in CellSet : Swap(Put(g, 1, k, y), c, h, inf)
             /\ Swap(Put(g, 1, k, x), d, h, inf)
  <2>1. k \in 0..End /\ k \in 0..Size(old) - 1
    BY <1>2, <1>5, <1>9, EndNat
  <2>2. g[0][k + 1] = Cell(old, k, RunForm(old))
    BY <1>1, <1>2, <2>1 DEF Went
  <2>3. old \in Images
    BY <1>2, <1>4, <1>5, <1>9, SizeFacts, EndNat
  <2>4. x = Cell(old, k, "sent")
    BY <1>2, <1>5, <2>2, <2>3, CryptFacts
  <2>5. x \in CellSet
    BY <2>4, <1>2, <1>4, CellFacts DEF Form
  <2>. HIDE DEF x
  <2>6. \A y \in CellSet : /\ Went(Put(g, 1, k, y), old, k)
                           /\ Came(Put(g, 1, k, y), new, k + 1)
    BY <1>1, <1>4, <2>1, WentPut1, CamePut1
  <2>7. ASSUME NEW y \in CellSet PROVE Swap(Put(g, 1, k, y), c, h, inf)
    <3>1. Exchange(Put(g, 1, k, y), c, h, inf)
      BY <1>1, <2>6 DEF Exchange, old, new
    <3>. QED BY <1>6, <3>1 DEF Swap
  <2>8. Put(g, 1, k, x)[1][k] = Cell(old, k, "sent")
    BY <2>1, <2>4, <2>5, PutFacts
  <2>9. CellsOK(Put(g, 1, k, x))
    BY <2>1, <2>5, PutFacts
  <2>10. Went(Put(g, 1, k, x), old, k + 1)
    BY <1>2, <1>4, <2>5, <2>6, <2>8, <2>9, WentNext
  <2>11. Swap(Put(g, 1, k, x), d, h, inf)
    BY <2>5, <2>6, <2>10, <1>7
  <2>. QED BY <2>1, <2>5, <2>7, <2>11
<1>. QED BY <1>2, <1>5, <1>8, <1>9 DEF d

(* Phase 2 of an image that stays: it is moved back, decrypted.            *)
LEMMA StepP2InPlace ==
  ASSUME NEW g, CellsOK(g), NEW c \in CmdSet, NEW h, HistOK(h), NEW inf,
         c.inplace, c.cmd2 = "P2", Swap(g, c, h, inf), inf.loaded
  PROVE  LET k == c.cmd3
             x == Crypted(g[1][k + 1], inf.to.key, k)
         IN  /\ inf.to.slot = 1 /\ inf.fr.slot = 1 /\ k \in Nat
             /\ inf.to.size = inf.fr.size
             /\ k >= inf.to.size => Swap(g, Nx(c, "P3", k), h, inf)
             /\ k < inf.to.size =>
                  /\ k \in 0..End /\ x \in CellSet
                  /\ \A y \in CellSet : Swap(Put(g, 1, k, y), c, h, inf)
                  /\ Swap(Put(g, 1, k, x), Nx(c, "P2", k + 1), h, inf)
<1>. DEFINE k == c.cmd3
            m == h.good
            x == Crypted(g[1][k + 1], inf.to.key, k)
<1>1. /\ RunSlot(m) = 1 /\ h.back = None /\ "PERM" \in c.cmd1
      /\ Kept(g, 0, h.base, RunForm(h.base))
      /\ inf.to = SideOf(1, m) /\ inf.fr = SideOf(1, m)
      /\ m.enc /\ Opened(g, m, k)
  BY DEF Swap, InPlace, Tells
<1>2. k \in Nat /\ k + 1 \in Nat /\ "P2" \in Word /\ "P3" \in Word
  BY CmdFields DEF Word, Steps
<1>4. m \in Images /\ m \in Images \cup {None} /\ h.base \in Images
      /\ h.base \in Images \cup {None}
  BY DEF HistOK
<1>5. /\ Size(m) \in 0..End /\ inf.to.size = Size(m) /\ inf.to.key = KeyOf(m)
      /\ inf.to.slot = 1 /\ inf.fr.slot = 1 /\ inf.to.size = inf.fr.size
  BY <1>1, <1>4, SizeFacts, SideParts
<1>6. RunForm(m) = "plain"
  BY <1>1, <1>4, ImageFacts DEF RunForm, RunSlot
<1>. HIDE DEF m
<1>8. ASSUME k >= Size(m) PROVE Swap(g, Nx(c, "P3", k), h, inf)
  <2>. DEFINE d == Nx(c, "P3", k)
  <2>1. d.cmd1 = c.cmd1 /\ d.inplace = c.inplace /\ d.cmd2 = "P3" /\ d.cmd3 = k
    BY <1>2, NxFacts
  <2>2. Kept(g, 1, m, "plain")
    BY <1>1, <1>2, <1>4, <1>8, AllMoved
  <2>3. d.cmd2 \in Steps
    BY <2>1 DEF Steps
  <2>. HIDE DEF d
  <2>4. InPlace(g, d, h, inf)
    BY <1>1, <1>6, <2>1, <2>2 DEF InPlace, m
  <2>. QED BY <2>1, <2>3, <2>4 DEF Swap, d
<1>9. ASSUME k < Size(m)
      PROVE  /\ k \in 0..End /\ x \in CellSet
             /\ \A y \in CellSet : Swap(Put(g, 1, k, y), c, h, inf)
             /\ Swap(Put(g, 1, k, x), Nx(c, "P2", k + 1), h, inf)
  <2>. DEFINE d == Nx(c, "P2", k + 1)
  <2>1. k \in 0..End /\ k \in 0..Size(m) - 1
    BY <1>2, <1>5, <1>9, EndNat
  <2>2. g[1][k + 1] = Cell(m, k, "sent")
    BY <1>1, <1>2, <2>1 DEF Opened
  <2>4. x = Cell(m, k, "plain")
    BY <1>2, <1>4, <1>5, <1>6, <2>2, CryptFacts
  <2>5. x \in CellSet
    BY <2>4, <1>2, <1>4, CellFacts DEF Form
  <2>. HIDE DEF x
  <2>6. \A y \in CellSet : /\ Opened(Put(g, 1, k, y), m, k)
                           /\ Kept(Put(g, 1, k, y), 0, h.base, RunForm(h.base))
    BY <1>1, <1>4, <2>1, OpenedPut, KeptPut
  <2>7. ASSUME NEW y \in CellSet PROVE Swap(Put(g, 1, k, y), c, h, inf)
    <3>1. InPlace(Put(g, 1, k, y), c, h, inf)
      BY <1>1, <2>6 DEF InPlace, m, Tells
    <3>2. c.cmd2 \in Steps
      BY DEF Steps
    <3>. QED BY <3>1, <3>2 DEF Swap
  <2>8. Put(g, 1, k, x)[1][k] = Cell(m, k, "plain")
    BY <2>1, <2>4, <2>5, PutFacts
  <2>9. CellsOK(Put(g, 1, k, x))
    BY <2>1, <2>5, PutFacts
  <2>10. Opened(Put(g, 1, k, x), m, k + 1)
    BY <1>2, <1>4, <2>5, <2>6, <2>8, <2>9, OpenedNext
  <2>11. d.cmd1 = c.cmd1 /\ d.inplace = c.inplace /\ d.cmd2 = "P2" /\ d.cmd3 = k + 1
    BY <1>2, NxFacts
  <2>12. d.cmd2 \in Steps
    BY <2>11 DEF Steps
  <2>. HIDE DEF d
  <2>13. InPlace(Put(g, 1, k, x), d, h, inf)
    BY <1>1, <2>5, <2>6, <2>10, <2>11 DEF InPlace, m, Tells
  <2>14. Swap(Put(g, 1, k, x), d, h, inf)
    BY <2>11, <2>12, <2>13 DEF Swap
  <2>. QED BY <2>1, <2>5, <2>7, <2>14 DEF d
<1>. QED BY <1>2, <1>5, <1>8, <1>9

-----------------------------------------------------------------------------
(* The steps of a swap, as actions                                         *)

LEMMA Append0 == ASSUME NEW a PROVE Append(<<>>, a) = <<a>>
OBVIOUS

LEMMA Append1 == ASSUME NEW a, NEW b PROVE Append(<<a>>, b) = <<a, b>>
<1>. DEFINE S == {a, b}
            s == Append(<<a>>, b)
<1>1. <<a>> \in Seq(S) /\ Len(<<a>>) = 1 /\ <<a>>[1] = a
  OBVIOUS
<1>2. s \in Seq(S) /\ Len(s) = 2 /\ s[1] = a /\ s[2] = b
  BY <1>1
<1>. HIDE DEF s
<1>3. s = <<a, b>>
  BY <1>2
<1>. QED BY <1>3 DEF s

LEMMA Append2 == ASSUME NEW a, NEW b, NEW c PROVE Append(<<a, b>>, c) = <<a, b, c>>
<1>. DEFINE S == {a, b, c}
            s == Append(<<a, b>>, c)
<1>1. <<a, b>> \in Seq(S) /\ Len(<<a, b>>) = 2 /\ <<a, b>>[1] = a /\ <<a, b>>[2] = b
  OBVIOUS
<1>2. s \in Seq(S) /\ Len(s) = 3 /\ s[1] = a /\ s[2] = b /\ s[3] = c
  BY <1>1
<1>. HIDE DEF s
<1>3. s = <<a, b, c>>
  BY <1>2
<1>. QED BY <1>3 DEF s

LEMMA Append3 ==
  ASSUME NEW a, NEW b, NEW c, NEW d
  PROVE  Append(<<a, b, c>>, d) = <<a, b, c, d>>
<1>. DEFINE S == {a, b, c, d}
            t == <<a, b, c>>
            s == Append(t, d)
<1>1. t \in Seq(S) /\ Len(t) = 3 /\ t[1] = a /\ t[2] = b /\ t[3] = c
  OBVIOUS
<1>2. s \in Seq(S) /\ Len(s) = 4 /\ s[1] = a /\ s[2] = b /\ s[3] = c /\ s[4] = d
  BY <1>1
<1>. HIDE DEF s
<1>3. s = <<a, b, c, d>>
  BY <1>2
<1>. QED BY <1>3 DEF s

(* Sequences of operations                                                 *)
LEMMA SeqFacts ==
  ASSUME NEW a, NEW b, NEW c, NEW d
  PROVE  /\ Append(<<>>, a) = <<a>> /\ <<a>> # <<>> /\ <<a, b>> # <<>>
         /\ <<a, b, c>> # <<>> /\ <<a, b, c, d>> # <<>>
         /\ Head(<<a>>) = a /\ Tail(<<a>>) = <<>>
         /\ Head(<<a, b>>) = a /\ Tail(<<a, b>>) = <<b>>
         /\ Head(<<a, b, c>>) = a /\ Tail(<<a, b, c>>) = <<b, c>>
         /\ Head(<<a, b, c, d>>) = a /\ Tail(<<a, b, c, d>>) = <<b, c, d>>
<1>1. Append(<<>>, a) = <<a>> /\ <<a>> # <<>> /\ <<a, b>> # <<>>
      /\ <<a, b, c>> # <<>> /\ <<a, b, c, d>> # <<>>
  OBVIOUS
<1>2. Head(<<a>>) = a /\ Tail(<<a>>) = <<>> /\ Head(<<a, b>>) = a /\ Tail(<<a, b>>) = <<b>>
  OBVIOUS
<1>3. Head(<<a, b, c>>) = a /\ Tail(<<a, b, c>>) = <<b, c>>
  OBVIOUS
<1>4. Head(<<a, b, c, d>>) = a /\ Tail(<<a, b, c, d>>) = <<b, c, d>>
  OBVIOUS
<1>. QED BY <1>1, <1>2, <1>3, <1>4

LEMMA SwappingIs ==
  /\ Swapping <=> Going(flash)
  /\ cmd = Log(flash)
  /\ FlashOK(flash) => cmd \in CmdSet
  /\ FlashOK(flash) => (Going(flash) <=> cmd.cmd2 \in Steps)
<1>1. (Swapping <=> Going(flash)) /\ cmd = Log(flash)
  BY DEF Swapping, Going, Log, cmd
<1>2. FlashOK(flash) => cmd \in CmdSet
  BY DEF FlashOK, Place, cmd, LastCmd
<1>3. FlashOK(flash) => (Going(flash) <=> cmd.cmd2 \in Steps)
  BY <1>1, <1>2, CmdFields DEF Going, HasCmd, cmd, Log
<1>. QED BY <1>1, <1>2, <1>3

LEMMA HdrImage ==
  ASSUME NEW g, CellsOK(g), NEW s \in 0..1
  PROVE  Hdr(g, s) \in Images \cup {None} /\ (Hdr(g, s) = None <=> ~ HasHdr(g[s][0]))
<1>1. g[s][0] \in CellSet
  BY CellIn, EndNat
<1>. QED BY <1>1 DEF Hdr, HasHdr, CellSet

LEMMA InfoIsHdr ==
  ASSUME FlashOK(flash), NEW s \in 0..1
  PROVE  LET m == Hdr(flash.cell, s)
         IN  /\ ImgInfo(s, 0).img = m
             /\ ImgInfo(s, 0) = NoImg <=> m = None
             /\ m # None => ImgInfo(s, 0).size = m.size
             /\ Side(s, 0) = SideOf(s, m)
<1>. DEFINE m == Hdr(flash.cell, s)
<1>1. m \in Images \cup {None} /\ (m = None <=> ~ HasHdr(flash.cell[s][0]))
  BY HdrImage DEF FlashOK
<1>2. CASE m = None
  <2>1. ImgInfo(s, 0) = NoImg
    BY <1>1, <1>2 DEF ImgInfo
  <2>2. NoImg.img = None /\ NoImg.size = 0 /\ NoImg.key = None
    BY DEF NoImg
  <2>3. Side(s, 0) = SideOf(s, None)
    BY <2>1, <2>2 DEF Side, SideOf, Size, KeyOf
  <2>. QED BY <1>2, <2>1, <2>2, <2>3
<1>3. CASE m # None
  <2>1. HasHdr(flash.cell[s][0]) /\ m = flash.cell[s][0].img
    BY <1>1, <1>3 DEF Hdr
  <2>. HIDE DEF m
  <2>2. ImgInfo(s, 0) = [img |-> m, size |-> m.size, key |-> IF m.enc THEN m ELSE None]
    BY <2>1 DEF ImgInfo
  <2>3. ImgInfo(s, 0).img = m /\ ImgInfo(s, 0).size = m.size
        /\ ImgInfo(s, 0).key = IF m.enc THEN m ELSE None
    BY <2>2
  <2>4. ImgInfo(s, 0) # NoImg
    BY <2>3, <1>3 DEF NoImg
  <2>5. Side(s, 0) = [slot |-> s, img |-> m, size |-> m.size,
                      key |-> IF m.load = "ram" THEN None
                              ELSE IF m.enc THEN m ELSE None]
    BY <2>3, <1>3 DEF Side
  <2>6. SideOf(s, m) = [slot |-> s, img |-> m, size |-> m.size,
                        key |-> IF m.enc /\ m.load # "ram" THEN m ELSE None]
    BY <1>3 DEF SideOf, Size, KeyOf
  <2>7. Side(s, 0) = SideOf(s, m)
    <3>1. CASE m.load = "ram"
      BY <2>5, <2>6, <3>1
    <3>2. CASE m.load # "ram"
      BY <2>5, <2>6, <3>2
    <3>. QED BY <3>1, <3>2
  <2>. QED BY <2>3, <2>4, <2>7, <1>3 DEF m
<1>. QED BY <1>2, <1>3

LEMMA HdrOfCell ==
  ASSUME NEW g, NEW s, NEW m \in Images, NEW f, g[s][0] = Cell(m, 0, f)
  PROVE  Hdr(g, s) = m
BY CellParts, ImageFacts DEF Hdr, HasHdr

(* zb_get_img_swp_info finds what the command needs: nothing that RAM      *)
(* still held is different from it, and what was lost is in the headers.   *)
Inf == IF info.loaded THEN info ELSE Loaded(cmd)

LEMMA LoadFacts ==
  ASSUME FlashOK(flash), HistOK(hist), InfoOK(info),
         Swap(flash.cell, cmd, hist, info)
  PROVE  InfoOK(Inf) /\ Inf.loaded /\ Swap(flash.cell, cmd, hist, Inf)
<1>1. CASE info.loaded
  BY <1>1 DEF Inf
<1>2. CASE ~ info.loaded
  <2>. DEFINE inf == Loaded(cmd)
              g == flash.cell
  <2>1. Inf = inf
    BY <1>2 DEF Inf
  <2>2. inf = [loaded |-> TRUE, to |-> inf.to, fr |-> inf.fr]
    BY DEF Loaded
  <2>3. inf.loaded /\ InfoOK(inf)
    BY <2>2 DEF InfoOK
  <2>4. cmd \in CmdSet /\ cmd.inplace \in BOOLEAN /\ cmd.cmd3 \in Nat
    BY SwappingIs, CmdFields
  <2>5. CellsOK(g)
    BY DEF FlashOK
  <2>6. hist.good \in Images /\ hist.base \in Images
    BY DEF HistOK
  <2>7. CASE cmd.inplace
    <3>. DEFINE m == hist.good
    <3>1. inf.to = Side(1, 0) /\ inf.fr = Side(1, 0)
      BY <2>7 DEF Loaded
    <3>2. InPlace(g, cmd, hist, info) /\ cmd.cmd2 \in Steps
      BY <2>7 DEF Swap
    <3>3. ASSUME cmd.cmd2 \in {"START", "MOVE_UP", "P2"} PROVE Hdr(g, 1) = m
      <4>1. 0 \in 0..Size(m) - 1
        BY <2>6, ImageFacts
      <4>2. CASE cmd.cmd2 = "START"
        <5>1. g[1][0] = Cell(m, 0, "sent")
          BY <3>2, <4>1, <4>2, KeptEq DEF InPlace
        <5>. QED BY <5>1, <2>6, HdrOfCell
      <4>3. CASE cmd.cmd2 = "MOVE_UP"
        <5>1. g[1][0] = Cell(m, 0, "sent")
          BY <3>2, <4>1, <4>3, <2>4 DEF InPlace, MovedUp
        <5>. QED BY <5>1, <2>6, HdrOfCell
      <4>4. CASE cmd.cmd2 = "P2"
        <5>0. cmd.cmd3 # 0 /\ Opened(g, m, cmd.cmd3)
          BY <3>2, <4>4, <1>2 DEF InPlace
        <5>1. g[1][0] = Cell(m, 0, "plain")
          BY <5>0, <4>1, <2>4 DEF Opened
        <5>. QED BY <5>1, <2>6, HdrOfCell
      <4>. QED BY <3>3, <4>2, <4>3, <4>4
    <3>4. cmd.cmd2 \in {"START", "MOVE_UP", "P2"} => Tells(inf, SideOf(1, m), SideOf(1, m))
      BY <3>1, <3>3, InfoIsHdr DEF Tells
    <3>. HIDE DEF inf, g, m
    <3>5. InPlace(g, cmd, hist, inf)
      BY <3>2, <3>4, <2>3 DEF InPlace, m
    <3>. QED BY <2>1, <2>3, <3>2, <3>5, <2>7 DEF Swap, g
  <2>8. CASE ~ cmd.inplace
    <3>. DEFINE old == Hdr(g, 0)
                new == hist.base
    <3>2. Exchange(g, cmd, hist, info) /\ cmd.cmd2 \in Steps
      BY <2>8 DEF Swap
    <3>3. cmd.cmd2 \notin {"P1", "P2"}
      BY <3>2, <1>2 DEF Exchange
    <3>1. inf.to = Side(0, 0) /\ inf.fr = Side(1, 0)
      BY <2>8, <3>3 DEF Loaded
    <3>4. ASSUME cmd.cmd2 \in {"START", "MOVE_UP"} PROVE Hdr(g, 1) = new
      <4>1. 0 \in 0..Size(new) - 1
        BY <2>6, ImageFacts
      <4>2. g[1][0] = Cell(new, 0, "sent")
        BY <3>2, <3>4, <4>1, KeptEq DEF Exchange
      <4>. QED BY <4>2, <2>6, HdrOfCell
    <3>5. cmd.cmd2 \in {"START", "MOVE_UP"} => Tells(inf, SideOf(0, old), SideOf(1, new))
      BY <3>1, <3>4, InfoIsHdr DEF Tells
    <3>. HIDE DEF inf, g, old, new
    <3>6. Exchange(g, cmd, hist, inf)
      BY <3>2, <3>3, <3>5, <2>3 DEF Exchange, old, new
    <3>. QED BY <2>1, <2>3, <3>2, <3>6, <2>8 DEF Swap, g
  <2>. QED BY <2>4, <2>7, <2>8
<1>. QED BY <1>1, <1>2

LEMMA StepFacts ==
  ASSUME ZInv, NEW w, Step(w)
  PROVE  /\ FlashOK(flash) /\ HistOK(hist) /\ cmd \in CmdSet /\ cmd.cmd2 = w
         /\ Going(flash) /\ Inf.loaded /\ Swap(flash.cell, cmd, hist, Inf)
         /\ w = "P4" => Settled(flash, hist, losses)
         /\ info' = Inf
         /\ \/ Moving(flash, ops', hist, Inf)
            \/ Closing(flash, ops', hist, Inf, losses)
            \/ Ending(flash, ops')
            => ZInv'
<1>1. /\ at = "swap" /\ ops = <<>> /\ Swapping /\ cmd.cmd2 = w /\ info' = Inf
      /\ UNCHANGED <<flash, at, ran, dfu, hist, intent, losses>>
  BY DEF Step, Ready, Inf
<1>2. /\ FlashOK(flash) /\ HistOK(hist) /\ InfoOK(info) /\ DfuOK(at, dfu)
      /\ ran \in 0..1 /\ losses \in 0..MaxLosses
      /\ Doing(flash, at, ops, info, ran, dfu.img, hist, intent, losses)
  BY DEF ZInv
<1>3. Going(flash) /\ cmd \in CmdSet /\ cmd = Log(flash)
  BY <1>1, <1>2, SwappingIs
<1>4. SwapOK(flash, hist, info, losses)
  BY <1>1, <1>2, <1>3 DEF Doing
<1>5. Swap(flash.cell, cmd, hist, info) /\ (w = "P4" => Settled(flash, hist, losses))
  BY <1>1, <1>3, <1>4 DEF SwapOK
<1>6. InfoOK(Inf) /\ Inf.loaded /\ Swap(flash.cell, cmd, hist, Inf)
  BY <1>2, <1>5, LoadFacts
<1>7. SwapOK(flash, hist, Inf, losses)
  BY <1>1, <1>3, <1>5, <1>6 DEF SwapOK
<1>8. ASSUME \/ Moving(flash, ops', hist, Inf)
             \/ Closing(flash, ops', hist, Inf, losses)
             \/ Ending(flash, ops')
      PROVE  ZInv'
  <2>1. Doing(flash, at, ops', Inf, ran, dfu.img, hist, intent, losses)
    BY <1>1, <1>3, <1>6, <1>7, <1>8 DEF Doing
  <2>. QED BY <1>1, <1>2, <1>6, <2>1 DEF ZInv
<1>. QED BY <1>1, <1>2, <1>3, <1>5, <1>6, <1>8

LEMMA ThenIs ==
  ASSUME NEW w \in Word, NEW n \in Nat, NEW todo
  PROVE  Then(todo, w, n) <=> ops' = Append(todo, WriteCmd(2, Nx(cmd, w, n)))
BY DEF Then, Nx

(* The three ways a step of the swap can go on                             *)
LEMMA OnlyCommand ==
  ASSUME FlashOK(flash), cmd \in CmdSet, NEW w \in {"MOVE_UP", "P1", "P2", "P3"},
         NEW n \in Nat, cmd.cmd2 \in {"START", "MOVE_UP", "P1", "P2"},
         Then(<<>>, w, n), Swap(flash.cell, Nx(cmd, w, n), hist, Inf)
  PROVE  Moving(flash, ops', hist, Inf)
<1>. DEFINE c == Nx(cmd, w, n)
<1>1. w \in Word
  BY DEF Word, Steps
<1>2. ops' = <<WriteCmd(2, c)>>
  BY <1>1, ThenIs, Append0
<1>3. c \in CmdSet /\ c.cmd2 = w
  BY <1>1, NxFacts
<1>. HIDE DEF c
<1>. QED BY <1>2, <1>3, SwappingIs DEF Moving, c

LEMMA MoveCommand ==
  ASSUME FlashOK(flash), cmd \in CmdSet, NEW w \in {"MOVE_UP", "P1", "P2", "P3"},
         NEW n \in Nat, cmd.cmd2 \in {"START", "MOVE_UP", "P1", "P2"},
         NEW s \in 0..1, NEW i \in 0..End, NEW x \in CellSet,
         Then(Move(s, i, x), w, n),
         \A y \in CellSet : Swap(Put(flash.cell, s, i, y), cmd, hist, Inf),
         Swap(Put(flash.cell, s, i, x), Nx(cmd, w, n), hist, Inf)
  PROVE  Moving(flash, ops', hist, Inf)
<1>. DEFINE c == Nx(cmd, w, n)
<1>1. w \in Word
  BY DEF Word, Steps
<1>2. ops' = <<Erase(s, i), Write(s, i, x), WriteCmd(2, c)>>
  BY <1>1, ThenIs, Append2 DEF Move
<1>3. c \in CmdSet /\ c.cmd2 = w
  BY <1>1, NxFacts
<1>4. cmd = Log(flash)
  BY SwappingIs
<1>. HIDE DEF c
<1>5. Writing(flash, ops', hist, Inf, s, i, x, c)
  BY <1>2, <1>4 DEF Writing, c
<1>. QED BY <1>3, <1>4, <1>5 DEF Moving

LEMMA StartKeeps == ASSUME ZInv, Start PROVE ZInv'
<1>1. /\ FlashOK(flash) /\ HistOK(hist) /\ cmd \in CmdSet /\ cmd.cmd2 = "START"
      /\ Inf.loaded /\ Swap(flash.cell, cmd, hist, Inf) /\ info' = Inf
      /\ Moving(flash, ops', hist, Inf) => ZInv'
  BY StepFacts DEF Start
<1>. DEFINE g == flash.cell
            m == hist.good
            new == hist.base
            old == Hdr(g, 0)
<1>2. CellsOK(g) /\ m \in Images /\ new \in Images /\ cmd.inplace \in BOOLEAN
  BY <1>1, CmdFields DEF FlashOK, HistOK
<1>3. /\ 0 \in Nat /\ {"MOVE_UP", "P1", "P2", "P3"} \subseteq Steps /\ Steps \subseteq Word
      /\ "MOVE_UP" \in Word /\ "P1" \in Word /\ "P3" \in Word
  BY DEF Steps, Word
<1>7. ASSUME NEW n \in Nat
      PROVE  LET c == Nx(cmd, "MOVE_UP", n)
             IN  /\ c.cmd1 = cmd.cmd1 /\ c.inplace = cmd.inplace
                 /\ c.cmd2 = "MOVE_UP" /\ c.cmd3 = n
  BY <1>1, <1>3, NxFacts
<1>4. CASE cmd.inplace
  <2>1. InPlace(g, cmd, hist, Inf)
    BY <1>1, <1>4 DEF Swap
  <2>2. /\ RunSlot(m) = 1 /\ hist.back = None /\ "PERM" \in cmd.cmd1
        /\ Kept(g, 0, new, RunForm(new)) /\ Kept(g, 1, m, "sent")
        /\ Inf.to = SideOf(1, m) /\ Inf.fr = SideOf(1, m)
    BY <1>1, <2>1 DEF InPlace, Tells
  <2>3. info'.fr.key = KeyOf(m) /\ info'.to.size = m.size /\ m.size \in 1..End
    BY <1>1, <1>2, <2>2, SideParts, ImageFacts
  <2>4. m.load = "slot1" /\ m # None
    BY <1>2, <2>2, ImageFacts DEF RunSlot
  <2>5. CASE KeyOf(m) = None
    <3>1. ~ m.enc
      BY <2>4, <2>5 DEF KeyOf
    <3>2. Then(<<>>, "P3", 0)
      BY <1>4, <2>3, <2>5 DEF Start
    <3>. DEFINE c == Nx(cmd, "P3", 0)
    <3>3. c.cmd1 = cmd.cmd1 /\ c.inplace = cmd.inplace /\ c.cmd2 = "P3" /\ c.cmd3 = 0
      BY <1>1, <1>3, NxFacts
    <3>4. RunForm(m) = "sent"
      BY <3>1 DEF RunForm
    <3>. HIDE DEF c, g, m, new
    <3>5. InPlace(g, c, hist, Inf)
      BY <2>2, <3>3, <3>4 DEF InPlace, m, new
    <3>6. Swap(g, c, hist, Inf)
      BY <1>3, <1>4, <3>3, <3>5 DEF Swap
    <3>7. Moving(flash, ops', hist, Inf)
      BY <1>1, <1>3, <3>2, <3>6, OnlyCommand DEF c, g
    <3>. QED BY <1>1, <3>7
  <2>6. CASE KeyOf(m) # None
    <3>1. m.enc
      BY <2>4, <2>6 DEF KeyOf
    <3>2. Then(<<>>, "MOVE_UP", m.size - 1)
      BY <1>2, <2>3, <2>6, EndNat DEF Start
    <3>. DEFINE c == Nx(cmd, "MOVE_UP", m.size - 1)
    <3>0. m.size - 1 \in Nat /\ Size(m) = m.size /\ m.size \in Nat
      BY <1>2, <2>3, ImageFacts, EndNat
    <3>3. c.cmd1 = cmd.cmd1 /\ c.inplace = cmd.inplace /\ c.cmd2 = "MOVE_UP"
          /\ c.cmd3 = m.size - 1
      BY <1>7, <3>0
    <3>. HIDE DEF c, g, m, new
    <3>4. MovedUp(g, 1, m, "sent", m.size - 1)
      BY <2>2, <3>0 DEF MovedUp, Kept
    <3>5. m.size - 1 < Size(m)
      BY <3>0
    <3>6. InPlace(g, c, hist, Inf)
      BY <2>2, <3>1, <3>3, <3>4, <3>5 DEF InPlace, m, new, Tells
    <3>7. Swap(g, c, hist, Inf)
      BY <1>3, <1>4, <3>3, <3>6 DEF Swap
    <3>8. Moving(flash, ops', hist, Inf)
      BY <1>1, <3>0, <3>2, <3>7, OnlyCommand DEF c, g
    <3>. QED BY <1>1, <3>8
  <2>. QED BY <2>5, <2>6
<1>5. CASE ~ cmd.inplace
  <2>1. Exchange(g, cmd, hist, Inf)
    BY <1>1, <1>5 DEF Swap
  <2>2. /\ hist.good = new /\ ("PERM" \in cmd.cmd1 <=> hist.back = None)
        /\ Goes(hist, old) /\ Kept(g, 1, new, "sent") /\ Kept(g, 0, old, RunForm(old))
        /\ Inf.to = SideOf(0, old) /\ Inf.fr = SideOf(1, new)
    BY <1>1, <2>1 DEF Exchange, Tells
  <2>3. info'.to.size = Size(old) /\ Inf.to.img = old /\ old \in Images \cup {None}
    BY <1>1, <2>2, SideParts DEF Goes
  <2>4. Size(old) \in Nat
    BY <2>3, SizeFacts, EndNat
  <2>5. CASE Size(old) = 0
    <3>2. Then(<<>>, "P1", 0)
      BY <1>5, <2>3, <2>5 DEF Start
    <3>. DEFINE c == Nx(cmd, "P1", 0)
    <3>3. c.cmd1 = cmd.cmd1 /\ c.inplace = cmd.inplace /\ c.cmd2 = "P1" /\ c.cmd3 = 0
      BY <1>1, <1>3, NxFacts
    <3>. HIDE DEF c, g, new, old
    <3>4. Went(g, old, 0)
      BY <2>5 DEF Went
    <3>5. Came(g, new, 0)
      BY <1>2, <2>2, ImageFacts DEF Came, Kept
    <3>6. Exchange(g, c, hist, Inf)
      BY <1>1, <2>2, <2>3, <3>3, <3>4, <3>5 DEF Exchange, new
    <3>7. Swap(g, c, hist, Inf)
      BY <1>3, <1>5, <3>3, <3>6 DEF Swap
    <3>8. Moving(flash, ops', hist, Inf)
      BY <1>1, <1>3, <3>2, <3>7, OnlyCommand DEF c, g
    <3>. QED BY <1>1, <3>8
  <2>6. CASE Size(old) # 0
    <3>2. Then(<<>>, "MOVE_UP", Size(old) - 1)
      BY <1>5, <2>3, <2>6 DEF Start
    <3>. DEFINE c == Nx(cmd, "MOVE_UP", Size(old) - 1)
    <3>0. Size(old) - 1 \in Nat
      BY <2>4, <2>6
    <3>3. c.cmd1 = cmd.cmd1 /\ c.inplace = cmd.inplace /\ c.cmd2 = "MOVE_UP"
          /\ c.cmd3 = Size(old) - 1
      BY <1>7, <3>0
    <3>. HIDE DEF c, g, new, old
    <3>4. MovedUp(g, 0, old, RunForm(old), Size(old) - 1)
      BY <2>2, <2>4 DEF MovedUp, Kept
    <3>5. Size(old) - 1 < Size(old)
      BY <2>4
    <3>6. Exchange(g, c, hist, Inf)
      BY <2>2, <3>3, <3>4, <3>5 DEF Exchange, new, old, Tells
    <3>7. Swap(g, c, hist, Inf)
      BY <1>3, <1>5, <3>3, <3>6 DEF Swap
    <3>8. Moving(flash, ops', hist, Inf)
      BY <1>1, <3>0, <3>2, <3>7, OnlyCommand DEF c, g
    <3>. QED BY <1>1, <3>8
  <2>. QED BY <2>5, <2>6
<1>. QED BY <1>2, <1>4, <1>5

LEMMA MoveUpKeeps == ASSUME ZInv, MoveUp PROVE ZInv'
<1>1. /\ FlashOK(flash) /\ HistOK(hist) /\ cmd \in CmdSet /\ cmd.cmd2 = "MOVE_UP"
      /\ Inf.loaded /\ Swap(flash.cell, cmd, hist, Inf) /\ info' = Inf
      /\ Moving(flash, ops', hist, Inf) => ZInv'
  BY StepFacts DEF MoveUp
<1>. DEFINE g == flash.cell
            k == cmd.cmd3
<1>2. CellsOK(g) /\ cmd.inplace \in BOOLEAN
  BY <1>1, CmdFields DEF FlashOK
<1>3. Then(Move(Inf.to.slot, k + 1, g[Inf.to.slot][k]),
           IF k # 0 THEN "MOVE_UP" ELSE IF cmd.inplace THEN "P2" ELSE "P1",
           IF k = 0 THEN 0 ELSE k - 1)
  BY <1>1 DEF MoveUp
<1>4. CASE cmd.inplace
  <2>1. /\ Inf.to.slot = 1 /\ k \in Nat /\ k + 1 \in 0..End /\ g[1][k] \in CellSet
        /\ \A y \in CellSet : Swap(Put(g, 1, k + 1, y), cmd, hist, Inf)
        /\ k # 0 => Swap(Put(g, 1, k + 1, g[1][k]), Nx(cmd, "MOVE_UP", k - 1), hist, Inf)
        /\ k = 0 => Swap(Put(g, 1, k + 1, g[1][k]), Nx(cmd, "P2", 0), hist, Inf)
    BY <1>1, <1>2, <1>4, UpInPlace
  <2>2. CASE k # 0
    <3>1. Then(Move(1, k + 1, g[1][k]), "MOVE_UP", k - 1) /\ k - 1 \in Nat
      BY <1>3, <2>1, <2>2
    <3>2. Moving(flash, ops', hist, Inf)
      BY <1>1, <2>1, <2>2, <3>1, MoveCommand
    <3>. QED BY <1>1, <3>2
  <2>3. CASE k = 0
    <3>1. Then(Move(1, k + 1, g[1][k]), "P2", 0) /\ 0 \in Nat
      BY <1>3, <1>4, <2>1, <2>3
    <3>2. Moving(flash, ops', hist, Inf)
      BY <1>1, <2>1, <2>3, <3>1, MoveCommand
    <3>. QED BY <1>1, <3>2
  <2>. QED BY <2>2, <2>3
<1>5. CASE ~ cmd.inplace
  <2>1. /\ Inf.to.slot = 0 /\ k \in Nat /\ k + 1 \in 0..End /\ g[0][k] \in CellSet
        /\ \A y \in CellSet : Swap(Put(g, 0, k + 1, y), cmd, hist, Inf)
        /\ k # 0 => Swap(Put(g, 0, k + 1, g[0][k]), Nx(cmd, "MOVE_UP", k - 1), hist, Inf)
        /\ k = 0 => Swap(Put(g, 0, k + 1, g[0][k]), Nx(cmd, "P1", 0), hist, Inf)
    BY <1>1, <1>2, <1>5, UpExchange
  <2>2. CASE k # 0
    <3>1. Then(Move(0, k + 1, g[0][k]), "MOVE_UP", k - 1) /\ k - 1 \in Nat
      BY <1>3, <2>1, <2>2
    <3>2. Moving(flash, ops', hist, Inf)
      BY <1>1, <2>1, <2>2, <3>1, MoveCommand
    <3>. QED BY <1>1, <3>2
  <2>3. CASE k = 0
    <3>1. Then(Move(0, k + 1, g[0][k]), "P1", 0) /\ 0 \in Nat
      BY <1>3, <1>5, <2>1, <2>3
    <3>2. Moving(flash, ops', hist, Inf)
      BY <1>1, <2>1, <2>3, <3>1, MoveCommand
    <3>. QED BY <1>1, <3>2
  <2>. QED BY <2>2, <2>3
<1>. QED BY <1>2, <1>4, <1>5

LEMMA P1Keeps == ASSUME ZInv, P1 PROVE ZInv'
<1>1. /\ FlashOK(flash) /\ HistOK(hist) /\ cmd \in CmdSet /\ cmd.cmd2 = "P1"
      /\ Inf.loaded /\ Swap(flash.cell, cmd, hist, Inf) /\ info' = Inf
      /\ Moving(flash, ops', hist, Inf) => ZInv'
  BY StepFacts DEF P1
<1>. DEFINE g == flash.cell
            k == cmd.cmd3
            x == Crypted(g[1][k], Inf.fr.key, k)
<1>2. CellsOK(g) /\ ~ cmd.inplace
  BY <1>1 DEF FlashOK, Swap, InPlace
<1>3. /\ Inf.to.slot = 0 /\ Inf.fr.slot = 1 /\ k \in Nat
      /\ k >= Inf.fr.size => Swap(g, Nx(cmd, "P2", k), hist, Inf)
      /\ k < Inf.fr.size =>
           /\ k \in 0..End /\ x \in CellSet
           /\ \A y \in CellSet : Swap(Put(g, 0, k, y), cmd, hist, Inf)
           /\ Swap(Put(g, 0, k, x), Nx(cmd, "P2", k), hist, Inf)
  BY <1>1, <1>2, StepP1
<1>4. \/ k >= Inf.fr.size /\ k >= Inf.to.size /\ Then(<<>>, "P3", k)
      \/ k >= Inf.fr.size /\ Then(<<>>, "P2", k)
      \/ k < Inf.fr.size /\ Then(Move(0, k, x), "P2", k)
  BY <1>1, <1>3 DEF P1
<1>. HIDE DEF x
<1>5. CASE k >= Inf.fr.size /\ k >= Inf.to.size /\ Then(<<>>, "P3", k)
  <2>1. Swap(g, Nx(cmd, "P3", k), hist, Inf)
    BY <1>1, <1>2, <1>5, PhaseEnds
  <2>2. Moving(flash, ops', hist, Inf)
    BY <1>1, <1>3, <1>5, <2>1, OnlyCommand
  <2>. QED BY <1>1, <2>2
<1>6. CASE k >= Inf.fr.size /\ Then(<<>>, "P2", k)
  <2>2. Moving(flash, ops', hist, Inf)
    BY <1>1, <1>3, <1>6, OnlyCommand
  <2>. QED BY <1>1, <2>2
<1>7. CASE k < Inf.fr.size /\ Then(Move(0, k, x), "P2", k)
  <2>2. Moving(flash, ops', hist, Inf)
    BY <1>1, <1>3, <1>7, MoveCommand
  <2>. QED BY <1>1, <2>2
<1>. QED BY <1>4, <1>5, <1>6, <1>7

LEMMA P2Keeps == ASSUME ZInv, P2 PROVE ZInv'
<1>1. /\ FlashOK(flash) /\ HistOK(hist) /\ cmd \in CmdSet /\ cmd.cmd2 = "P2"
      /\ Inf.loaded /\ Swap(flash.cell, cmd, hist, Inf) /\ info' = Inf
      /\ Moving(flash, ops', hist, Inf) => ZInv'
  BY StepFacts DEF P2
<1>. DEFINE g == flash.cell
            k == cmd.cmd3
<1>2. CellsOK(g) /\ cmd.inplace \in BOOLEAN
  BY <1>1, CmdFields DEF FlashOK
<1>3. CASE ~ cmd.inplace
  <2>. DEFINE x == Crypted(g[0][k + 1], Inf.to.key, k)
  <2>1. /\ Inf.to.slot = 0 /\ Inf.fr.slot = 1 /\ k \in Nat /\ k + 1 \in Nat
        /\ k >= Inf.to.size => Swap(g, Nx(cmd, "P1", k + 1), hist, Inf)
        /\ k < Inf.to.size =>
             /\ k \in 0..End /\ x \in CellSet
             /\ \A y \in CellSet : Swap(Put(g, 1, k, y), cmd, hist, Inf)
             /\ Swap(Put(g, 1, k, x), Nx(cmd, "P1", k + 1), hist, Inf)
    BY <1>1, <1>2, <1>3, StepP2
  <2>2. \/ k >= Inf.to.size /\ k >= Inf.fr.size /\ Then(<<>>, "P3", k)
        \/ k >= Inf.to.size /\ Then(<<>>, "P1", k + 1)
        \/ k < Inf.to.size /\ Then(Move(1, k, x), "P1", k + 1)
    BY <1>1, <1>3, <2>1 DEF P2
  <2>. HIDE DEF x
  <2>3. CASE k >= Inf.to.size /\ k >= Inf.fr.size /\ Then(<<>>, "P3", k)
    <3>1. Swap(g, Nx(cmd, "P3", k), hist, Inf)
      BY <1>1, <1>2, <1>3, <2>3, PhaseEnds
    <3>2. Moving(flash, ops', hist, Inf)
      BY <1>1, <2>1, <2>3, <3>1, OnlyCommand
    <3>. QED BY <1>1, <3>2
  <2>4. CASE k >= Inf.to.size /\ Then(<<>>, "P1", k + 1)
    <3>2. Moving(flash, ops', hist, Inf)
      BY <1>1, <2>1, <2>4, OnlyCommand
    <3>. QED BY <1>1, <3>2
  <2>5. CASE k < Inf.to.size /\ Then(Move(1, k, x), "P1", k + 1)
    <3>2. Moving(flash, ops', hist, Inf)
      BY <1>1, <2>1, <2>5, MoveCommand
    <3>. QED BY <1>1, <3>2
  <2>. QED BY <2>2, <2>3, <2>4, <2>5
<1>4. CASE cmd.inplace
  <2>. DEFINE x == Crypted(g[1][k + 1], Inf.to.key, k)
  <2>1. /\ Inf.to.slot = 1 /\ Inf.fr.slot = 1 /\ k \in Nat /\ k + 1 \in Nat
        /\ Inf.to.size = Inf.fr.size
        /\ k >= Inf.to.size => Swap(g, Nx(cmd, "P3", k), hist, Inf)
        /\ k < Inf.to.size =>
             /\ k \in 0..End /\ x \in CellSet
             /\ \A y \in CellSet : Swap(Put(g, 1, k, y), cmd, hist, Inf)
             /\ Swap(Put(g, 1, k, x), Nx(cmd, "P2", k + 1), hist, Inf)
    BY <1>1, <1>2, <1>4, StepP2InPlace
  <2>0. Inf.to.size \in Nat
    <3>1. Inf.to = SideOf(1, hist.good) /\ hist.good \in Images
      BY <1>1, <1>4 DEF Swap, InPlace, Tells, HistOK
    <3>. QED BY <3>1, SideParts, SizeFacts, EndNat
  <2>2. \/ k >= Inf.to.size /\ Then(<<>>, "P3", k)
        \/ k < Inf.to.size /\ Then(Move(1, k, x), "P2", k + 1)
    BY <1>1, <1>4, <2>0, <2>1 DEF P2
  <2>. HIDE DEF x
  <2>3. CASE k >= Inf.to.size /\ Then(<<>>, "P3", k)
    <3>2. Moving(flash, ops', hist, Inf)
      BY <1>1, <2>1, <2>3, OnlyCommand
    <3>. QED BY <1>1, <3>2
  <2>5. CASE k < Inf.to.size /\ Then(Move(1, k, x), "P2", k + 1)
    <3>2. Moving(flash, ops', hist, Inf)
      BY <1>1, <2>1, <2>5, MoveCommand
    <3>. QED BY <1>1, <3>2
  <2>. QED BY <2>2, <2>3, <2>5
<1>. QED BY <1>2, <1>3, <1>4

(* The CRC of a slot is the one of an image exactly when the image is      *)
(* there, whole, in the form it runs in.                                   *)
LEMMA ContentIs ==
  ASSUME FlashOK(flash), NEW s \in 0..1, NEW m \in Images,
         Kept(flash.cell, s, m, RunForm(m))
  PROVE  Content(s) = Body(m) /\ LoadOf(s) = m.load /\ ImgInfo(s, 0) # NoImg
<1>1. m.size \in 1..End /\ Size(m) = m.size /\ m # None
  BY ImageFacts
<1>2. flash.cell[s][0] = Cell(m, 0, RunForm(m))
  BY <1>1, EndNat, KeptEq
<1>3. Hdr(flash.cell, s) = m
  BY <1>2, HdrOfCell
<1>4. ImgInfo(s, 0).img = m /\ ImgInfo(s, 0) # NoImg /\ ImgInfo(s, 0).size = m.size
  BY <1>1, <1>3, InfoIsHdr
<1>5. LoadOf(s) = m.load
  BY <1>4 DEF LoadOf
<1>6. \A i \in 1..m.size : flash.cell[s][i - 1] = Cell(m, i - 1, RunForm(m))
  <2>1. \A i \in 1..m.size : i - 1 \in 0..Size(m) - 1
    BY <1>1, EndNat
  <2>. QED BY <2>1, KeptEq
<1>7. Content(s) = Body(m)
  BY <1>4, <1>6 DEF Content, Body
<1>. QED BY <1>4, <1>5, <1>7

LEMMA ContentHolds ==
  ASSUME NEW s \in 0..1, NEW m \in Images, Content(s) = Body(m)
  PROVE  Kept(flash.cell, s, m, RunForm(m))
<1>1. m.size \in 1..End /\ Size(m) = m.size
  BY ImageFacts
<1>2. SUFFICES ASSUME NEW i \in 0..Size(m) - 1
      PROVE  flash.cell[s][i] = Cell(m, i, RunForm(m))
  BY DEF Kept
<1>3. i + 1 \in 1..m.size /\ (i + 1) - 1 = i
  BY <1>1, EndNat
<1>4. DOMAIN Body(m) = 1..m.size /\ Body(m)[i + 1] = Cell(m, i, RunForm(m))
  BY <1>3 DEF Body
<1>5. i + 1 \in DOMAIN Content(s)
  BY <1>3, <1>4
<1>6. Content(s)[i + 1] = flash.cell[s][i]
  BY <1>3, <1>5 DEF Content
<1>. QED BY <1>4, <1>6

LEMMA PrmParts ==
  ASSUME NEW b \in BOOLEAN
  PROVE  /\ Prm(b).crc[0] = Content(0) /\ Prm(b).crc[1] = Content(1)
         /\ Prm(b).sec = LoadOf(0)
         /\ Prm(b).pri = IF b /\ ImgInfo(1, 0) # NoImg THEN LoadOf(1) ELSE LoadOf(0)
BY DEF Prm

(* The parameters P3 writes are those of the images in the slots.          *)
LEMMA P3Prm ==
  ASSUME FlashOK(flash), HistOK(hist), cmd \in CmdSet, cmd.cmd2 = "P3",
         NEW inf, Swap(flash.cell, cmd, hist, inf)
  PROVE  PrmOK(Prm(cmd.inplace), hist)
<1>. DEFINE p == Prm(cmd.inplace)
<1>0. hist.base \in Images /\ hist.good \in Images /\ cmd.inplace \in BOOLEAN
  BY CmdFields DEF HistOK
<1>1. Kept(flash.cell, 0, hist.base, RunForm(hist.base))
  BY <1>0 DEF Swap, Exchange, InPlace
<1>2. cmd.inplace => RunSlot(hist.good) = 1
                     /\ Kept(flash.cell, 1, hist.good, RunForm(hist.good))
  BY <1>0 DEF Swap, InPlace
<1>3. Content(0) = Body(hist.base) /\ LoadOf(0) = hist.base.load
  BY <1>0, <1>1, ContentIs
<1>4. cmd.inplace => /\ Content(1) = Body(hist.good) /\ LoadOf(1) = hist.good.load
                     /\ ImgInfo(1, 0) # NoImg /\ hist.good.load = "slot1"
  BY <1>0, <1>2, ContentIs DEF RunSlot
<1>5. /\ p.crc[0] = Body(hist.base) /\ p.sec = hist.base.load
      /\ p.crc[1] = Content(1)
      /\ p.pri = IF cmd.inplace /\ ImgInfo(1, 0) # NoImg THEN LoadOf(1) ELSE LoadOf(0)
  BY <1>0, <1>3, PrmParts
<1>. HIDE DEF p
<1>6. \/ p.pri = hist.base.load
      \/ p.pri = "slot1" /\ RunSlot(hist.good) = 1 /\ p.crc[1] = Body(hist.good)
  BY <1>0, <1>2, <1>3, <1>4, <1>5
<1>7. p.pri \in {"slot0", "slot1", "ram"}
  BY <1>0, <1>6, ImageFacts
<1>8. p \notin {NoPrm, WildPrm}
  BY <1>7 DEF NoPrm, WildPrm
<1>. QED BY <1>5, <1>6, <1>8 DEF PrmOK, p

LEMMA P3Keeps == ASSUME ZInv, P3 PROVE ZInv'
<1>1. /\ FlashOK(flash) /\ HistOK(hist) /\ cmd \in CmdSet /\ cmd.cmd2 = "P3"
      /\ Inf.loaded /\ Swap(flash.cell, cmd, hist, Inf) /\ info' = Inf
      /\ Closing(flash, ops', hist, Inf, losses) => ZInv'
  BY StepFacts DEF P3
<1>. DEFINE p == Prm(cmd.inplace)
            b == IF ImgInfo(1, 0) = NoImg THEN cmd.cmd1 \cup {"PERM"} ELSE cmd.cmd1
            x == [cmd EXCEPT !.cmd1 = b]
            y == Nx(cmd, "P4", cmd.cmd3)
<1>2. cmd.inplace \in BOOLEAN /\ cmd.cmd3 \in Nat /\ "P4" \in Word /\ "P4" \in Steps
  BY <1>1, CmdFields DEF Word, Steps
<1>3. PrmOK(p, hist)
  BY <1>1, P3Prm
<1>4. y \in CmdSet /\ y.cmd1 = cmd.cmd1 /\ y.inplace = cmd.inplace /\ y.cmd2 = "P4"
  BY <1>1, <1>2, NxFacts
<1>5. x \in CmdSet /\ x.cmd1 = b /\ x.cmd2 = "P3"
  BY <1>1 DEF CmdSet
<1>6. x # NoCmd
  BY <1>5, NoCmdFacts
<1>7. "PERM" \in b <=> hist.back = None
  <2>1. CASE cmd.inplace
    <3>1. hist.back = None /\ "PERM" \in cmd.cmd1
      BY <1>1, <2>1 DEF Swap, InPlace
    <3>. QED BY <3>1
  <2>2. CASE ~ cmd.inplace
    <3>1. /\ "PERM" \in cmd.cmd1 <=> hist.back = None
          /\ hist.back # None => Kept(flash.cell, 1, hist.back, "sent")
      BY <1>1, <2>2 DEF Swap, Exchange
    <3>2. CASE hist.back = None
      BY <3>1, <3>2
    <3>3. CASE hist.back # None
      <4>1. hist.back \in Images
        BY <1>1, <3>3 DEF HistOK
      <4>2. 0 \in 0..Size(hist.back) - 1
        BY <4>1, ImageFacts
      <4>3. flash.cell[1][0] = Cell(hist.back, 0, "sent")
        BY <3>1, <3>3, <4>2, KeptEq
      <4>4. Hdr(flash.cell, 1) # None
        BY <3>3, <4>1, <4>3, HdrOfCell
      <4>5. ImgInfo(1, 0) # NoImg
        BY <1>1, <4>4, InfoIsHdr
      <4>. QED BY <3>1, <4>5
    <3>. QED BY <3>2, <3>3
  <2>. QED BY <1>2, <2>1, <2>2
<1>8. Swap(flash.cell, y, hist, Inf)
  <2>. HIDE DEF y
  <2>1. CASE cmd.inplace
    <3>1. InPlace(flash.cell, y, hist, Inf)
      BY <1>1, <1>4, <2>1 DEF Swap, InPlace
    <3>. QED BY <1>2, <1>4, <2>1, <3>1 DEF Swap
  <2>2. CASE ~ cmd.inplace
    <3>1. Exchange(flash.cell, y, hist, Inf)
      BY <1>1, <1>4, <2>2 DEF Swap, Exchange
    <3>. QED BY <1>2, <1>4, <2>2, <3>1 DEF Swap
  <2>. QED BY <1>2, <2>1, <2>2
<1>9. ops' = <<Erase(0, End), WritePrm(p), WriteCmd(0, x), WriteCmd(2, y)>>
  <2>1. Then(<<Erase(0, End), WritePrm(p), WriteCmd(0, x)>>, "P4", cmd.cmd3)
    BY DEF P3
  <2>. HIDE DEF p, x
  <2>. QED BY <1>2, <2>1, ThenIs, Append3
<1>. HIDE DEF p, x, y
<1>10. Recording(flash, ops', hist, losses, p, x, y)
  BY <1>9 DEF Recording
<1>11. "PERM" \in x.cmd1 <=> hist.back = None
  BY <1>5, <1>7
<1>12. Log(flash).cmd2 = "P3"
  BY <1>1, SwappingIs
<1>13. Closing(flash, ops', hist, Inf, losses)
  BY <1>3, <1>4, <1>5, <1>6, <1>8, <1>10, <1>11, <1>12 DEF Closing
<1>. QED BY <1>1, <1>13

LEMMA P4Keeps == ASSUME ZInv, P4 PROVE ZInv'
<1>1. /\ FlashOK(flash) /\ cmd \in CmdSet /\ cmd.cmd2 = "P4"
      /\ Ending(flash, ops') => ZInv'
  BY StepFacts DEF P4
<1>. DEFINE c == Nx(cmd, "END", cmd.cmd3)
<1>2. cmd.cmd3 \in Nat /\ "END" \in Word
  BY <1>1, CmdFields DEF Word
<1>3. c \in CmdSet /\ c.cmd2 = "END"
  BY <1>1, <1>2, NxFacts
<1>4. Then(<<Erase(1, End)>>, "END", cmd.cmd3)
  BY DEF P4
<1>5. ops' = <<Erase(1, End), WriteCmd(2, c)>>
  BY <1>2, <1>4, ThenIs, Append1
<1>. HIDE DEF c
<1>6. Ending(flash, ops')
  BY <1>1, <1>3, <1>5, SwappingIs DEF Ending
<1>. QED BY <1>1, <1>6

LEMMA FinishedKeeps == ASSUME ZInv, Finished PROVE ZInv'
<1>1. /\ at = "swap" /\ ops = <<>> /\ ~ Swapping /\ at' = "boot"
      /\ UNCHANGED <<flash, ops, info, ran, dfu, hist, intent, losses>>
  BY DEF Finished, Ready
<1>2. /\ FlashOK(flash) /\ HistOK(hist) /\ InfoOK(info) /\ DfuOK(at, dfu)
      /\ ran \in 0..1 /\ losses \in 0..MaxLosses
      /\ Doing(flash, at, ops, info, ran, dfu.img, hist, intent, losses)
  BY DEF ZInv
<1>3. ~ Going(flash)
  BY <1>1, SwappingIs
<1>4. Starting(flash, ops, hist, intent, info, losses)
      \/ (info.loaded /\ Settled(flash, hist, losses))
  BY <1>1, <1>2, <1>3 DEF Doing
<1>5. ~ Starting(flash, ops, hist, intent, info, losses)
  BY <1>1, SeqFacts DEF Starting
<1>6. Doing(flash, "boot", ops, info, ran, dfu.img, hist, intent, losses)
  BY <1>1, <1>3, <1>4, <1>5 DEF Doing
<1>7. DfuOK("boot", dfu)
  BY <1>1, <1>2 DEF DfuOK
<1>. QED BY <1>1, <1>2, <1>6, <1>7 DEF ZInv

-----------------------------------------------------------------------------
(* Before and after a swap                                                 *)

LEMMA InvParts ==
  ASSUME ZInv
  PROVE  /\ FlashOK(flash) /\ HistOK(hist) /\ InfoOK(info) /\ DfuOK(at, dfu)
         /\ ran \in 0..1 /\ losses \in 0..MaxLosses
         /\ Doing(flash, at, ops, info, ran, dfu.img, hist, intent, losses)
         /\ cmd \in CmdSet /\ (Swapping <=> Going(flash))
         /\ at # "app" => dfu.img = None
         /\ hist.base \in Images /\ hist.good \in Images
         /\ hist.base \in Images \cup {None} /\ RunSlot(hist.base) = 0
         /\ hist.back \in Images \cup {None}
         /\ CellsOK(flash.cell)
BY SwappingIs DEF ZInv, DfuOK, HistOK, FlashOK

LEMMA OffFacts ==
  ASSUME ZInv, Ready("off"), ~ Swapping
  PROVE  info = NotLoaded /\ ops = <<>> /\ Resting(flash, hist, losses)
BY InvParts DEF Ready, Doing

LEMMA RestoreFacts ==
  ASSUME ZInv, Ready("restore")
  PROVE  /\ info = NotLoaded /\ ops = <<>> /\ ~ Swapping
         /\ Settled(flash, hist, losses)
BY InvParts DEF Ready, Doing

LEMMA ContinueKeeps == ASSUME ZInv, Continue PROVE ZInv'
<1>1. /\ at = "off" /\ ops = <<>> /\ Going(flash) /\ at' = "swap"
      /\ UNCHANGED <<flash, ops, info, ran, dfu, hist, intent, losses>>
  BY InvParts DEF Continue, Ready
<1>2. SwapOK(flash, hist, info, losses)
  BY <1>1, InvParts DEF Doing
<1>3. Doing(flash, "swap", ops, info, ran, dfu.img, hist, intent, losses)
  BY <1>1, <1>2 DEF Doing
<1>4. DfuOK("swap", dfu)
  BY <1>1, InvParts DEF DfuOK
<1>. QED BY <1>1, <1>3, <1>4, InvParts DEF ZInv

LEMMA SwapStarts ==
  ASSUME ZInv, NEW b, NEW p, NEW it, StartSwap(b, p), intent' = it, HistOK(it),
         at # "app", ~ Swapping, info = NotLoaded, Resting(flash, hist, losses),
         b \in SUBSET {"PERM", "REQUEST", "BT0", "ERROR"}, p \in BOOLEAN,
         Swap(flash.cell, Cmd(b, "START", p, 0), it, info)
  PROVE  ZInv'
<1>. DEFINE c == Cmd(b, "START", p, 0)
<1>1. /\ ops' = <<EraseStat, WriteCmd(2, c)>> /\ at' = "swap"
      /\ UNCHANGED <<flash, info, ran, dfu, hist, losses>>
  BY DEF StartSwap
<1>2. c \in CmdSet /\ c.cmd2 = "START"
  BY DEF Cmd, CmdSet, Word, Steps
<1>. HIDE DEF c
<1>3. Starting(flash, ops', hist, it, info, losses)
  BY <1>1, <1>2 DEF Starting, c
<1>4. Doing(flash, "swap", ops', info, ran, dfu.img, hist, it, losses)
  BY <1>3, InvParts DEF Doing
<1>5. DfuOK("swap", dfu)
  BY InvParts DEF DfuOK
<1>. QED BY <1>1, <1>4, <1>5, InvParts DEF ZInv

LEMMA StartCmd ==
  ASSUME NEW b, NEW p
  PROVE  LET c == Cmd(b, "START", p, 0)
         IN  c.cmd1 = b /\ c.cmd2 = "START" /\ c.inplace = p /\ c.cmd3 = 0
             /\ c.cmd2 \in Steps
BY CmdParts DEF Steps

LEMMA NotLoadedIs == ~ NotLoaded.loaded
BY DEF NotLoaded

(* A new device holds the image it was programmed with.                    *)
LEMMA FreshAsks ==
  ASSUME ZInv, Fresh0(flash, hist)
  PROVE  ToSwap /\ ImgInfo(1, 0).img = First
<1>1. First \in Images
  BY ZepAssumption
<1>2. First.size \in 1..End /\ Size(First) = First.size /\ First # None
  BY <1>1, ImageFacts
<1>3. flash.cell[1][0] = Cell(First, 0, "sent")
  BY <1>2, EndNat, KeptEq DEF Fresh0
<1>4. Hdr(flash.cell, 1) = First
  BY <1>1, <1>3, HdrOfCell
<1>5. ImgInfo(1, 0).img = First
  BY <1>4, InfoIsHdr, InvParts
<1>6. Holds(1, First, "sent") /\ flash.prm = NoPrm
  BY <1>2 DEF Fresh0, Kept, Holds
<1>7. Good
  BY <1>2, <1>5, <1>6 DEF Good
<1>8. Requested(flash, "REQUEST")
  BY DEF Fresh0, Requested
<1>. QED BY <1>5, <1>7, <1>8 DEF ToSwap

LEMMA AcceptKeeps == ASSUME Proviso, ZInv, Accept PROVE ZInv'
<1>. DEFINE m == ImgInfo(1, 0).img
            g == flash.cell
            p == RunSlot(m) = 1
            b == (LastCmd(flash, 1).cmd1 \ {"REQUEST"}) \cup (IF p THEN {"PERM"} ELSE {})
            it == [good |-> m, base |-> IF p THEN hist.base ELSE m,
                   back |-> IF "PERM" \in b THEN None ELSE hist.base]
            c == Cmd(b, "START", p, 0)
            old == Hdr(g, 0)
<1>1. /\ Ready("off") /\ ~ Swapping /\ ToSwap /\ StartSwap(b, p) /\ intent' = it
  BY DEF Accept
<1>2. info = NotLoaded /\ Resting(flash, hist, losses) /\ at # "app"
  BY <1>1, OffFacts DEF Ready
<1>3. Good
  BY <1>1 DEF ToSwap
<1>4. m = Hdr(g, 1) /\ m \in Images
  <2>1. m = Hdr(g, 1)
    BY InfoIsHdr, InvParts
  <2>2. m # None
    BY <1>3 DEF Good
  <2>. QED BY <2>1, <2>2, HdrImage, InvParts
<1>5. Kept(g, 1, m, "sent") /\ m # None /\ RunSlot(m) \in 0..1
  BY <1>3, <1>4, ImageFacts DEF Good, Holds, Kept
<1>6. b \in SUBSET {"PERM", "REQUEST", "BT0", "ERROR"} /\ p \in BOOLEAN
  <2>1. LastCmd(flash, 1) \in CmdSet
    BY InvParts DEF FlashOK, Place, LastCmd
  <2>. QED BY <2>1 DEF CmdSet
<1>7. /\ old \in Images \cup {None} /\ (old # None => RunSlot(old) = 0)
      /\ Kept(g, 0, old, RunForm(old))
      /\ "PERM" \notin b => old = hist.base
      /\ p => Kept(g, 0, hist.base, RunForm(hist.base))
  <2>1. CASE Fresh0(flash, hist)
    <3>1. m = First
      BY <2>1, FreshAsks
    <3>2. RunSlot(m) = 0
      BY <3>1 DEF Proviso, RunSlot
    <3>3. "PERM" \in b
      BY <2>1 DEF Fresh0
    <3>4. old = None
      BY <2>1 DEF Fresh0, Hdr
    <3>5. Kept(g, 0, None, RunForm(old))
      BY DEF Kept, Size
    <3>. QED BY <3>2, <3>3, <3>4, <3>5
  <2>2. CASE Settled(flash, hist, losses)
    <3>1. Kept(g, 0, hist.base, RunForm(hist.base))
      BY <2>2 DEF Settled
    <3>2. old = hist.base
      BY <3>1, HdrOfKept, InvParts
    <3>. QED BY <3>1, <3>2, InvParts
  <2>. QED BY <1>2, <2>1, <2>2 DEF Resting
<1>8. c.cmd1 = b /\ c.cmd2 = "START" /\ c.inplace = p /\ c.cmd3 = 0 /\ c.cmd2 \in Steps
  BY StartCmd
<1>9. /\ it.good = m /\ it.base = IF p THEN hist.base ELSE m
      /\ it.back = IF "PERM" \in b THEN None ELSE hist.base
      /\ it = [good |-> it.good, base |-> it.base, back |-> it.back]
  OBVIOUS
<1>. HIDE DEF b, c, g, it, m, old
<1>10. HistOK(it)
  BY <1>4, <1>5, <1>9, InvParts DEF HistOK
<1>11. Swap(g, c, it, info)
  <2>1. CASE p
    <3>1. "PERM" \in b
      BY <2>1 DEF b
    <3>2. InPlace(g, c, it, info)
      BY <1>2, <1>5, <1>7, <1>8, <1>9, <2>1, <3>1, NotLoadedIs DEF InPlace, Tells
    <3>. QED BY <1>8, <2>1, <3>2 DEF Swap
  <2>2. CASE ~ p
    <3>0. hist.base # None
      BY InvParts, ImageFacts
    <3>1. "PERM" \in b <=> it.back = None
      BY <1>9, <3>0
    <3>2. Goes(it, old)
      BY <1>7, <1>9, <3>1 DEF Goes
    <3>3. Exchange(g, c, it, info)
      BY <1>2, <1>5, <1>7, <1>8, <1>9, <2>2, <3>1, <3>2, NotLoadedIs DEF Exchange, Tells, old
    <3>. QED BY <1>8, <2>2, <3>3 DEF Swap
  <2>. QED BY <2>1, <2>2
<1>. QED BY <1>1, <1>2, <1>6, <1>10, <1>11, SwapStarts DEF c, g

LEMMA RestoreKeeps == ASSUME ZInv, Restore PROVE ZInv'
<1>. DEFINE g == flash.cell
            b == LastCmd(flash, 0).cmd1 \cup {"PERM"}
            it == [good |-> hist.back, base |-> hist.back, back |-> None]
            c == Cmd(b, "START", FALSE, 0)
<1>1. /\ Ready("restore") /\ Temporary /\ StartSwap(b, FALSE) /\ intent' = it
  BY DEF Restore
<1>2. /\ info = NotLoaded /\ ~ Swapping /\ at # "app"
      /\ Settled(flash, hist, losses) /\ Resting(flash, hist, losses)
  BY <1>1, RestoreFacts DEF Ready, Resting
<1>3. hist.back # None /\ hist.back \in Images
  BY <1>1, <1>2, InvParts DEF Temporary, Settled
<1>4. RunSlot(hist.back) = 0
  BY <1>3, InvParts DEF HistOK
<1>5. Kept(g, 0, hist.base, RunForm(hist.base)) /\ Kept(g, 1, hist.back, "sent")
  BY <1>2, <1>3 DEF Settled
<1>6. Hdr(g, 0) = hist.base
  BY <1>5, HdrOfKept, InvParts
<1>7. b \in SUBSET {"PERM", "REQUEST", "BT0", "ERROR"}
  <2>1. LastCmd(flash, 0) \in CmdSet
    BY InvParts DEF FlashOK, Place, LastCmd
  <2>. QED BY <2>1 DEF CmdSet
<1>8. c.cmd1 = b /\ c.cmd2 = "START" /\ c.inplace = FALSE /\ c.cmd3 = 0 /\ c.cmd2 \in Steps
  BY StartCmd
<1>9. /\ it.good = hist.back /\ it.base = hist.back /\ it.back = None
      /\ it = [good |-> it.good, base |-> it.base, back |-> it.back]
  OBVIOUS
<1>0. "PERM" \in b
  OBVIOUS
<1>. HIDE DEF b, c, g, it
<1>10. HistOK(it)
  BY <1>3, <1>4, <1>9 DEF HistOK
<1>11. Goes(it, hist.base)
  BY <1>9, InvParts DEF Goes
<1>12. Exchange(g, c, it, info)
  BY <1>0, <1>2, <1>5, <1>6, <1>8, <1>9, <1>11, NotLoadedIs DEF Exchange, Tells
<1>13. Swap(g, c, it, info)
  BY <1>8, <1>12 DEF Swap
<1>. QED BY <1>1, <1>2, <1>7, <1>10, <1>13, SwapStarts DEF c, g

LEMMA KeptCmdFacts ==
  ASSUME ZInv
  PROVE  KeptCmd \in CmdSet /\ KeptCmd # NoCmd /\ "PERM" \in KeptCmd.cmd1
<1>1. CASE HasCmd(flash, 0)
  <2>1. LastCmd(flash, 0) \in CmdSet
    BY InvParts DEF FlashOK, Place, LastCmd
  <2>2. KeptCmd = [LastCmd(flash, 0) EXCEPT !.cmd1 = @ \cup {"PERM"}]
    BY <1>1 DEF KeptCmd
  <2>3. KeptCmd \in CmdSet /\ "PERM" \in KeptCmd.cmd1
    BY <2>1, <2>2 DEF CmdSet
  <2>4. "PERM" \notin NoCmd.cmd1
    BY DEF NoCmd, Cmd
  <2>. QED BY <2>3, <2>4
<1>2. CASE ~ HasCmd(flash, 0)
  BY <1>2, NoCmdFacts DEF KeptCmd
<1>. QED BY <1>1, <1>2

LEMMA MakePermanentKeeps == ASSUME ZInv, MakePermanent PROVE ZInv'
<1>1. /\ Ready("off") /\ ~ Swapping /\ ~ ToSwap
      /\ ops' = <<WriteCmd(0, KeptCmd)>> /\ at' = "restore"
      /\ intent' = [hist EXCEPT !.back = None]
      /\ UNCHANGED <<flash, info, ran, dfu, hist, losses>>
  BY DEF MakePermanent
<1>2. info = NotLoaded /\ Settled(flash, hist, losses) /\ at # "app"
  BY <1>1, OffFacts, FreshAsks DEF Resting, Ready
<1>3. Keeping(ops', hist, intent')
  BY <1>1, KeptCmdFacts DEF Keeping
<1>4. Doing(flash, "restore", ops', info, ran, dfu.img, hist, intent', losses)
  BY <1>1, <1>2, <1>3, InvParts DEF Doing
<1>5. DfuOK("restore", dfu)
  BY <1>2, InvParts DEF DfuOK
<1>. QED BY <1>1, <1>4, <1>5, InvParts DEF ZInv

LEMMA NothingKeeps == ASSUME ZInv, Nothing PROVE ZInv'
<1>1. /\ Ready("off") /\ ~ Swapping /\ ~ ToSwap /\ ops = <<>> /\ at' = "restore"
      /\ UNCHANGED <<flash, ops, info, ran, dfu, hist, intent, losses>>
  BY DEF Nothing, Ready
<1>2. info = NotLoaded /\ Settled(flash, hist, losses) /\ at # "app"
  BY <1>1, OffFacts, FreshAsks DEF Resting, Ready
<1>3. Keeping(ops, hist, intent)
  BY <1>1 DEF Keeping
<1>4. Doing(flash, "restore", ops, info, ran, dfu.img, hist, intent, losses)
  BY <1>1, <1>2, <1>3, InvParts DEF Doing
<1>5. DfuOK("restore", dfu)
  BY <1>2, InvParts DEF DfuOK
<1>. QED BY <1>1, <1>4, <1>5, InvParts DEF ZInv

LEMMA NoRestoreKeeps == ASSUME ZInv, NoRestore PROVE ZInv'
<1>1. /\ Ready("restore") /\ ~ Temporary /\ ops = <<>>
      /\ at' = IF HasCmd(flash, 0) THEN "boot" ELSE "dead"
      /\ UNCHANGED <<flash, ops, info, ran, dfu, hist, intent, losses>>
  BY DEF NoRestore, Ready
<1>2. ~ Swapping /\ Settled(flash, hist, losses) /\ at # "app"
  BY <1>1, RestoreFacts DEF Ready
<1>3. HasCmd(flash, 0) /\ hist.back = None
  BY <1>1, <1>2 DEF Settled, Temporary
<1>4. Doing(flash, "boot", ops, info, ran, dfu.img, hist, intent, losses)
  BY <1>1, <1>2, <1>3, InvParts DEF Doing
<1>5. DfuOK("boot", dfu)
  BY <1>2, InvParts DEF DfuOK
<1>. QED BY <1>1, <1>3, <1>4, <1>5, InvParts DEF ZInv

LEMMA BootKeeps == ASSUME ZInv, Boot PROVE ZInv'
<1>1. /\ at = "boot" /\ ops = <<>> /\ info' = NotLoaded
      /\ UNCHANGED <<flash, ops, dfu, hist, intent, losses>>
  BY DEF Boot, Ready
<1>2. ~ Going(flash) /\ Settled(flash, hist, losses)
  BY <1>1, InvParts DEF Doing
<1>. DEFINE p == flash.prm
<1>3. PrmOK(p, hist) /\ Kept(flash.cell, 0, hist.base, RunForm(hist.base))
  BY <1>2 DEF Settled
<1>4. PICK slot0 \in BootsSlot0 :
         LET pri == Chosen(slot0)
         IN  /\ at' = IF Intact(pri) THEN "app" ELSE "dead"
             /\ ran' = IF pri = "slot1" THEN 1 ELSE 0
  BY <1>3 DEF Boot, PrmOK
<1>. DEFINE pri == Chosen(slot0)
<1>5. Content(0) = p.crc[0]
  BY <1>3, ContentIs, InvParts DEF PrmOK
<1>6. at' = "app"
  BY <1>4, <1>5 DEF Intact
<1>7. hist.base.load # "slot1"
  BY InvParts DEF RunSlot
<1>8. ASSUME pri = "slot1"
      PROVE  RunSlot(hist.good) = 1 /\ Kept(flash.cell, 1, hist.good, RunForm(hist.good))
  <2>1. p.pri = "slot1" /\ Content(1) = p.crc[1]
    BY <1>3, <1>7, <1>8 DEF Chosen, PrmOK
  <2>2. RunSlot(hist.good) = 1 /\ p.crc[1] = Body(hist.good)
    BY <1>3, <1>7, <2>1 DEF PrmOK
  <2>. QED BY <2>1, <2>2, ContentHolds, InvParts
<1>. HIDE DEF pri, p
<1>9. ran' \in 0..1 /\ (ran' = 1 => pri = "slot1")
  BY <1>4 DEF pri
<1>10. Running(flash, ops, hist, ran', dfu.img)
  BY <1>1, <1>8, <1>9, InvParts DEF Running
<1>11. Doing(flash, "app", ops, NotLoaded, ran', dfu.img, hist, intent, losses)
  BY <1>2, <1>10 DEF Doing
<1>12. DfuOK("app", dfu)
  BY InvParts DEF DfuOK
<1>13. InfoOK(NotLoaded)
  BY DEF InfoOK
<1>. QED BY <1>1, <1>6, <1>9, <1>11, <1>12, <1>13, InvParts DEF ZInv

-----------------------------------------------------------------------------
(* The application                                                         *)

LEMMA AppFacts ==
  ASSUME ZInv, App
  PROVE  /\ at = "app" /\ ops = <<>> /\ ~ Going(flash) /\ info = NotLoaded
         /\ Settled(flash, hist, losses)
         /\ dfu.img # None => ran = 0 /\ hist.back = None
         /\ ran = 1 => /\ RunSlot(hist.good) = 1
                       /\ Kept(flash.cell, 1, hist.good, RunForm(hist.good))
         /\ UNCHANGED <<flash, info, ran, hist, intent, losses>>
<1>1. at = "app" /\ ops = <<>> /\ UNCHANGED <<flash, info, ran, hist, intent, losses>>
  BY DEF App, Ready
<1>2. /\ ~ Going(flash) /\ info = NotLoaded /\ Settled(flash, hist, losses)
      /\ Running(flash, ops, hist, ran, dfu.img)
  BY <1>1, InvParts DEF Doing
<1>. QED BY <1>1, <1>2 DEF Running

LEMMA RunningOps ==
  ASSUME NEW h, NEW r, NEW a, NEW b, AppOp(h, r, a)
  PROVE  LET o == <<a>>
             p == <<a, b>>
         IN  /\ o = <<o[1]>> /\ AppOp(h, r, o[1])
             /\ AppOp(h, r, b) => p = <<p[1], p[2]>> /\ AppOp(h, r, p[1]) /\ AppOp(h, r, p[2])
<1>. DEFINE o == <<a>>
            p == <<a, b>>
<1>1. o[1] = a /\ p[1] = a /\ p[2] = b
  OBVIOUS
<1>. HIDE DEF o, p
<1>2. AppOp(h, r, o[1]) /\ AppOp(h, r, p[1]) /\ (AppOp(h, r, b) => AppOp(h, r, p[2]))
  BY <1>1
<1>3. o = <<o[1]>> /\ p = <<p[1], p[2]>>
  BY <1>1 DEF o, p
<1>. QED BY <1>2, <1>3 DEF o, p

LEMMA AppKeeps ==
  ASSUME ZInv, App, at' = "app", DfuOK("app", dfu'),
         dfu'.img # None => ran = 0 /\ hist.back = None,
         \/ ops' = <<>>
         \/ \E a : ops' = <<a>> /\ AppOp(hist, ran, a)
         \/ \E a, b : ops' = <<a, b>> /\ AppOp(hist, ran, a) /\ AppOp(hist, ran, b)
  PROVE  ZInv'
<1>1. \/ ops' = <<>>
      \/ ops' = <<ops'[1]>> /\ AppOp(hist, ran, ops'[1])
      \/ ops' = <<ops'[1], ops'[2]>> /\ AppOp(hist, ran, ops'[1]) /\ AppOp(hist, ran, ops'[2])
  <2>1. CASE ops' = <<>>
    BY <2>1
  <2>2. CASE \E a : ops' = <<a>> /\ AppOp(hist, ran, a)
    <3>1. PICK a : ops' = <<a>> /\ AppOp(hist, ran, a)
      BY <2>2
    <3>. QED BY <3>1, RunningOps
  <2>3. CASE \E a, b : ops' = <<a, b>> /\ AppOp(hist, ran, a) /\ AppOp(hist, ran, b)
    <3>1. PICK a, b : ops' = <<a, b>> /\ AppOp(hist, ran, a) /\ AppOp(hist, ran, b)
      BY <2>3
    <3>. QED BY <3>1, RunningOps
  <2>. QED BY <2>1, <2>2, <2>3
<1>2. Running(flash, ops', hist, ran, dfu'.img)
  BY <1>1, AppFacts DEF Running
<1>3. Doing(flash, "app", ops', info, ran, dfu'.img, hist, intent, losses)
  BY <1>2, AppFacts DEF Doing
<1>. QED BY <1>3, AppFacts, InvParts DEF ZInv

LEMMA BeginKeeps == ASSUME Proviso, ZInv, NEW m \in Uploads, Begin(m) PROVE ZInv'
<1>1. App /\ ran = 0 /\ dfu' = [img |-> m, n |-> 0] /\ at' = at /\ ops' = ops
      /\ hist.back = None
  BY DEF Begin, Proviso
<1>2. m \in Images
  BY ZepAssumption
<1>3. DfuOK("app", dfu')
  BY <1>1, <1>2 DEF DfuOK
<1>. QED BY <1>1, <1>3, AppFacts, AppKeeps

LEMMA ReceiveKeeps == ASSUME ZInv, Receive PROVE ZInv'
<1>. DEFINE n == dfu.n
            c == Cell(dfu.img, n, "sent")
<1>1. /\ App /\ dfu.img # None /\ n < dfu.img.size /\ ops' = Move(1, n, c)
      /\ dfu' = [dfu EXCEPT !.n = @ + 1] /\ at' = at
  BY DEF Receive
<1>2. dfu = [img |-> dfu.img, n |-> n] /\ dfu.img \in Images /\ n \in Nat
  BY <1>1, InvParts DEF DfuOK
<1>3. dfu.img.size \in 1..End
  BY <1>2, ImageFacts
<1>4. n \in 0..End - 1
  BY <1>1, <1>2, <1>3, EndNat
<1>5. c \in CellSet
  BY <1>2, CellFacts DEF Form
<1>6. dfu' = [img |-> dfu.img, n |-> n + 1]
  BY <1>1, <1>2
<1>7. DfuOK("app", dfu') /\ dfu'.img = dfu.img
  BY <1>2, <1>6 DEF DfuOK
<1>8. ran = 0 /\ hist.back = None
  BY <1>1, AppFacts
<1>. HIDE DEF c, n
<1>9. AppOp(hist, ran, Erase(1, n)) /\ AppOp(hist, ran, Write(1, n, c))
  BY <1>4, <1>5, <1>8 DEF AppOp
<1>10. ops' = <<Erase(1, n), Write(1, n, c)>>
  BY <1>1 DEF Move
<1>. QED BY <1>1, <1>7, <1>8, <1>9, <1>10, AppFacts, AppKeeps

LEMMA TellFacts ==
  ASSUME NEW b \in SUBSET {"PERM", "REQUEST", "BT0", "ERROR"}, NEW h, NEW r
  PROVE  /\ \/ \E x : Tell(b) = <<x>> /\ AppOp(h, r, x)
            \/ \E x, y : Tell(b) = <<x, y>> /\ AppOp(h, r, x) /\ AppOp(h, r, y)
         /\ AppOp(h, r, Erase(1, End))
<1>. DEFINE c == Cmd(b, "none", FALSE, 0)
<1>1. c \in CmdSet
  BY DEF Cmd, CmdSet, Word
<1>2. Tell(b) = IF Full(flash, 1) THEN <<Erase(1, End), WriteCmd(1, c)>> ELSE <<WriteCmd(1, c)>>
  BY DEF Tell
<1>. HIDE DEF c
<1>3. AppOp(h, r, Erase(1, End)) /\ AppOp(h, r, WriteCmd(1, c))
  BY <1>1 DEF AppOp
<1>. QED BY <1>2, <1>3

LEMMA FinishKeeps ==
  ASSUME ZInv, NEW b \in SUBSET {"REQUEST", "PERM"}, Finish(b) PROVE ZInv'
<1>1. App /\ ops' = Tell(b) /\ dfu' = NoDfu /\ at' = at
  BY DEF Finish
<1>2. DfuOK("app", dfu') /\ dfu'.img = None
  BY <1>1 DEF NoDfu, DfuOK
<1>3. b \in SUBSET {"PERM", "REQUEST", "BT0", "ERROR"}
  OBVIOUS
<1>. QED BY <1>1, <1>2, <1>3, TellFacts, AppFacts, AppKeeps

LEMMA RebootToKeeps == ASSUME ZInv, NEW s \in 0..1, RebootTo(s) PROVE ZInv'
<1>1. App /\ dfu' = dfu /\ at' = at
  BY DEF RebootTo
<1>2. DfuOK("app", dfu') /\ (dfu'.img # None => ran = 0 /\ hist.back = None)
  BY <1>1, AppFacts, InvParts
<1>3. \/ ops' = Tell({"BT0"}) \/ ops' = Tell({}) \/ ops' = <<Erase(1, End)>>
  BY DEF RebootTo
<1>4. {"BT0"} \in SUBSET {"PERM", "REQUEST", "BT0", "ERROR"}
      /\ {} \in SUBSET {"PERM", "REQUEST", "BT0", "ERROR"}
  OBVIOUS
<1>5. \/ \E a : ops' = <<a>> /\ AppOp(hist, ran, a)
      \/ \E a, b : ops' = <<a, b>> /\ AppOp(hist, ran, a) /\ AppOp(hist, ran, b)
  BY <1>3, <1>4, TellFacts
<1>. QED BY <1>1, <1>2, <1>5, AppFacts, AppKeeps

LEMMA RebootKeeps == ASSUME ZInv, Reboot PROVE ZInv'
<1>1. /\ at \in {"app", "dead"} /\ at' = "off" /\ ops' = <<>> /\ info' = NotLoaded
      /\ dfu' = NoDfu /\ ran' = 0 /\ intent' = hist
      /\ UNCHANGED <<flash, hist, losses>>
  BY DEF Reboot, Off, Ready
<1>2. ~ Going(flash) /\ Settled(flash, hist, losses)
  BY <1>1, InvParts DEF Doing
<1>3. Doing(flash, "off", <<>>, NotLoaded, 0, None, hist, hist, losses)
  BY <1>2 DEF Doing, Resting
<1>4. DfuOK("off", NoDfu) /\ NoDfu.img = None /\ InfoOK(NotLoaded)
  BY DEF NoDfu, DfuOK, InfoOK
<1>. QED BY <1>1, <1>3, <1>4, InvParts DEF ZInv

-----------------------------------------------------------------------------
(* What an operation on the flash leaves as it was                         *)

LEMMA SettledSame ==
  ASSUME NEW f, NEW d, NEW h, NEW l \in Nat, NEW k \in Nat, l <= k,
         FlashOK(f), Settled(f, h, l),
         d.cell = f.cell, d.prm = f.prm, d.cmds[0] = f.cmds[0]
  PROVE  Settled(d, h, k)
<1>1. HasCmd(d, 0) <=> HasCmd(f, 0)
  BY DEF HasCmd, LastCmd
<1>2. LastCmd(d, 0) = LastCmd(f, 0)
  BY DEF LastCmd
<1>3. f.cmds[0].used \in 0..Room(0) /\ Room(0) \in Nat
  BY RoomFacts DEF FlashOK, Place
<1>4. f.cmds[0].used <= 1 + l => d.cmds[0].used <= 1 + k
  BY <1>3
<1>. QED BY <1>1, <1>2, <1>4 DEF Settled

LEMMA RestingSame ==
  ASSUME NEW f, NEW d, NEW h, NEW l \in Nat, NEW k \in Nat, l <= k,
         FlashOK(f), Resting(f, h, l),
         d.cell = f.cell, d.prm = f.prm, d.cmds[0] = f.cmds[0], d.cmds[1] = f.cmds[1]
  PROVE  Resting(d, h, k)
<1>1. CASE Settled(f, h, l)
  BY <1>1, SettledSame DEF Resting
<1>2. CASE Fresh0(f, h)
  <2>1. HasCmd(d, 1) /\ LastCmd(d, 1) = LastCmd(f, 1)
    BY <1>2 DEF Fresh0, HasCmd, LastCmd
  <2>2. Fresh0(d, h)
    BY <1>2, <2>1 DEF Fresh0
  <2>. QED BY <2>2 DEF Resting
<1>. QED BY <1>1, <1>2 DEF Resting

(* What the application or P4 rewrites in slot 1 is not owed to anybody.   *)
LEMMA SettledHit ==
  ASSUME NEW f, NEW d, NEW h, NEW l \in Nat, NEW k \in Nat, l <= k,
         FlashOK(f), HistOK(h), Settled(f, h, l),
         NEW i \in 0..End, NEW y, Hit(f, d, 1, i, y), i = End \/ h.back = None
  PROVE  Settled(d, h, k)
<1>1. /\ d.cell = Put(f.cell, 1, i, y) /\ d.prm = f.prm /\ d.cmds[0] = f.cmds[0]
      /\ y \in CellSet /\ CellsOK(f.cell)
  BY DEF Hit, FlashOK
<1>2. h.base \in Images \cup {None} /\ h.back \in Images \cup {None}
  BY DEF HistOK
<1>3. Kept(d.cell, 0, h.base, RunForm(h.base))
  BY <1>1, <1>2, KeptPut DEF Settled
<1>4. h.back # None => Kept(d.cell, 1, h.back, "sent")
  <2>1. Size(h.back) \in 0..End
    BY <1>2, SizeFacts
  <2>. QED BY <1>1, <1>2, <2>1, EndNat, KeptPut DEF Settled
<1>5. HasCmd(d, 0) /\ LastCmd(d, 0) = LastCmd(f, 0)
  BY <1>1 DEF HasCmd, LastCmd, Settled
<1>6. h.back # None => d.cmds[0].used <= 1 + k
  <2>1. f.cmds[0].used \in 0..Room(0) /\ Room(0) \in Nat
    BY RoomFacts DEF FlashOK, Place
  <2>. QED BY <1>1, <2>1 DEF Settled
<1>. QED BY <1>1, <1>3, <1>4, <1>5, <1>6 DEF Settled

(* The last phases do not depend on the ends of the slots.                 *)
LEMMA EndPut ==
  ASSUME NEW g, CellsOK(g), NEW c \in CmdSet, NEW h, HistOK(h), NEW inf,
         c.cmd2 \in {"P3", "P4"}, Swap(g, c, h, inf),
         NEW s \in 0..1, NEW y \in CellSet
  PROVE  Swap(Put(g, s, End, y), c, h, inf)
<1>. DEFINE p == Put(g, s, End, y)
<1>1. \A m \in Images \cup {None} : Size(m) \in 0..End
  BY SizeFacts
<1>2. \A m \in Images \cup {None} : End >= Size(m)
  BY <1>1, EndNat
<1>3. ASSUME NEW m \in Images \cup {None}, NEW t \in 0..1, NEW f, Kept(g, t, m, f)
      PROVE  Kept(p, t, m, f)
  BY <1>2, <1>3, KeptPut, EndNat
<1>4. /\ h.base \in Images \cup {None} /\ h.back \in Images \cup {None}
      /\ h.good \in Images \cup {None} /\ c.inplace \in BOOLEAN
  BY CmdFields DEF HistOK
<1>5. c.cmd2 \in Steps
  BY DEF Steps
<1>. HIDE DEF p
<1>6. CASE c.inplace
  <2>1. InPlace(p, c, h, inf)
    BY <1>3, <1>4, <1>6 DEF Swap, InPlace
  <2>. QED BY <1>5, <1>6, <2>1 DEF Swap, p
<1>7. CASE ~ c.inplace
  <2>1. Exchange(p, c, h, inf)
    BY <1>3, <1>4, <1>7 DEF Swap, Exchange
  <2>. QED BY <1>5, <1>7, <2>1 DEF Swap, p
<1>. QED BY <1>4, <1>6, <1>7

LEMMA GoingSame ==
  ASSUME NEW f, NEW d, d.cmds[2] = f.cmds[2]
  PROVE  Log(d) = Log(f) /\ (Going(d) <=> Going(f))
BY DEF Log, Going, HasCmd, LastCmd

LEMMA GoingNew ==
  ASSUME NEW d, NEW c \in CmdSet, d.cmds[2].last = c
  PROVE  Log(d) = c /\ (Going(d) <=> c.cmd2 \in Steps)
<1>1. Log(d) = c
  BY DEF Log, LastCmd
<1>2. c.cmd2 \in Steps => c # NoCmd
  BY CmdFields
<1>. QED BY <1>1, <1>2 DEF Going, HasCmd, Log

LEMMA NotGoing ==
  ASSUME NEW d, d.cmds[2].last = NoCmd
  PROVE  ~ Going(d)
BY DEF Going, HasCmd, LastCmd

LEMMA SwapSame ==
  ASSUME NEW f, NEW d, NEW h, NEW inf, NEW l \in Nat, FlashOK(f), SwapOK(f, h, inf, l),
         d.cell = f.cell, d.prm = f.prm, d.cmds[0] = f.cmds[0], d.cmds[2] = f.cmds[2]
  PROVE  SwapOK(d, h, inf, l)
<1>1. Log(d) = Log(f)
  BY GoingSame
<1>2. l <= l
  OBVIOUS
<1>. QED BY <1>1, <1>2, SettledSame DEF SwapOK

(* An operation of the application, finished or interrupted                *)
LEMMA AppEffect ==
  ASSUME NEW f, FlashOK(f), NEW h, HistOK(h), NEW r, NEW l \in Nat, NEW k \in Nat,
         l <= k, Settled(f, h, l), NEW o, AppOp(h, r, o),
         NEW d \in {Done(f, o)} \cup Interrupted(f, o),
         r = 1 => RunSlot(h.good) = 1 /\ Kept(f.cell, 1, h.good, RunForm(h.good))
  PROVE  /\ FlashOK(d) /\ Settled(d, h, k) /\ d.cmds[2] = f.cmds[2]
         /\ r = 1 => RunSlot(h.good) = 1 /\ Kept(d.cell, 1, h.good, RunForm(h.good))
<1>1. ASSUME NEW i \in 0..End, NEW y, Hit(f, d, 1, i, y),
             i = End \/ (h.back = None /\ r = 0)
      PROVE  /\ FlashOK(d) /\ Settled(d, h, k) /\ d.cmds[2] = f.cmds[2]
             /\ r = 1 => RunSlot(h.good) = 1 /\ Kept(d.cell, 1, h.good, RunForm(h.good))
  <2>1. FlashOK(d) /\ d.cmds[2] = f.cmds[2] /\ y \in CellSet
        /\ d.cell = Put(f.cell, 1, i, y)
    BY <1>1 DEF Hit
  <2>2. Settled(d, h, k)
    BY <1>1, SettledHit
  <2>3. ASSUME r = 1 PROVE Kept(d.cell, 1, h.good, RunForm(h.good))
    <3>1. i = End /\ h.good \in Images \cup {None}
      BY <1>1, <2>3 DEF HistOK
    <3>2. Size(h.good) \in 0..End
      BY <3>1, SizeFacts
    <3>3. CellsOK(f.cell) /\ i >= Size(h.good)
      BY <3>1, <3>2, EndNat DEF FlashOK
    <3>. QED BY <2>1, <2>3, <3>1, <3>3, KeptPut
  <2>. QED BY <2>1, <2>2, <2>3
<1>2. ASSUME NEW c \in CmdSet, o = WriteCmd(1, c)
      PROVE  /\ FlashOK(d) /\ Settled(d, h, k) /\ d.cmds[2] = f.cmds[2]
             /\ r = 1 => RunSlot(h.good) = 1 /\ Kept(d.cell, 1, h.good, RunForm(h.good))
  <2>1. d = f \/ \E v : Logged(f, d, 1, v)
    <3>1. CASE d = Done(f, o)
      <4>1. 1 \in 0..2
        OBVIOUS
      <4>. QED BY <1>2, <3>1, <4>1, DoneCmd
    <3>2. CASE d \in Interrupted(f, o)
      <4>1. 1 \in 0..2
        OBVIOUS
      <4>. QED BY <1>2, <3>2, <4>1, TornCmd
    <3>. QED BY <3>1, <3>2
  <2>2. FlashOK(d) /\ d.cell = f.cell /\ d.prm = f.prm /\ d.cmds[0] = f.cmds[0]
        /\ d.cmds[2] = f.cmds[2]
    BY <2>1 DEF Logged
  <2>3. Settled(d, h, k)
    BY <2>2, SettledSame
  <2>. QED BY <2>2, <2>3
<1>3. ASSUME NEW i \in 0..End, o = Erase(1, i)
      PROVE  \E y : Hit(f, d, 1, i, y)
  <2>1. 1 \in 0..1
    OBVIOUS
  <2>2. CASE d = Done(f, o)
    BY <1>3, <2>1, <2>2, DoneErase
  <2>3. CASE d \in Interrupted(f, o)
    BY <1>3, <2>1, <2>3, TornErase
  <2>. QED BY <2>2, <2>3
<1>4. ASSUME NEW i \in 0..End, NEW c \in CellSet, o = Write(1, i, c)
      PROVE  \E y : Hit(f, d, 1, i, y)
  <2>1. 1 \in 0..1
    OBVIOUS
  <2>2. CASE d = Done(f, o)
    BY <1>4, <2>1, <2>2, DoneWrite
  <2>3. CASE d \in Interrupted(f, o)
    BY <1>4, <2>1, <2>3, TornWrite
  <2>. QED BY <2>2, <2>3
<1>5. CASE o = Erase(1, End)
  <2>1. End \in 0..End
    BY EndNat
  <2>2. PICK y : Hit(f, d, 1, End, y)
    BY <1>3, <1>5, <2>1
  <2>. QED BY <1>1, <2>1, <2>2
<1>6. CASE \E c \in CmdSet : o = WriteCmd(1, c)
  BY <1>2, <1>6
<1>7. CASE h.back = None /\ r = 0
           /\ \E i \in 0..End - 1 : o = Erase(1, i) \/ \E c \in CellSet : o = Write(1, i, c)
  <2>1. PICK i \in 0..End - 1 : o = Erase(1, i) \/ \E c \in CellSet : o = Write(1, i, c)
    BY <1>7
  <2>2. i \in 0..End
    BY <2>1, EndNat
  <2>3. PICK y : Hit(f, d, 1, i, y)
    BY <1>3, <1>4, <2>1, <2>2
  <2>. QED BY <1>1, <1>7, <2>2, <2>3
<1>. QED BY <1>5, <1>6, <1>7 DEF AppOp

-----------------------------------------------------------------------------
(* The next operation takes effect                                         *)

Plain(o) == ~ Promised(o)

LEMMA OpKinds ==
  /\ \A s, i : Plain(Erase(s, i))
  /\ \A s, i, c : Plain(Write(s, i, c))
  /\ Plain(EraseStat) /\ \A p : Plain(WritePrm(p))
  /\ \A c : Plain(WriteCmd(1, c))
  /\ \A c : c.cmd2 # "START" => Plain(WriteCmd(2, c))
  /\ at # "restore" => \A c : Plain(WriteCmd(0, c))
  /\ \A c : c.cmd2 = "START" => Promised(WriteCmd(2, c))
  /\ at = "restore" => \A c : Promised(WriteCmd(0, c))
BY DEF Plain, Promised, Erase, Write, EraseStat, WritePrm, WriteCmd

(* An operation that promises nothing                                      *)
LEMMA PlainExec ==
  ASSUME ZInv, Execute, NEW o, NEW t, Head(ops) = o, Tail(ops) = t, Plain(o),
         FlashOK(Done(flash, o)),
         Doing(Done(flash, o), at, t, info, ran, dfu.img, hist, intent, losses)
  PROVE  ZInv'
<1>1. /\ flash' = Done(flash, o) /\ ops' = t /\ hist' = hist /\ losses' = losses
      /\ UNCHANGED <<at, info, ran, dfu, intent>>
  BY DEF Execute, Plain
<1>. QED BY <1>1, InvParts DEF ZInv

(* The last command of a step is logged, or has no room in the log.        *)
LEMMA LastExec ==
  ASSUME ZInv, Execute, at = "swap", Going(flash), info.loaded,
         NEW c \in CmdSet, ops = <<WriteCmd(2, c)>>, c.cmd2 # "START",
         SwapOK(flash, hist, info, losses),
         \/ c.cmd2 \in Steps /\ Swap(flash.cell, c, hist, info)
            /\ (c.cmd2 = "P4" => Settled(flash, hist, losses))
         \/ c.cmd2 \notin Steps /\ Settled(flash, hist, losses)
  PROVE  ZInv'
<1>. DEFINE o == WriteCmd(2, c)
            d == Done(flash, o)
            v == [last |-> c, used |-> flash.cmds[2].used + 1]
<1>1. Head(ops) = o /\ Tail(ops) = <<>> /\ Plain(o) /\ FlashOK(flash) /\ 2 \in 0..2
      /\ losses \in Nat
  BY SeqFacts, OpKinds, InvParts
<1>2. Full(flash, 2) => d = flash
  BY <1>1, DoneCmd
<1>3. ~ Full(flash, 2) => Logged(flash, d, 2, v)
  BY <1>1, DoneCmd
<1>4. CASE Full(flash, 2)
  <2>1. Doing(flash, at, <<>>, info, ran, dfu.img, hist, intent, losses)
    BY DEF Doing
  <2>. QED BY <1>1, <1>2, <1>4, <2>1, PlainExec
<1>5. CASE ~ Full(flash, 2)
  <2>1. FlashOK(d) /\ d.cell = flash.cell /\ d.prm = flash.prm /\ d.cmds[2] = v
        /\ d.cmds[0] = flash.cmds[0]
    BY <1>3, <1>5 DEF Logged
  <2>2. v.last = c
    OBVIOUS
  <2>. HIDE DEF d, v
  <2>3. Log(d) = c /\ (Going(d) <=> c.cmd2 \in Steps)
    BY <2>1, <2>2, GoingNew
  <2>4. Settled(flash, hist, losses) => Settled(d, hist, losses)
    <3>1. losses <= losses
      BY <1>1
    <3>. QED BY <1>1, <2>1, <3>1, SettledSame
  <2>5. Doing(d, at, <<>>, info, ran, dfu.img, hist, intent, losses)
    <3>1. CASE c.cmd2 \in Steps
      <4>1. SwapOK(d, hist, info, losses)
        BY <2>1, <2>3, <2>4, <3>1 DEF SwapOK
      <4>. QED BY <2>3, <3>1, <4>1 DEF Doing
    <3>2. CASE c.cmd2 \notin Steps
      BY <2>3, <2>4, <3>2 DEF Doing
    <3>. QED BY <3>1, <3>2
  <2>. QED BY <1>1, <2>1, <2>5, PlainExec DEF d
<1>. QED BY <1>4, <1>5

LEMMA MovingExec ==
  ASSUME ZInv, Execute, at = "swap", Going(flash), info.loaded,
         SwapOK(flash, hist, info, losses), Moving(flash, ops, hist, info)
  PROVE  ZInv'
<1>. DEFINE g == flash.cell
<1>1. /\ FlashOK(flash) /\ CellsOK(g) /\ losses \in Nat
      /\ Log(flash).cmd2 \in {"START", "MOVE_UP", "P1", "P2"}
  BY InvParts DEF Moving
<1>2. PICK c \in CmdSet :
        /\ c.cmd2 \in {"MOVE_UP", "P1", "P2", "P3"}
        /\ \/ ops = <<WriteCmd(2, c)>> /\ Swap(g, c, hist, info)
           \/ \E s \in 0..1, i \in 0..End, x \in CellSet :
                Writing(flash, ops, hist, info, s, i, x, c)
  BY DEF Moving
<1>3. c.cmd2 \in Steps /\ c.cmd2 # "START" /\ c.cmd2 # "P4"
  BY <1>2 DEF Steps
<1>4. CASE ops = <<WriteCmd(2, c)>> /\ Swap(g, c, hist, info)
  BY <1>3, <1>4, LastExec
<1>5. CASE \E s \in 0..1, i \in 0..End, x \in CellSet :
             Writing(flash, ops, hist, info, s, i, x, c)
  <2>1. PICK s \in 0..1, i \in 0..End, x \in CellSet :
          Writing(flash, ops, hist, info, s, i, x, c)
    BY <1>5
  <2>2. /\ \A y \in CellSet : Swap(Put(g, s, i, y), Log(flash), hist, info)
        /\ Swap(Put(g, s, i, x), c, hist, info)
    BY <2>1 DEF Writing
  <2>3. ASSUME NEW d, NEW y, Hit(flash, d, s, i, y)
        PROVE  /\ FlashOK(d) /\ Log(d) = Log(flash) /\ Going(d)
               /\ SwapOK(d, hist, info, losses)
               /\ d.cell = Put(g, s, i, y) /\ y \in CellSet
    <3>1. FlashOK(d) /\ d.cell = Put(g, s, i, y) /\ y \in CellSet
          /\ d.cmds[2] = flash.cmds[2]
      BY <2>3 DEF Hit
    <3>2. Log(d) = Log(flash) /\ Going(d)
      BY <3>1, GoingSame
    <3>3. SwapOK(d, hist, info, losses)
      BY <1>1, <2>2, <3>1, <3>2 DEF SwapOK
    <3>. QED BY <3>1, <3>2, <3>3
  <2>4. CASE ops = <<Erase(s, i), Write(s, i, x), WriteCmd(2, c)>>
    <3>. DEFINE o == Erase(s, i)
                d == Done(flash, o)
                t == <<Write(s, i, x), WriteCmd(2, c)>>
    <3>1. Head(ops) = o /\ Tail(ops) = t /\ Plain(o) /\ t # <<>>
      BY <2>4, SeqFacts, OpKinds
    <3>2. Hit(flash, d, s, i, Blank)
      BY <1>1, DoneErase
    <3>3. /\ FlashOK(d) /\ Log(d) = Log(flash) /\ Going(d)
          /\ SwapOK(d, hist, info, losses)
          /\ d.cell = Put(g, s, i, Blank) /\ Blank \in CellSet
      BY <2>3, <3>2
    <3>. HIDE DEF d, t
    <3>4. d.cell[s][i] = Blank
      BY <1>1, <3>3, PutFacts
    <3>5. \A y \in CellSet : Put(d.cell, s, i, y) = Put(g, s, i, y)
      BY <1>1, <3>3, PutTwice
    <3>6. Writing(d, t, hist, info, s, i, x, c)
      BY <2>2, <3>3, <3>4, <3>5 DEF Writing, t
    <3>7. Moving(d, t, hist, info)
      BY <1>1, <1>2, <3>3, <3>6 DEF Moving
    <3>8. Doing(d, at, t, info, ran, dfu.img, hist, intent, losses)
      BY <3>3, <3>7 DEF Doing
    <3>. QED BY <3>1, <3>3, <3>8, PlainExec DEF d
  <2>5. CASE ops = <<Write(s, i, x), WriteCmd(2, c)>> /\ g[s][i] = Blank
    <3>. DEFINE o == Write(s, i, x)
                d == Done(flash, o)
                t == <<WriteCmd(2, c)>>
    <3>1. Head(ops) = o /\ Tail(ops) = t /\ Plain(o) /\ t # <<>>
      BY <2>5, SeqFacts, OpKinds
    <3>2. Hit(flash, d, s, i, x)
      BY <1>1, <2>5, DoneWrite
    <3>3. /\ FlashOK(d) /\ Log(d) = Log(flash) /\ Going(d)
          /\ SwapOK(d, hist, info, losses)
          /\ d.cell = Put(g, s, i, x)
      BY <2>3, <3>2
    <3>. HIDE DEF d, t
    <3>7. Moving(d, t, hist, info)
      BY <1>1, <1>2, <2>2, <3>3 DEF Moving, t
    <3>8. Doing(d, at, t, info, ran, dfu.img, hist, intent, losses)
      BY <3>3, <3>7 DEF Doing
    <3>. QED BY <3>1, <3>3, <3>8, PlainExec DEF d
  <2>. QED BY <2>1, <2>4, <2>5 DEF Writing
<1>. QED BY <1>2, <1>4, <1>5

LEMMA ClosingExec ==
  ASSUME ZInv, Execute, at = "swap", Going(flash), info.loaded,
         SwapOK(flash, hist, info, losses), Closing(flash, ops, hist, info, losses)
  PROVE  ZInv'
<1>. DEFINE g == flash.cell
            k == Log(flash)
<1>1. /\ FlashOK(flash) /\ CellsOK(g) /\ losses \in Nat /\ HistOK(hist)
      /\ k.cmd2 = "P3" /\ k \in CmdSet
  BY InvParts, SwappingIs DEF Closing
<1>2. PICK p : \E x \in CmdSet, y \in CmdSet :
        /\ x # NoCmd /\ ("PERM" \in x.cmd1 <=> hist.back = None)
        /\ y.cmd2 = "P4" /\ Swap(g, y, hist, info)
        /\ PrmOK(p, hist) /\ Recording(flash, ops, hist, losses, p, x, y)
  BY DEF Closing
<1>3. PICK x \in CmdSet, y \in CmdSet :
        /\ x # NoCmd /\ ("PERM" \in x.cmd1 <=> hist.back = None)
        /\ y.cmd2 = "P4" /\ Swap(g, y, hist, info)
        /\ PrmOK(p, hist) /\ Recording(flash, ops, hist, losses, p, x, y)
  BY <1>2
<1>4. Swap(g, k, hist, info)
  BY DEF SwapOK
<1>5. ASSUME NEW d, NEW o, NEW t, Head(ops) = o, Tail(ops) = t, Plain(o),
             d = Done(flash, o), FlashOK(d), d.cmds[2] = flash.cmds[2],
             Swap(d.cell, k, hist, info), Swap(d.cell, y, hist, info),
             Recording(d, t, hist, losses, p, x, y)
      PROVE  ZInv'
  <2>1. Log(d) = k /\ Going(d)
    BY <1>5, GoingSame
  <2>2. SwapOK(d, hist, info, losses)
    BY <1>1, <1>5, <2>1 DEF SwapOK
  <2>3. Closing(d, t, hist, info, losses)
    BY <1>1, <1>3, <1>5, <2>1 DEF Closing
  <2>4. Doing(d, at, t, info, ran, dfu.img, hist, intent, losses)
    BY <2>1, <2>2, <2>3 DEF Doing
  <2>. QED BY <1>5, <2>4, PlainExec
<1>6. CASE ops = <<Erase(0, End), WritePrm(p), WriteCmd(0, x), WriteCmd(2, y)>>
  <2>. DEFINE o == Erase(0, End)
              d == Done(flash, o)
              t == <<WritePrm(p), WriteCmd(0, x), WriteCmd(2, y)>>
  <2>1. Head(ops) = o /\ Tail(ops) = t /\ Plain(o)
    BY <1>6, SeqFacts, OpKinds
  <2>2. Hit(flash, d, 0, End, Blank) /\ d.cmds[0] = Fresh
    <3>1. 0 \in 0..1 /\ End \in 0..End
      BY EndNat
    <3>. QED BY <1>1, <3>1, DoneErase
  <2>. HIDE DEF d
  <2>3. /\ FlashOK(d) /\ d.cmds[2] = flash.cmds[2] /\ d.cell = Put(g, 0, End, Blank)
    BY <2>2 DEF Hit
  <2>4. Swap(d.cell, k, hist, info) /\ Swap(d.cell, y, hist, info)
    BY <1>1, <1>3, <1>4, <2>3, EndPut, CellFacts
  <2>5. Recording(d, t, hist, losses, p, x, y)
    BY <2>2 DEF Recording
  <2>. HIDE DEF t
  <2>. QED BY <1>5, <2>1, <2>3, <2>4, <2>5 DEF d
<1>7. CASE ops = <<WritePrm(p), WriteCmd(0, x), WriteCmd(2, y)>> /\ flash.cmds[0] = Fresh
  <2>. DEFINE o == WritePrm(p)
              d == Done(flash, o)
              t == <<WriteCmd(0, x), WriteCmd(2, y)>>
  <2>1. Head(ops) = o /\ Tail(ops) = t /\ Plain(o)
    BY <1>7, SeqFacts, OpKinds
  <2>2. FlashOK(d) /\ d.cell = g /\ d.cmds = flash.cmds /\ d.prm = p
    BY <1>1, DonePrm
  <2>. HIDE DEF d
  <2>4. Swap(d.cell, k, hist, info) /\ Swap(d.cell, y, hist, info)
    BY <1>3, <1>4, <2>2
  <2>5. Recording(d, t, hist, losses, p, x, y)
    BY <1>7, <2>2 DEF Recording
  <2>6. d.cmds[2] = flash.cmds[2]
    BY <2>2
  <2>. HIDE DEF t
  <2>. QED BY <1>5, <2>1, <2>2, <2>4, <2>5, <2>6 DEF d
<1>8. CASE ops = <<WriteCmd(0, x), WriteCmd(2, y)>> /\ flash.cmds[0] = Fresh /\ flash.prm = p
  <2>. DEFINE o == WriteCmd(0, x)
              d == Done(flash, o)
              t == <<WriteCmd(2, y)>>
              v == [last |-> x, used |-> flash.cmds[0].used + 1]
  <2>1. Head(ops) = o /\ Tail(ops) = t /\ Plain(o)
    BY <1>8, SeqFacts, OpKinds
  <2>2. ~ Full(flash, 0) /\ flash.cmds[0].used = 0
    BY <1>8, RoomFacts, NoCmdFacts DEF Full
  <2>3. Logged(flash, d, 0, v)
    <3>1. 0 \in 0..2
      OBVIOUS
    <3>. QED BY <1>1, <2>2, <3>1, DoneCmd
  <2>4. v.last = x /\ v.used = 1
    BY <2>2
  <2>. HIDE DEF d, v
  <2>5. /\ FlashOK(d) /\ d.cell = g /\ d.prm = p /\ d.cmds[2] = flash.cmds[2]
        /\ d.cmds[0] = v
    BY <1>8, <2>3 DEF Logged
  <2>6. Swap(d.cell, k, hist, info) /\ Swap(d.cell, y, hist, info)
    BY <1>3, <1>4, <2>5
  <2>7. Settled(d, hist, losses)
    <3>1. Kept(g, 0, hist.base, RunForm(hist.base))
      BY <1>3 DEF Swap, InPlace, Exchange
    <3>2. hist.back # None => Kept(g, 1, hist.back, "sent")
      BY <1>3 DEF Swap, InPlace, Exchange
    <3>3. HasCmd(d, 0) /\ LastCmd(d, 0) = x
      BY <1>3, <2>4, <2>5 DEF HasCmd, LastCmd
    <3>4. d.cmds[0].used <= 1 + losses
      BY <1>1, <2>4, <2>5
    <3>. QED BY <1>3, <2>5, <3>1, <3>2, <3>3, <3>4 DEF Settled
  <2>8. Recording(d, t, hist, losses, p, x, y)
    BY <2>7 DEF Recording
  <2>. HIDE DEF t
  <2>. QED BY <1>5, <2>1, <2>5, <2>6, <2>8 DEF d
<1>9. CASE ops = <<WriteCmd(2, y)>> /\ Settled(flash, hist, losses)
  <2>1. y.cmd2 \in Steps /\ y.cmd2 # "START"
    BY <1>3 DEF Steps
  <2>. QED BY <1>3, <1>9, <2>1, LastExec
<1>. QED BY <1>3, <1>6, <1>7, <1>8, <1>9 DEF Recording

LEMMA EndingExec ==
  ASSUME ZInv, Execute, at = "swap", Going(flash), info.loaded,
         SwapOK(flash, hist, info, losses), Ending(flash, ops)
  PROVE  ZInv'
<1>. DEFINE g == flash.cell
            k == Log(flash)
<1>1. /\ FlashOK(flash) /\ CellsOK(g) /\ losses \in Nat /\ HistOK(hist)
      /\ k.cmd2 = "P4" /\ k \in CmdSet
  BY InvParts, SwappingIs DEF Ending
<1>2. PICK c \in CmdSet :
        /\ c.cmd2 = "END"
        /\ \/ ops = <<Erase(1, End), WriteCmd(2, c)>>
           \/ ops = <<WriteCmd(2, c)>>
  BY DEF Ending
<1>3. Swap(g, k, hist, info) /\ Settled(flash, hist, losses)
  BY <1>1 DEF SwapOK
<1>4. CASE ops = <<WriteCmd(2, c)>>
  BY <1>2, <1>3, <1>4, LastExec, StepWords
<1>5. CASE ops = <<Erase(1, End), WriteCmd(2, c)>>
  <2>. DEFINE o == Erase(1, End)
              d == Done(flash, o)
              t == <<WriteCmd(2, c)>>
  <2>1. Head(ops) = o /\ Tail(ops) = t /\ Plain(o)
    BY <1>5, SeqFacts, OpKinds
  <2>0. 1 \in 0..1 /\ End \in 0..End /\ losses <= losses
    BY <1>1, EndNat
  <2>2. Hit(flash, d, 1, End, Blank)
    BY <1>1, <2>0, DoneErase
  <2>. HIDE DEF d
  <2>3. /\ FlashOK(d) /\ d.cmds[2] = flash.cmds[2] /\ d.cell = Put(g, 1, End, Blank)
    BY <2>2 DEF Hit
  <2>4. Swap(d.cell, k, hist, info)
    BY <1>1, <1>3, <2>0, <2>3, EndPut, CellFacts
  <2>5. Settled(d, hist, losses)
    BY <1>1, <1>3, <2>0, <2>2, SettledHit
  <2>6. Log(d) = k /\ Going(d)
    BY <2>3, GoingSame
  <2>7. SwapOK(d, hist, info, losses)
    BY <2>4, <2>5, <2>6 DEF SwapOK
  <2>8. Ending(d, t)
    BY <1>1, <1>2, <2>6 DEF Ending
  <2>. HIDE DEF t
  <2>9. Doing(d, at, t, info, ran, dfu.img, hist, intent, losses)
    BY <2>6, <2>7, <2>8 DEF Doing
  <2>. QED BY <2>1, <2>3, <2>9, PlainExec DEF d
<1>. QED BY <1>2, <1>4, <1>5

LEMMA StartingExec ==
  ASSUME ZInv, Execute, at = "swap", ~ Going(flash),
         Starting(flash, ops, hist, intent, info, losses)
  PROVE  ZInv'
<1>1. /\ FlashOK(flash) /\ losses \in Nat /\ losses <= losses /\ 2 \in 0..2
      /\ info = NotLoaded /\ Resting(flash, hist, losses)
  BY InvParts DEF Starting
<1>2. PICK c \in CmdSet :
        /\ c.cmd2 = "START" /\ HistOK(intent) /\ Swap(flash.cell, c, intent, info)
        /\ \/ ops = <<EraseStat, WriteCmd(2, c)>>
           \/ ops = <<WriteCmd(2, c)>> /\ flash.cmds[2] = Fresh
  BY DEF Starting
<1>3. CASE ops = <<EraseStat, WriteCmd(2, c)>>
  <2>. DEFINE d == Done(flash, EraseStat)
              t == <<WriteCmd(2, c)>>
  <2>1. Head(ops) = EraseStat /\ Tail(ops) = t /\ Plain(EraseStat)
    BY <1>3, SeqFacts, OpKinds
  <2>2. Logged(flash, d, 2, Fresh)
    BY <1>1, DoneStat
  <2>. HIDE DEF d
  <2>3. /\ FlashOK(d) /\ d.cell = flash.cell /\ d.prm = flash.prm
        /\ d.cmds[0] = flash.cmds[0] /\ d.cmds[1] = flash.cmds[1] /\ d.cmds[2] = Fresh
    BY <2>2 DEF Logged
  <2>4. ~ Going(d)
    BY <2>3, NotGoing, NoCmdFacts
  <2>5. Resting(d, hist, losses)
    BY <1>1, <2>3, RestingSame
  <2>6. Starting(d, t, hist, intent, info, losses)
    BY <1>1, <1>2, <2>3, <2>5 DEF Starting
  <2>. HIDE DEF t
  <2>7. Doing(d, at, t, info, ran, dfu.img, hist, intent, losses)
    BY <2>4, <2>6 DEF Doing
  <2>. QED BY <2>1, <2>3, <2>7, PlainExec DEF d
<1>4. CASE ops = <<WriteCmd(2, c)>> /\ flash.cmds[2] = Fresh
  <2>. DEFINE o == WriteCmd(2, c)
              d == Done(flash, o)
              v == [last |-> c, used |-> flash.cmds[2].used + 1]
  <2>1. Head(ops) = o /\ Tail(ops) = <<>> /\ Promised(o)
    BY <1>2, <1>4, SeqFacts, OpKinds
  <2>2. ~ Full(flash, 2)
    BY <1>4, RoomFacts, NoCmdFacts DEF Full
  <2>3. Logged(flash, d, 2, v)
    BY <1>1, <2>2, DoneCmd
  <2>4. v.last = c
    OBVIOUS
  <2>5. /\ flash' = d /\ ops' = <<>> /\ hist' = intent /\ losses' = 0
        /\ UNCHANGED <<at, info, ran, dfu, intent>>
    BY <2>1 DEF Execute
  <2>. HIDE DEF d, v
  <2>6. FlashOK(d) /\ d.cell = flash.cell /\ d.cmds[2] = v
    BY <2>3 DEF Logged
  <2>7. Log(d) = c /\ Going(d)
    BY <1>2, <2>4, <2>6, GoingNew DEF Steps
  <2>8. SwapOK(d, intent, info, 0)
    BY <1>2, <2>6, <2>7 DEF SwapOK
  <2>9. Doing(d, at, <<>>, info, ran, dfu.img, intent, intent, 0)
    BY <2>7, <2>8 DEF Doing
  <2>10. 0 \in 0..MaxLosses
    BY ZepAssumption
  <2>. QED BY <1>2, <2>5, <2>6, <2>9, <2>10, InvParts DEF ZInv
<1>. QED BY <1>2, <1>3, <1>4

LEMMA KeepingExec ==
  ASSUME Proviso, ZInv, Execute, at = "restore", ~ Going(flash), info = NotLoaded,
         Settled(flash, hist, losses), Keeping(ops, hist, intent)
  PROVE  ZInv'
<1>1. FlashOK(flash) /\ losses \in 0..MaxLosses /\ 0 \in 0..2 /\ HistOK(hist)
      /\ MaxLosses \in Nat
  BY InvParts, ZepAssumption
<1>2. ops # <<>>
  BY DEF Execute
<1>3. intent = [hist EXCEPT !.back = None]
  BY <1>2 DEF Keeping
<1>4. PICK c \in CmdSet : c # NoCmd /\ "PERM" \in c.cmd1 /\ ops = <<WriteCmd(0, c)>>
  BY <1>2 DEF Keeping
<1>. DEFINE o == WriteCmd(0, c)
            d == Done(flash, o)
            h == intent
            v == [last |-> c, used |-> flash.cmds[0].used + 1]
<1>5. Head(ops) = o /\ Tail(ops) = <<>> /\ Promised(o)
  BY <1>4, SeqFacts, OpKinds
<1>6. /\ flash' = d /\ ops' = <<>> /\ hist' = h /\ losses' = 0
      /\ UNCHANGED <<at, info, ran, dfu, intent>>
  BY <1>5 DEF Execute
<1>7. h = [good |-> hist.good, base |-> hist.base, back |-> None]
  BY <1>1, <1>3 DEF HistOK
<1>8. h.good = hist.good /\ h.base = hist.base /\ h.back = None
  BY <1>7
<1>. HIDE DEF h
<1>9. HistOK(h)
  BY <1>1, <1>7, <1>8 DEF HistOK
<1>10. PrmOK(flash.prm, h) /\ Kept(flash.cell, 0, h.base, RunForm(h.base))
  BY <1>8 DEF PrmOK, Settled
<1>11. FlashOK(d) /\ ~ Going(d) /\ Settled(d, h, 0)
  <2>1. CASE Full(flash, 0)
    <3>1. d = flash
      BY <1>1, <1>4, <2>1, DoneCmd
    <3>2. hist.back = None
      <4>1. flash.cmds[0].used = EndSize
        BY <2>1, RoomFacts DEF Full
      <4>2. ~ (EndSize <= 1 + losses)
        BY <1>1, RoomFacts DEF Proviso
      <4>. QED BY <4>1, <4>2 DEF Settled
    <3>3. "PERM" \in LastCmd(flash, 0).cmd1 /\ HasCmd(flash, 0)
      BY <3>2 DEF Settled
    <3>. HIDE DEF d
    <3>4. Settled(flash, h, 0)
      BY <1>8, <1>10, <3>3 DEF Settled
    <3>. QED BY <1>1, <3>1, <3>4
  <2>2. CASE ~ Full(flash, 0)
    <3>1. Logged(flash, d, 0, v)
      BY <1>1, <1>4, <2>2, DoneCmd
    <3>2. v.last = c
      OBVIOUS
    <3>. HIDE DEF d, v
    <3>3. /\ FlashOK(d) /\ d.cell = flash.cell /\ d.prm = flash.prm
          /\ d.cmds[2] = flash.cmds[2] /\ d.cmds[0] = v
      BY <3>1 DEF Logged
    <3>4. ~ Going(d)
      BY <3>3, GoingSame
    <3>5. HasCmd(d, 0) /\ LastCmd(d, 0) = c
      BY <1>4, <3>2, <3>3 DEF HasCmd, LastCmd
    <3>6. Settled(d, h, 0)
      BY <1>4, <1>8, <1>10, <3>3, <3>5 DEF Settled
    <3>. QED BY <3>3, <3>4, <3>6
  <2>. QED BY <2>1, <2>2
<1>. HIDE DEF d
<1>12. Keeping(<<>>, h, intent)
  BY DEF Keeping
<1>13. Doing(d, "restore", <<>>, info, ran, dfu.img, h, intent, 0)
  BY <1>11, <1>12 DEF Doing
<1>14. 0 \in 0..MaxLosses
  BY <1>1
<1>. QED BY <1>6, <1>9, <1>11, <1>13, <1>14, InvParts DEF ZInv

LEMMA RunningExec ==
  ASSUME ZInv, Execute, at = "app", ~ Going(flash), info = NotLoaded,
         Settled(flash, hist, losses), Running(flash, ops, hist, ran, dfu.img)
  PROVE  ZInv'
<1>1. FlashOK(flash) /\ losses \in Nat /\ HistOK(hist) /\ losses <= losses
  BY InvParts
<1>2. ops # <<>>
  BY DEF Execute
<1>. DEFINE a == ops[1]
            b == ops[2]
            d == Done(flash, a)
<1>3. /\ AppOp(hist, ran, a)
      /\ ops = <<a>> \/ (ops = <<a, b>> /\ AppOp(hist, ran, b))
  BY <1>2 DEF Running
<1>4. Plain(a)
  BY <1>3, OpKinds DEF AppOp
<1>5. ran = 1 => RunSlot(hist.good) = 1 /\ Kept(flash.cell, 1, hist.good, RunForm(hist.good))
  BY DEF Running
<1>6. /\ FlashOK(d) /\ Settled(d, hist, losses) /\ d.cmds[2] = flash.cmds[2]
      /\ ran = 1 => RunSlot(hist.good) = 1 /\ Kept(d.cell, 1, hist.good, RunForm(hist.good))
  BY <1>1, <1>3, <1>5, AppEffect
<1>. HIDE DEF d, a, b
<1>7. ~ Going(d)
  BY <1>6, GoingSame
<1>8. dfu.img # None => ran = 0 /\ hist.back = None
  BY DEF Running
<1>9. ASSUME NEW t, Head(ops) = a, Tail(ops) = t,
             \/ t = <<>>
             \/ t = <<t[1]>> /\ AppOp(hist, ran, t[1])
      PROVE  ZInv'
  <2>1. Running(d, t, hist, ran, dfu.img)
    BY <1>6, <1>8, <1>9 DEF Running
  <2>2. Doing(d, at, t, info, ran, dfu.img, hist, intent, losses)
    BY <1>6, <1>7, <2>1 DEF Doing
  <2>. QED BY <1>4, <1>6, <1>9, <2>2, PlainExec DEF d
<1>10. CASE ops = <<a>>
  <2>1. Head(ops) = a /\ Tail(ops) = <<>>
    BY <1>10, SeqFacts
  <2>. QED BY <1>9, <2>1
<1>11. CASE ops = <<a, b>> /\ AppOp(hist, ran, b)
  <2>. DEFINE t == <<b>>
  <2>1. Head(ops) = a /\ Tail(ops) = t
    BY <1>11, SeqFacts
  <2>2. t = <<t[1]>> /\ AppOp(hist, ran, t[1])
    BY <1>11, RunningOps
  <2>. HIDE DEF t
  <2>. QED BY <1>9, <2>1, <2>2
<1>. QED BY <1>3, <1>10, <1>11

LEMMA ExecuteKeeps == ASSUME Proviso, ZInv, Execute PROVE ZInv'
<1>1. ops # <<>>
  BY DEF Execute
<1>2. Doing(flash, at, ops, info, ran, dfu.img, hist, intent, losses)
  BY InvParts
<1>3. CASE /\ at = "swap" /\ Going(flash) /\ SwapOK(flash, hist, info, losses)
           /\ info.loaded
           /\ \/ Moving(flash, ops, hist, info) \/ Closing(flash, ops, hist, info, losses)
              \/ Ending(flash, ops)
  BY <1>3, MovingExec, ClosingExec, EndingExec
<1>4. CASE at = "swap" /\ ~ Going(flash) /\ Starting(flash, ops, hist, intent, info, losses)
  BY <1>4, StartingExec
<1>5. CASE /\ at = "restore" /\ ~ Going(flash) /\ info = NotLoaded
           /\ Settled(flash, hist, losses) /\ Keeping(ops, hist, intent)
  BY <1>5, KeepingExec
<1>6. CASE /\ at = "app" /\ ~ Going(flash) /\ info = NotLoaded
           /\ Settled(flash, hist, losses) /\ Running(flash, ops, hist, ran, dfu.img)
  BY <1>6, RunningExec
<1>. QED BY <1>1, <1>2, <1>3, <1>4, <1>5, <1>6 DEF Doing

-----------------------------------------------------------------------------
(* Power fails                                                             *)

(* What RAM held is in the headers, or power does not fail.                *)
LEMMA Forget ==
  ASSUME NEW g, NEW c \in CmdSet, NEW h, NEW inf, Swap(g, c, h, inf),
         ~ (c.cmd2 \in {"P1", "P2"} /\ (c.inplace => c.cmd3 = 0))
  PROVE  Swap(g, c, h, NotLoaded)
<1>1. c.inplace \in BOOLEAN
  BY CmdFields
<1>2. CASE c.inplace
  <2>1. InPlace(g, c, h, NotLoaded)
    BY <1>2, NotLoadedIs DEF Swap, InPlace, Tells
  <2>. QED BY <1>2, <2>1 DEF Swap
<1>3. CASE ~ c.inplace
  <2>1. Exchange(g, c, h, NotLoaded)
    BY <1>3, NotLoadedIs DEF Swap, Exchange, Tells
  <2>. QED BY <1>3, <2>1 DEF Swap
<1>. QED BY <1>1, <1>2, <1>3

(* The flash after a power failure in the middle of a swap                 *)
LEMMA TornSwap ==
  ASSUME ZInv, at = "swap", Going(flash), SwapOK(flash, hist, info, losses), ops # <<>>,
         \/ Moving(flash, ops, hist, info) \/ Closing(flash, ops, hist, info, losses)
         \/ Ending(flash, ops),
         NEW d \in Interrupted(flash, Head(ops))
  PROVE  /\ FlashOK(d) /\ Log(d) = Log(flash) /\ Going(d)
         /\ Swap(d.cell, Log(d), hist, info)
         /\ Log(d).cmd2 = "P4" => Settled(d, hist, losses + 1)
<1>. DEFINE g == flash.cell
            k == Log(flash)
            Goal == /\ FlashOK(d) /\ Log(d) = Log(flash) /\ Going(d)
                    /\ Swap(d.cell, Log(d), hist, info)
                    /\ Log(d).cmd2 = "P4" => Settled(d, hist, losses + 1)
<1>. SUFFICES Goal
  OBVIOUS
<1>1. /\ FlashOK(flash) /\ CellsOK(g) /\ losses \in Nat /\ losses + 1 \in Nat
      /\ losses <= losses + 1 /\ HistOK(hist) /\ k \in CmdSet
      /\ 0 \in 0..1 /\ 1 \in 0..1 /\ End \in 0..End /\ 0 \in 0..2 /\ 2 \in 0..2
  BY InvParts, SwappingIs, EndNat
<1>2. Swap(g, k, hist, info) /\ (k.cmd2 = "P4" => Settled(flash, hist, losses))
  BY DEF SwapOK
<1>3. ASSUME FlashOK(d), d.cell = g, Log(d) = k, Going(d), d.prm = flash.prm,
             d.cmds[0] = flash.cmds[0]
      PROVE  Goal
  <2>1. k.cmd2 = "P4" => Settled(d, hist, losses + 1)
    BY <1>1, <1>2, <1>3, SettledSame
  <2>. QED BY <1>2, <1>3, <2>1
<1>4. ASSUME NEW c \in CmdSet, ops = <<WriteCmd(2, c)>> PROVE Goal
  <2>1. Head(ops) = WriteCmd(2, c)
    BY <1>4, SeqFacts
  <2>. DEFINE v == [last |-> LastCmd(flash, 2), used |-> flash.cmds[2].used + 1]
  <2>2. d = flash \/ Logged(flash, d, 2, v)
    BY <1>1, <2>1, TornCmd
  <2>3. v.last = k
    BY DEF Log
  <2>. HIDE DEF v, k, Goal
  <2>4. CASE d = flash
    BY <1>1, <1>3, <2>4 DEF k
  <2>5. CASE Logged(flash, d, 2, v)
    <3>1. /\ FlashOK(d) /\ d.cell = g /\ d.prm = flash.prm /\ d.cmds[0] = flash.cmds[0]
          /\ d.cmds[2].last = k
      BY <2>3, <2>5 DEF Logged
    <3>2. k.cmd2 \in Steps
      BY SwappingIs, <1>1 DEF k
    <3>3. Log(d) = k /\ Going(d)
      BY <1>1, <3>1, <3>2, GoingNew
    <3>. QED BY <1>3, <3>1, <3>3
  <2>. QED BY <2>2, <2>4, <2>5
<1>5. CASE Moving(flash, ops, hist, info)
  <2>1. k.cmd2 # "P4"
    BY <1>5 DEF Moving
  <2>2. PICK c \in CmdSet :
          \/ ops = <<WriteCmd(2, c)>>
          \/ \E s \in 0..1, i \in 0..End, x \in CellSet :
               Writing(flash, ops, hist, info, s, i, x, c)
    BY <1>5 DEF Moving
  <2>3. CASE \E s \in 0..1, i \in 0..End, x \in CellSet :
               Writing(flash, ops, hist, info, s, i, x, c)
    <3>1. PICK s \in 0..1, i \in 0..End, x \in CellSet :
            Writing(flash, ops, hist, info, s, i, x, c)
      BY <2>3
    <3>2. \A y \in CellSet : Swap(Put(g, s, i, y), k, hist, info)
      BY <3>1 DEF Writing
    <3>3. Head(ops) = Erase(s, i) \/ Head(ops) = Write(s, i, x)
      BY <3>1, SeqFacts DEF Writing
    <3>4. PICK y \in CellSet : Hit(flash, d, s, i, y)
      BY <1>1, <3>3, TornErase, TornWrite
    <3>5. FlashOK(d) /\ d.cell = Put(g, s, i, y) /\ d.cmds[2] = flash.cmds[2]
      BY <3>4 DEF Hit
    <3>6. Log(d) = k /\ Going(d)
      BY <3>5, GoingSame
    <3>. QED BY <2>1, <3>2, <3>5, <3>6
  <2>. QED BY <1>4, <2>2, <2>3
<1>6. CASE Closing(flash, ops, hist, info, losses)
  <2>1. k.cmd2 = "P3"
    BY <1>6 DEF Closing
  <2>2. ASSUME FlashOK(d), d.cmds[2] = flash.cmds[2], Swap(d.cell, k, hist, info)
        PROVE  Goal
    <3>1. Log(d) = k /\ Going(d)
      BY <2>2, GoingSame
    <3>. QED BY <2>1, <2>2, <3>1
  <2>3. PICK p : \E x \in CmdSet, y \in CmdSet :
                   Recording(flash, ops, hist, losses, p, x, y)
    BY <1>6 DEF Closing
  <2>4. PICK x \in CmdSet, y \in CmdSet : Recording(flash, ops, hist, losses, p, x, y)
    BY <2>3
  <2>. HIDE DEF Goal
  <2>5. CASE Head(ops) = Erase(0, End)
    <3>1. PICK y1 \in CellSet : Hit(flash, d, 0, End, y1)
      BY <1>1, <2>5, TornErase
    <3>2. FlashOK(d) /\ d.cell = Put(g, 0, End, y1) /\ d.cmds[2] = flash.cmds[2]
      BY <3>1 DEF Hit
    <3>3. Swap(d.cell, k, hist, info)
      BY <1>1, <1>2, <2>1, <3>2, EndPut
    <3>. QED BY <2>2, <3>2, <3>3
  <2>6. CASE Head(ops) = WritePrm(p)
    <3>1. FlashOK(d) /\ d.cell = g /\ d.cmds = flash.cmds
      BY <1>1, <2>6, TornPrm
    <3>2. d.cmds[2] = flash.cmds[2] /\ Swap(d.cell, k, hist, info)
      BY <1>2, <3>1
    <3>. QED BY <2>2, <3>1, <3>2
  <2>7. CASE Head(ops) = WriteCmd(0, x)
    <3>1. d = flash \/ \E v : Logged(flash, d, 0, v)
      BY <1>1, <2>7, TornCmd
    <3>2. FlashOK(d) /\ d.cell = g /\ d.cmds[2] = flash.cmds[2]
      BY <1>1, <3>1 DEF Logged
    <3>3. Swap(d.cell, k, hist, info)
      BY <1>2, <3>2
    <3>. QED BY <2>2, <3>2, <3>3
  <2>8. CASE ops = <<WriteCmd(2, y)>>
    BY <1>4, <2>8
  <2>9. \/ Head(ops) = Erase(0, End) \/ Head(ops) = WritePrm(p)
        \/ Head(ops) = WriteCmd(0, x) \/ ops = <<WriteCmd(2, y)>>
    BY <2>4, SeqFacts DEF Recording
  <2>. QED BY <2>5, <2>6, <2>7, <2>8, <2>9 DEF Goal
<1>7. CASE Ending(flash, ops)
  <2>1. k.cmd2 = "P4"
    BY <1>7 DEF Ending
  <2>2. PICK c \in CmdSet : ops = <<Erase(1, End), WriteCmd(2, c)>> \/ ops = <<WriteCmd(2, c)>>
    BY <1>7 DEF Ending
  <2>3. CASE ops = <<Erase(1, End), WriteCmd(2, c)>>
    <3>0. Head(ops) = Erase(1, End)
      BY <2>3, SeqFacts
    <3>1. PICK y1 \in CellSet : Hit(flash, d, 1, End, y1)
      BY <1>1, <3>0, TornErase
    <3>2. FlashOK(d) /\ d.cell = Put(g, 1, End, y1) /\ d.cmds[2] = flash.cmds[2]
      BY <3>1 DEF Hit
    <3>3. Swap(d.cell, k, hist, info)
      BY <1>1, <1>2, <2>1, <3>2, EndPut
    <3>4. Settled(d, hist, losses + 1)
      BY <1>1, <1>2, <2>1, <3>1, SettledHit
    <3>5. Log(d) = k /\ Going(d)
      BY <3>2, GoingSame
    <3>. QED BY <3>2, <3>3, <3>4, <3>5
  <2>. QED BY <1>4, <2>2, <2>3
<1>. QED BY <1>5, <1>6, <1>7

LEMMA PowerLossKeeps == ASSUME Proviso, ZInv, PowerLoss PROVE ZInv'
<1>1. /\ at # "off" /\ ~ ChangePlaces
      /\ losses < MaxLosses /\ losses' = losses + 1
      /\ at' = "off" /\ ops' = <<>> /\ info' = NotLoaded /\ dfu' = NoDfu
      /\ ran' = 0 /\ intent' = hist /\ hist' = hist
  BY DEF PowerLoss, Off, Proviso
<1>2. PICK d \in IF ops = <<>> THEN {flash} ELSE Interrupted(flash, Head(ops)) : flash' = d
  BY DEF PowerLoss
<1>. DEFINE k == losses + 1
<1>3. /\ FlashOK(flash) /\ HistOK(hist) /\ losses \in Nat /\ k \in Nat /\ losses <= k
      /\ losses <= losses /\ 0 \in 0..2 /\ 2 \in 0..2
      /\ Doing(flash, at, ops, info, ran, dfu.img, hist, intent, losses)
  BY InvParts
<1>4. k \in 0..MaxLosses
  BY <1>1, InvParts, ZepAssumption
<1>5. SUFFICES FlashOK(d) /\ (IF Going(d) THEN SwapOK(d, hist, NotLoaded, k)
                              ELSE Resting(d, hist, k))
  <2>1. SUFFICES ASSUME FlashOK(d), IF Going(d) THEN SwapOK(d, hist, NotLoaded, k)
                                    ELSE Resting(d, hist, k)
        PROVE ZInv'
    OBVIOUS
  <2>2. Doing(d, "off", <<>>, NotLoaded, 0, None, hist, hist, k)
    BY <2>1 DEF Doing
  <2>3. DfuOK("off", NoDfu) /\ NoDfu.img = None /\ InfoOK(NotLoaded)
    BY DEF NoDfu, DfuOK, InfoOK
  <2>4. flash' = d
    BY <1>2
  <2>. QED BY <1>1, <1>3, <1>4, <2>1, <2>2, <2>3, <2>4 DEF ZInv
<1>. HIDE DEF k
<1>6. ASSUME FlashOK(d), ~ Going(d), Settled(d, hist, k) \/ Resting(d, hist, k)
      PROVE  FlashOK(d) /\ (IF Going(d) THEN SwapOK(d, hist, NotLoaded, k)
                            ELSE Resting(d, hist, k))
  BY <1>6 DEF Resting
<1>7. ASSUME ops = <<>>, ~ Going(flash), Settled(flash, hist, losses)
      PROVE  FlashOK(d) /\ ~ Going(d) /\ Settled(d, hist, k)
  <2>1. d = flash
    BY <1>2, <1>7
  <2>. QED BY <1>3, <1>7, <2>1, SettledSame
<1>8. CASE /\ at = "swap" /\ Going(flash) /\ SwapOK(flash, hist, info, losses)
           /\ \/ ops = <<>>
              \/ Moving(flash, ops, hist, info) \/ Closing(flash, ops, hist, info, losses)
              \/ Ending(flash, ops)
  <2>1. /\ FlashOK(d) /\ Log(d) = Log(flash) /\ Going(d)
        /\ Swap(d.cell, Log(d), hist, info)
        /\ Log(d).cmd2 = "P4" => Settled(d, hist, k)
    <3>1. CASE ops = <<>>
      <4>1. d = flash
        BY <1>2, <3>1
      <4>. QED BY <1>3, <1>8, <4>1, SettledSame DEF SwapOK
    <3>2. CASE ops # <<>>
      <4>1. d \in Interrupted(flash, Head(ops))
        BY <1>2, <3>2
      <4>. QED BY <1>8, <3>2, <4>1, TornSwap DEF k
    <3>. QED BY <3>1, <3>2
  <2>2. Log(d) \in CmdSet
    BY <2>1, <1>3, SwappingIs
  <2>3. ~ (Log(d).cmd2 \in {"P1", "P2"} /\ (Log(d).inplace => Log(d).cmd3 = 0))
    BY <1>1, <1>8, <2>1, SwappingIs DEF ChangePlaces
  <2>4. Swap(d.cell, Log(d), hist, NotLoaded)
    BY <2>1, <2>2, <2>3, Forget
  <2>5. SwapOK(d, hist, NotLoaded, k)
    BY <2>1, <2>4 DEF SwapOK
  <2>. QED BY <2>1, <2>5
<1>9. CASE at = "swap" /\ ~ Going(flash) /\ Starting(flash, ops, hist, intent, info, losses)
  <2>1. Resting(flash, hist, losses)
    BY <1>9 DEF Starting
  <2>2. PICK c \in CmdSet : ops = <<EraseStat, WriteCmd(2, c)>> \/ ops = <<WriteCmd(2, c)>>
    BY <1>9 DEF Starting
  <2>3. ops # <<>> /\ (Head(ops) = EraseStat \/ Head(ops) = WriteCmd(2, c))
    BY <2>2, SeqFacts
  <2>4. d \in Interrupted(flash, Head(ops))
    BY <1>2, <2>3
  <2>5. d = flash \/ \E v : Logged(flash, d, 2, v) /\ v.last \in {flash.cmds[2].last, NoCmd}
    <3>1. CASE Head(ops) = EraseStat
      <4>1. \E v \in {flash.cmds[2], Fresh, AllTorn(2)} : Logged(flash, d, 2, v)
        BY <1>3, <2>4, <3>1, TornStat
      <4>. QED BY <4>1, NoCmdFacts
    <3>2. CASE Head(ops) = WriteCmd(2, c)
      <4>. DEFINE v == [last |-> LastCmd(flash, 2), used |-> flash.cmds[2].used + 1]
      <4>1. d = flash \/ Logged(flash, d, 2, v)
        BY <1>3, <2>4, <3>2, TornCmd
      <4>2. v.last = flash.cmds[2].last
        BY DEF LastCmd
      <4>. HIDE DEF v
      <4>. QED BY <4>1, <4>2
    <3>. QED BY <2>3, <3>1, <3>2
  <2>6. CASE d = flash
    BY <1>3, <1>6, <1>9, <2>1, <2>6, RestingSame
  <2>7. CASE \E v : Logged(flash, d, 2, v) /\ v.last \in {flash.cmds[2].last, NoCmd}
    <3>1. PICK v : Logged(flash, d, 2, v) /\ v.last \in {flash.cmds[2].last, NoCmd}
      BY <2>7
    <3>2. /\ FlashOK(d) /\ d.cell = flash.cell /\ d.prm = flash.prm
          /\ d.cmds[0] = flash.cmds[0] /\ d.cmds[1] = flash.cmds[1]
          /\ d.cmds[2].last \in {flash.cmds[2].last, NoCmd}
      BY <3>1 DEF Logged
    <3>3. ~ Going(d)
      BY <1>9, <3>2, NotGoing DEF Going, HasCmd, LastCmd, Log
    <3>4. Resting(d, hist, k)
      BY <1>3, <2>1, <3>2, RestingSame
    <3>. QED BY <1>6, <3>2, <3>3, <3>4
  <2>. QED BY <2>5, <2>6, <2>7
<1>10. CASE at = "swap" /\ ~ Going(flash) /\ ops = <<>> /\ Settled(flash, hist, losses)
  BY <1>6, <1>7, <1>10
<1>11. CASE /\ at = "restore" /\ ~ Going(flash)
            /\ Settled(flash, hist, losses) /\ Keeping(ops, hist, intent)
  <2>1. CASE ops = <<>>
    BY <1>6, <1>7, <1>11, <2>1
  <2>2. CASE ops # <<>>
    <3>1. PICK c \in CmdSet : ops = <<WriteCmd(0, c)>>
      BY <1>11, <2>2 DEF Keeping
    <3>2. d \in Interrupted(flash, WriteCmd(0, c))
      BY <1>2, <2>2, <3>1, SeqFacts
    <3>. DEFINE v == [last |-> LastCmd(flash, 0), used |-> flash.cmds[0].used + 1]
    <3>3. d = flash \/ Logged(flash, d, 0, v)
      BY <1>3, <3>2, TornCmd
    <3>4. v.last = LastCmd(flash, 0) /\ v.used = flash.cmds[0].used + 1
      OBVIOUS
    <3>. HIDE DEF v
    <3>5. CASE d = flash
      BY <1>3, <1>6, <1>11, <3>5, SettledSame
    <3>6. CASE Logged(flash, d, 0, v)
      <4>1. /\ FlashOK(d) /\ d.cell = flash.cell /\ d.prm = flash.prm
            /\ d.cmds[0] = v /\ d.cmds[2] = flash.cmds[2]
        BY <3>6 DEF Logged
      <4>2. ~ Going(d)
        BY <1>11, <4>1, GoingSame
      <4>3. LastCmd(d, 0) = LastCmd(flash, 0) /\ (HasCmd(d, 0) <=> HasCmd(flash, 0))
        BY <3>4, <4>1 DEF HasCmd, LastCmd
      <4>4. hist.back # None => d.cmds[0].used <= 1 + k
        <5>1. flash.cmds[0].used \in 0..Room(0) /\ Room(0) \in Nat
          BY <1>3, RoomFacts DEF FlashOK, Place
        <5>. QED BY <1>3, <1>11, <3>4, <4>1, <5>1 DEF Settled, k
      <4>5. Settled(d, hist, k)
        BY <1>11, <4>1, <4>3, <4>4 DEF Settled
      <4>. QED BY <1>6, <4>1, <4>2, <4>5
    <3>. QED BY <3>3, <3>5, <3>6
  <2>. QED BY <2>1, <2>2
<1>12. CASE at = "boot" /\ ~ Going(flash) /\ ops = <<>> /\ Settled(flash, hist, losses)
  BY <1>6, <1>7, <1>12
<1>13. CASE /\ at = "app" /\ ~ Going(flash) /\ Settled(flash, hist, losses)
            /\ Running(flash, ops, hist, ran, dfu.img)
  <2>1. CASE ops = <<>>
    BY <1>6, <1>7, <1>13, <2>1
  <2>2. CASE ops # <<>>
    <3>1. AppOp(hist, ran, ops[1]) /\ (ops = <<ops[1]>> \/ ops = <<ops[1], ops[2]>>)
      BY <1>13, <2>2 DEF Running
    <3>2. Head(ops) = ops[1]
      BY <2>2
    <3>3. d \in Interrupted(flash, ops[1])
      BY <1>2, <2>2, <3>2
    <3>4. ran = 1 => /\ RunSlot(hist.good) = 1
                     /\ Kept(flash.cell, 1, hist.good, RunForm(hist.good))
      BY <1>13 DEF Running
    <3>. DEFINE a == ops[1]
    <3>. HIDE DEF a
    <3>5. FlashOK(d) /\ Settled(d, hist, k) /\ d.cmds[2] = flash.cmds[2]
      BY <1>3, <1>13, <3>1, <3>3, <3>4, AppEffect DEF a
    <3>6. ~ Going(d)
      BY <1>13, <3>5, GoingSame
    <3>. QED BY <1>6, <3>5, <3>6
  <2>. QED BY <2>1, <2>2
<1>. QED BY <1>1, <1>3, <1>8, <1>9, <1>10, <1>11, <1>12, <1>13 DEF Doing

-----------------------------------------------------------------------------
(* The invariant                                                           *)

LEMMA InitInv == ASSUME Proviso, Init PROVE ZInv
<1>1. /\ flash = [cell |-> [s \in 0..1 |-> [i \in 0..End |->
                            IF s = 1 /\ i < First.size THEN Cell(First, i, "sent")
                            ELSE Blank]],
                  prm  |-> NoPrm,
                  cmds |-> [l \in 0..2 |->
                            IF l = 1 THEN [last |-> Cmd({"REQUEST", "PERM"},
                                                        "none", FALSE, 0),
                                           used |-> 1]
                            ELSE Fresh]]
      /\ at = "off" /\ ops = <<>> /\ info = NotLoaded /\ ran = 0 /\ dfu = NoDfu
      /\ hist = [good |-> First, base |-> First, back |-> None]
      /\ losses = 0
  BY DEF Init
<1>2. First \in Images /\ RunSlot(First) = 0 /\ Size(First) = First.size
      /\ First.size \in 1..End
  BY ZepAssumption, ImageFacts DEF Proviso, RunSlot
<1>. DEFINE g == [s \in 0..1 |-> [i \in 0..End |->
                   IF s = 1 /\ i < First.size THEN Cell(First, i, "sent") ELSE Blank]]
            a == [last |-> Cmd({"REQUEST", "PERM"}, "none", FALSE, 0), used |-> 1]
            q == [l \in 0..2 |-> IF l = 1 THEN a ELSE Fresh]
<1>3. flash = [cell |-> g, prm |-> NoPrm, cmds |-> q]
  BY <1>1
<1>4. CellsOK(g) /\ ~ HasHdr(g[0][0]) /\ Kept(g, 1, First, "sent")
  <2>1. \A i \in 0..End : Cell(First, i, "sent") \in CellSet
    BY <1>2, CellFacts, EndNat DEF Form
  <2>2. CellsOK(g)
    BY <2>1, CellFacts DEF CellsOK
  <2>3. g[0][0] = Blank
    BY EndNat
  <2>4. \A i \in 0..Size(First) - 1 : g[1][i] = Cell(First, i, "sent")
    BY <1>2, EndNat
  <2>. QED BY <2>2, <2>3, <2>4, CellFacts DEF Kept
<1>5. /\ q[0] = Fresh /\ q[1] = a /\ q[2] = Fresh /\ DOMAIN q = 0..2
      /\ q = [l \in 0..2 |-> q[l]]
  OBVIOUS
<1>6. a.last = Cmd({"REQUEST", "PERM"}, "none", FALSE, 0) /\ a \in Place(1)
  <2>1. Cmd({"REQUEST", "PERM"}, "none", FALSE, 0) \in CmdSet
    BY StepWords, CmdParts
  <2>2. 1 \in 0..Room(1)
    BY RoomFacts
  <2>. QED BY <2>1, <2>2 DEF Place
<1>. HIDE DEF g, q, a
<1>7. FlashOK(flash)
  <2>1. \A l \in 0..2 : q[l] \in Place(l)
    BY <1>5, <1>6, NoCmdFacts
  <2>. QED BY <1>3, <1>4, <1>5, <2>1 DEF FlashOK
<1>8. ~ Going(flash)
  BY <1>3, <1>5, NoCmdFacts DEF Going, HasCmd, LastCmd
<1>9. HasCmd(flash, 1) /\ LastCmd(flash, 1).cmd1 = {"REQUEST", "PERM"}
  <2>1. LastCmd(flash, 1) = Cmd({"REQUEST", "PERM"}, "none", FALSE, 0)
    BY <1>3, <1>5, <1>6 DEF LastCmd
  <2>. QED BY <2>1 DEF HasCmd, Cmd, NoCmd
<1>10. Fresh0(flash, hist)
  <2>1. flash.prm = NoPrm /\ flash.cell = g
    BY <1>3
  <2>. QED BY <1>1, <1>4, <1>9, <2>1 DEF Fresh0
<1>11. HistOK(hist)
  BY <1>1, <1>2 DEF HistOK
<1>12. InfoOK(info) /\ DfuOK(at, dfu) /\ ran \in 0..1 /\ losses \in 0..MaxLosses
  BY <1>1, ZepAssumption DEF InfoOK, DfuOK, NoDfu
<1>13. Doing(flash, at, ops, info, ran, dfu.img, hist, intent, losses)
  BY <1>1, <1>8, <1>10 DEF Doing, Resting
<1>. QED BY <1>7, <1>11, <1>12, <1>13 DEF ZInv

LEMMA NextInv == ASSUME Proviso, ZInv, [Next]_vars PROVE ZInv'
<1>1. CASE Bootloader
  <2>. USE <1>1
  <2>1. CASE Continue \/ Accept \/ MakePermanent \/ Nothing \/ Restore \/ NoRestore
    BY <2>1, ContinueKeeps, AcceptKeeps, MakePermanentKeeps, NothingKeeps,
       RestoreKeeps, NoRestoreKeeps
  <2>2. CASE Start \/ MoveUp \/ P1 \/ P2 \/ P3 \/ P4 \/ Finished \/ Boot
    BY <2>2, StartKeeps, MoveUpKeeps, P1Keeps, P2Keeps, P3Keeps, P4Keeps,
       FinishedKeeps, BootKeeps
  <2>. QED BY <2>1, <2>2 DEF Bootloader
<1>2. CASE Application
  <2>1. CASE \E m \in Uploads : Begin(m)
    BY <2>1, BeginKeeps
  <2>2. CASE Receive
    BY <2>2, ReceiveKeeps
  <2>3. CASE \E b \in SUBSET {"REQUEST", "PERM"} : Finish(b)
    BY <2>3, FinishKeeps
  <2>4. CASE \E s \in 0..1 : RebootTo(s)
    BY <2>4, RebootToKeeps
  <2>. QED BY <1>2, <2>1, <2>2, <2>3, <2>4 DEF Application
<1>3. CASE Execute
  BY <1>3, ExecuteKeeps
<1>4. CASE Reboot
  BY <1>4, RebootKeeps
<1>5. CASE PowerLoss
  BY <1>5, PowerLossKeeps
<1>6. CASE UNCHANGED vars
  <2>1. /\ flash' = flash /\ at' = at /\ ops' = ops /\ info' = info /\ ran' = ran
        /\ dfu' = dfu /\ hist' = hist /\ intent' = intent /\ losses' = losses
    BY <1>6 DEF vars
  <2>. QED BY <2>1, InvParts DEF ZInv
<1>. QED BY <1>1, <1>2, <1>3, <1>4, <1>5, <1>6 DEF Next

LEMMA Invariant == ASSUME Proviso PROVE Spec => []ZInv
<1>1. Init => ZInv
  BY InitInv
<1>2. ZInv /\ [Next]_vars => ZInv'
  BY NextInv
<1>. QED BY <1>1, <1>2, PTL DEF Spec

-----------------------------------------------------------------------------
(* What the invariant says of a state                                      *)

OpOK(o) == o.op \in {"erase", "write"} => o.slot \in 0..1 /\ o.sec \in 0..End

OpsOK(todo) == \A i \in DOMAIN todo : OpOK(todo[i])

LEMMA OpFacts ==
  /\ \A s \in 0..1, i \in 0..End : OpOK(Erase(s, i))
  /\ \A s \in 0..1, i \in 0..End : \A x : OpOK(Write(s, i, x))
  /\ OpOK(EraseStat) /\ \A l, c : OpOK(WriteCmd(l, c)) /\ \A p : OpOK(WritePrm(p))
BY DEF OpOK, Erase, Write, EraseStat, WriteCmd, WritePrm

LEMMA TodoFacts ==
  /\ OpsOK(<<>>)
  /\ \A a : OpOK(a) => OpsOK(<<a>>)
  /\ \A a, b : OpOK(a) /\ OpOK(b) => OpsOK(<<a, b>>)
  /\ \A a, b, c : OpOK(a) /\ OpOK(b) /\ OpOK(c) => OpsOK(<<a, b, c>>)
  /\ \A a, b, c, d : OpOK(a) /\ OpOK(b) /\ OpOK(c) /\ OpOK(d)
                       => OpsOK(<<a, b, c, d>>)
<1>1. OpsOK(<<>>)
  BY DEF OpsOK
<1>2. ASSUME NEW a, OpOK(a) PROVE OpsOK(<<a>>)
  <2>1. DOMAIN <<a>> = {1} /\ <<a>>[1] = a
    OBVIOUS
  <2>. QED BY <1>2, <2>1 DEF OpsOK
<1>3. ASSUME NEW a, NEW b, OpOK(a), OpOK(b) PROVE OpsOK(<<a, b>>)
  <2>. DEFINE t == <<a, b>>
  <2>1. DOMAIN t = {1, 2} /\ t[1] = a /\ t[2] = b
    OBVIOUS
  <2>. HIDE DEF t
  <2>2. OpsOK(t)
    BY <1>3, <2>1 DEF OpsOK
  <2>. QED BY <2>2 DEF t
<1>4. ASSUME NEW a, NEW b, NEW c, OpOK(a), OpOK(b), OpOK(c) PROVE OpsOK(<<a, b, c>>)
  <2>. DEFINE t == <<a, b, c>>
  <2>1. DOMAIN t = {1, 2, 3} /\ t[1] = a /\ t[2] = b /\ t[3] = c
    OBVIOUS
  <2>. HIDE DEF t
  <2>2. OpsOK(t)
    BY <1>4, <2>1 DEF OpsOK
  <2>. QED BY <2>2 DEF t
<1>5. ASSUME NEW a, NEW b, NEW c, NEW d, OpOK(a), OpOK(b), OpOK(c), OpOK(d)
      PROVE  OpsOK(<<a, b, c, d>>)
  <2>. DEFINE t == <<a, b, c, d>>
  <2>1. DOMAIN t = {1, 2, 3, 4} /\ t[1] = a /\ t[2] = b /\ t[3] = c /\ t[4] = d
    OBVIOUS
  <2>. HIDE DEF t
  <2>2. OpsOK(t)
    BY <1>5, <2>1 DEF OpsOK
  <2>. QED BY <2>2 DEF t
<1>. QED BY <1>1, <1>2, <1>3, <1>4, <1>5

LEMMA OpsTyped == ASSUME ZInv PROVE OpsOK(ops)
<1>1. 0 \in 0..1 /\ 1 \in 0..1 /\ End \in 0..End /\ \A i \in 0..End - 1 : i \in 0..End
  BY EndNat
<1>2. CASE Moving(flash, ops, hist, info)
  <2>1. CASE \E c \in CmdSet : ops = <<WriteCmd(2, c)>>
    BY <2>1, OpFacts, TodoFacts
  <2>2. CASE \E s \in 0..1, i \in 0..End, x \in CellSet, c \in CmdSet :
               Writing(flash, ops, hist, info, s, i, x, c)
    BY <2>2, OpFacts, TodoFacts DEF Writing
  <2>. QED BY <1>2, <2>1, <2>2 DEF Moving
<1>3. CASE Closing(flash, ops, hist, info, losses)
  <2>1. \E p : \E x \in CmdSet, y \in CmdSet : Recording(flash, ops, hist, losses, p, x, y)
    BY <1>3 DEF Closing
  <2>. QED BY <1>1, <2>1, OpFacts, TodoFacts DEF Recording
<1>4. CASE Ending(flash, ops)
  BY <1>1, <1>4, OpFacts, TodoFacts DEF Ending
<1>5. CASE Starting(flash, ops, hist, intent, info, losses)
  BY <1>5, OpFacts, TodoFacts DEF Starting
<1>6. CASE Keeping(ops, hist, intent)
  BY <1>6, OpFacts, TodoFacts DEF Keeping
<1>7. CASE Running(flash, ops, hist, ran, dfu.img)
  <2>1. ASSUME NEW o, AppOp(hist, ran, o) PROVE OpOK(o)
    BY <1>1, <2>1, OpFacts DEF AppOp
  <2>2. \/ ops = <<>>
        \/ ops = <<ops[1]>> /\ AppOp(hist, ran, ops[1])
        \/ ops = <<ops[1], ops[2]>> /\ AppOp(hist, ran, ops[1]) /\ AppOp(hist, ran, ops[2])
    BY <1>7 DEF Running
  <2>. DEFINE a == ops[1]
              b == ops[2]
  <2>3. \/ ops = <<>>
        \/ ops = <<a>> /\ AppOp(hist, ran, a)
        \/ ops = <<a, b>> /\ AppOp(hist, ran, a) /\ AppOp(hist, ran, b)
    BY <2>2
  <2>. HIDE DEF a, b
  <2>. QED BY <2>1, <2>3, TodoFacts
<1>8. CASE ops = <<>>
  BY <1>8, TodoFacts
<1>. QED BY <1>2, <1>3, <1>4, <1>5, <1>6, <1>7, <1>8, InvParts DEF Doing

LEMMA Typed == ASSUME ZInv PROVE TypeOK
<1>1. /\ at \in {"off", "swap", "restore", "boot", "app", "dead"}
      /\ ran \in 0..1 /\ losses \in 0..MaxLosses
  BY InvParts DEF Doing
<1>2. /\ \A s \in 0..1 : DOMAIN flash.cell[s] = 0..End
      /\ \A l \in 0..2 : flash.cmds[l].used \in 0..Room(l)
  BY InvParts DEF FlashOK, CellsOK, Place
<1>3. \A i \in DOMAIN ops : ops[i].op \in {"erase", "write"} =>
                              ops[i].slot \in 0..1 /\ ops[i].sec \in 0..End
  BY OpsTyped DEF OpsOK, OpOK
<1>4. /\ hist.good \in Images /\ hist.back \in Images \cup {None}
      /\ dfu.img \in Images \cup {None}
  BY InvParts DEF DfuOK
<1>5. info.loaded \in BOOLEAN
  <2>1. InfoOK(info)
    BY InvParts
  <2>2. CASE info = NotLoaded
    BY <2>2 DEF NotLoaded
  <2>3. CASE info = [loaded |-> TRUE, to |-> info.to, fr |-> info.fr]
    <3>. DEFINE a == info.to
                b == info.fr
    <3>1. info = [loaded |-> TRUE, to |-> a, fr |-> b]
      BY <2>3
    <3>. HIDE DEF a, b
    <3>. QED BY <3>1
  <2>. QED BY <2>1, <2>2, <2>3 DEF InfoOK
<1>. QED BY <1>1, <1>2, <1>3, <1>4, <1>5 DEF TypeOK

LEMMA KeptHolds ==
  ASSUME NEW s, NEW m \in Images, NEW f, Kept(flash.cell, s, m, f)
  PROVE  Holds(s, m, f)
BY ImageFacts DEF Kept, Holds

LEMMA Whole == ASSUME ZInv PROVE RunsWhole
<1>1. at # "dead"
  BY InvParts DEF Doing
<1>2. ASSUME at = "app"
      PROVE  \E m \in Images : /\ Holds(ran, m, RunForm(m)) /\ RunSlot(m) = ran
                               /\ m \in {hist.good, hist.base}
  <2>1. Settled(flash, hist, losses) /\ Running(flash, ops, hist, ran, dfu.img)
    BY <1>2, InvParts DEF Doing
  <2>2. CASE ran = 0
    <3>1. Holds(0, hist.base, RunForm(hist.base))
      BY <2>1, InvParts, KeptHolds DEF Settled
    <3>. QED BY <2>2, <3>1, InvParts
  <2>3. CASE ran = 1
    <3>1. RunSlot(hist.good) = 1 /\ Holds(1, hist.good, RunForm(hist.good))
      BY <2>1, <2>3, InvParts, KeptHolds DEF Running
    <3>. QED BY <2>3, <3>1, InvParts
  <2>. QED BY <2>2, <2>3, InvParts
<1>. QED BY <1>1, <1>2 DEF RunsWhole

LEMMA Back == ASSUME ZInv PROVE OldKept
<1>1. SUFFICES ASSUME Ended, hist.back # None PROVE Holds(1, hist.back, "sent")
  BY DEF OldKept
<1>2. ~ Going(flash) /\ at # "swap"
  BY <1>1, InvParts DEF Ended
<1>3. Resting(flash, hist, losses)
  BY <1>2, InvParts DEF Doing, Resting
<1>4. Kept(flash.cell, 1, hist.back, "sent")
  BY <1>1, <1>3 DEF Resting, Fresh0, Settled
<1>. QED BY <1>1, <1>4, InvParts, KeptHolds

LEMMA OnTrial ==
  ASSUME ZInv, at = "boot", hist.back # None
  PROVE  info.loaded
BY InvParts DEF Doing

-----------------------------------------------------------------------------
(* Theorems                                                                *)

(* No step of the bootloader or the application erases or writes outside   *)
(* the slots, and no place for commands takes more of them than it has     *)
(* room for (zb_flash.c).                                                  *)
THEOREM TypeCorrect == ASSUME Proviso PROVE Spec => []TypeOK
<1>1. ZInv => TypeOK
  BY Typed
<1>. QED BY <1>1, Invariant, PTL

(* What main starts is always a whole image in the form it runs in, the    *)
(* one accepted last or the one in slot 0 it was installed over, and there *)
(* always is one to start: whatever sequence of steps, power failures that *)
(* Proviso allows, and requests of the application went before.            *)
THEOREM RunsWholeImage == ASSUME Proviso PROVE Spec => []RunsWhole
<1>1. ZInv => RunsWhole
  BY Whole
<1>. QED BY <1>1, Invariant, PTL

(* While an image is on trial the one before it lies whole in slot 1, in   *)
(* the form in which it was sent: zb_img_swap can bring it back.           *)
THEOREM KeepsOld == ASSUME Proviso PROVE Spec => []OldKept
<1>1. ZInv => OldKept
  BY Back
<1>. QED BY <1>1, Invariant, PTL

(* main starts an image on trial only in the boot that swapped it in: at   *)
(* any later boot zb_img_swap has brought back the one before it, or the   *)
(* application has asked to keep it.                                       *)
THEOREM TriesOnce == ASSUME Proviso PROVE Spec => TrialOnce
<1>1. ZInv /\ [Next]_vars =>
        [at = "boot" /\ at' = "app" /\ hist.back # None => info.loaded]_vars
  BY OnTrial
<1>. QED BY <1>1, Invariant, PTL DEF Spec, TrialOnce
=============================================================================
