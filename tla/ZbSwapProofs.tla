----------------------------- MODULE ZbSwapProofs ----------------------------
(***************************************************************************)
(* Proofs about ZbSwap and its refinement of ImageSwap, for every length   *)
(* of the run slot, every set of images, every factory state and every     *)
(* number and order of power failures.                                     *)
(*                                                                         *)
(* HYPOTHESES.  Assumed: the dependencies of the images on other slots are *)
(* met, the erase of the log is not torn, and the log is long enough for   *)
(* the commands of a swap with its restarts, for the code ignores the      *)
(* -ENOSPC of a full one and cmd3 is one byte.  Careful, where it is       *)
(* named: power does not fail between the move of the first sector of the  *)
(* image that comes and the move of its last one, where a restarted swap   *)
(* copies without the key (run zbswap_restart shows what happens then).    *)
(* PlainImages, for swaps that are dropped back, instead of both: no image *)
(* is encrypted, for those would be decrypted twice.                       *)
(*                                                                         *)
(* ARGUMENT.  IInv names one image, the one that comes, for the whole of a *)
(* swap: its first sector is where the last command of the log says, its   *)
(* other sectors are in the upgrade slot, and the command under way can    *)
(* only write to sectors that hold none of it.  WInv adds where the rest   *)
(* of that image has arrived, and GInv does the same for the image that    *)
(* goes: together they say which two images the flash holds at any moment, *)
(* which is what the refinement of ImageSwap needs.  DropInv is about      *)
(* swaps that turn back: the only commands left are those that move the    *)
(* old image from the move slot to the run slot, and its header is read    *)
(* from the run slot once it is there.                                     *)
(***************************************************************************)
EXTENDS ZbSwapRefinement, TLAPS, WellFoundedInduction

(* What the log has to hold, and cmd3 to count.                            *)
Ample == /\ N + 2 + 2 * MaxLosses <= 255
         /\ LogSize >= 3 * N + 8 + 5 * MaxLosses

Assumed == OtherDeps = {TRUE} /\ TornLogErase = FALSE /\ Ample

(* zb_img_swap is executing.                                               *)
AtWork == \/ at \in {"wipe", "cmd", "copy", "log"}
          \/ at \in {"unsign", "sign"} /\ cmd.c2 = "SWP_END"

(* How far a command of the log is in the order the swapper writes them.   *)
Pos(c) == CASE c.c2 = "EMPTY"    -> 0
            [] c.c2 = "RUN2MOV"  -> N - c.c3
            [] c.c2 = "UPG2RUN"  -> N + 1 + 2 * c.c3
            [] c.c2 = "MOV2UPG"  -> N + 2 + 2 * c.c3
            [] c.c2 = "FINALISE" -> N + 3 + 2 * c.c3
            [] c.c2 = "SWP_END"  -> N + 4 + 2 * c.c3

(* The passes over the two slots that have not seen their end yet.         *)
Undone == (IF upg2run_done THEN 0 ELSE 1) + (IF mov2upg_done THEN 0 ELSE 1)

(* The greatest cmd3 the swapper can reach: every restart may add two.     *)
Limit == N + 2 + 2 * losses

(* The log: how long it can be, and where a restarted swap can be in it.   *)
LogInv ==
  /\ log \in Seq({Torn} \cup [c2: C2, c3: 0..255])
  /\ InPlace => log = <<>>
  /\ LastCmd.c2 = "RUN2MOV" => LastCmd.c3 < N
  /\ Continue =>
       /\ Len(log) <= Pos(LastCmd) + losses
       /\ LastCmd.c3 <= Limit
       /\ at \in {"off", "swap"} /\ Swapping => LastCmd.c3 + 2 <= Limit

(* The copies zb_img_move can be at.                                       *)
Jobs == [from: DOMAIN flash, to: DOMAIN flash, key: {NoCrypt, None} \cup Images]

(* The session of zb_img_swap: how the command under way, its flags, the   *)
(* last command of the log and the program counter go together.            *)
CmdInv ==
  /\ in_place = InPlace /\ upgr_slt = Upgrade
  /\ ~ AtWork => /\ cmd = NoCmd /\ upgr_ok = FALSE /\ upgr_key = None
                 /\ upg2run_done = FALSE /\ mov2upg_done = InPlace
  /\ at = "copy" => job \in Jobs
  /\ at = "wipe" => /\ ~ InPlace /\ ~ Continue /\ cmd = NoCmd
                    /\ upg2run_done = FALSE /\ mov2upg_done = FALSE
  /\ at = "cmd" => /\ cmd.c2 # "SWP_END"
                   /\ ~ InPlace => cmd = LastCmd
                   /\ cmd.c2 = "EMPTY" => cmd = NoCmd /\ log = <<>>
  /\ cmd.c2 = "RUN2MOV" => cmd.c3 < N /\ upg2run_done = FALSE
  /\ cmd.c2 = "EMPTY" => upg2run_done = FALSE
  /\ AtWork /\ at \notin {"wipe", "cmd"} =>
       /\ cmd.c2 # "EMPTY"
       /\ at = "copy" => cmd.c2 \in {"RUN2MOV", "UPG2RUN", "MOV2UPG"}
       /\ ~ InPlace => /\ Pos(LastCmd) < Pos(cmd)
                       /\ Continue \/ log = <<>>
                       /\ cmd.c2 = "SWP_END" <=> LastCmd.c2 = "FINALISE"
  /\ InPlace /\ AtWork =>
       /\ cmd.c2 \in {"EMPTY", "UPG2RUN", "FINALISE", "SWP_END"}
       /\ upgr_ok /\ mov2upg_done
  /\ ~ InPlace /\ AtWork =>
       /\ cmd.c3 <= Limit
       /\ cmd.c2 \in {"UPG2RUN", "MOV2UPG"} => cmd.c3 + Undone <= Limit
  /\ at \in {"unsign", "upload"} \/ dfu = None
  /\ at = "upload" => dfu \in [of: Images, n: 0..N]
  /\ at = "unsign" /\ dfu # None => ~ InPlace /\ cmd = NoCmd
  /\ at \in {"app", "loader", "dead", "upload", "unsign", "sign"} => ~ Swapping
  /\ at \in {"app", "unsign", "sign"} => HasHdr(Run)
  /\ at = "upload" /\ ~ InPlace => HasHdr(Run)

(* The verify sector is clear while a swap goes on, and a crc in it is the *)
(* one of the image in the run slot.                                       *)
VerifyInv ==
  ~ InPlace =>
    /\ flash[Verify].kind = "crc" => Validated
    /\ Swapping \/ (AtWork /\ ~ Continue) => flash[Verify].kind # "crc"

(* The sector of the run, move or upgrade slot that a command fills.       *)
Target(c) == c.c3 + (IF c.c2 = "RUN2MOV" THEN Move
                     ELSE IF c.c2 = "UPG2RUN" THEN Run ELSE N + 1)

(* A copy fills the sector its command names.                              *)
JobInv ==
  at = "copy" => /\ flash[job.from] \in {Blank, Torn} \cup ImageSec
                 /\ ~ InPlace => /\ Swapping /\ job.to = Target(LastCmd)
                                /\ LastCmd.c3 < N

(* Where a command finds the sectors of the image that comes.              *)
InRunBy(c, i) == \/ c.c2 = "UPG2RUN" /\ i < c.c3
                 \/ c.c2 = "MOV2UPG" /\ i <= c.c3
                 \/ c.c2 \in {"FINALISE", "SWP_END"}

(* m is the image that comes: of its sectors a command c needs only the    *)
(* first one in the run slot, and the ones that are still to be moved.     *)
Comes(f, u, m, c) ==
  /\ m \in Images
  /\ InRunBy(c, 0) => f[Run] = Sec(m, 0, RunForm(m))
  /\ \A i \in 0..m.size - 1 : ~ InRunBy(c, i) => f[u + i] = Sec(m, i, "sent")

CopyOf(f, j) == [f EXCEPT ![j.to] = Crypted(f[j.from], j.key)]

(* The flash when the sector under way is copied.                          *)
Copied == IF at = "copy" THEN CopyOf(flash, job) ELSE flash

(* The image that comes is there for the last command of the log, and for  *)
(* the command under way once its copy is done; its length and its key are *)
(* the ones in use.                                                        *)
ComeInv(m) ==
  /\ Continue => Comes(flash, N + 1, m, LastCmd)
  /\ AtWork =>
       /\ Comes(Copied, Upgrade, m, cmd)
       /\ upgr_key \in {None, m}
       /\ upgr_ok /\ m.enc => upgr_key = m
       /\ upg2run_done => cmd.c3 >= m.size
       /\ cmd.c2 = "MOV2UPG" /\ mov2upg_done /\ cmd.c3 >= m.size => upg2run_done
       /\ InPlace /\ cmd.c2 = "UPG2RUN" /\ ~ upg2run_done => cmd.c3 <= m.size
       /\ InPlace => cmd.c3 <= m.size + 1

Base(m) == TypeOK /\ LogInv /\ CmdInv /\ VerifyInv /\ JobInv /\ ComeInv(m)

(* The inductive invariant.                                                *)
IInv == \E m \in Images \cup {None} : Base(m)

-----------------------------------------------------------------------------
(* The points of a swap of m at which no sector of m is left to be         *)
(* decrypted, or the key is computed again: a session that starts there    *)
(* copies m rightly.                                                       *)
Easy(m, c) == \/ c.c2 \in {"EMPTY", "RUN2MOV", "FINALISE", "SWP_END"}
              \/ c.c2 = "UPG2RUN" /\ (c.c3 = 0 \/ c.c3 >= m.size)
              \/ c.c2 = "MOV2UPG" /\ c.c3 + 1 >= m.size

(* The sectors of m a command c counts as moved are in the run slot.       *)
Arrived(f, m, c) ==
  \A i \in 0..m.size - 1 : InRunBy(c, i) => f[Run + i] = Sec(m, i, RunForm(m))

(* Power can fail here without harm: the swap under way, if any, has moved *)
(* no sector of the image that comes, or all of them.                      *)
Restartable ==
  Swapping => \/ LastCmd.c2 = "RUN2MOV"
              \/ LastCmd.c2 = "UPG2RUN" /\ LastCmd.c3 = 0
              \/ LastCmd.c2 = "UPG2RUN" /\ LastCmd.c3 >= Hdr(Run).size
              \/ LastCmd.c2 = "MOV2UPG" /\ LastCmd.c3 + 1 >= Hdr(Run).size

(* The run slot holds the whole of the image whose header it has.          *)
RunWhole == Holds(Run, Hdr(Run), RunForm(Hdr(Run)))

(* The crc of a whole image as it runs.                                    *)
Full(w) == Crc([i \in 0..w.size - 1 |-> Sec(w, i, RunForm(w))])

(* Where a command finds the sectors of the image that goes.               *)
UpBy(c, i) == \/ c.c2 \in {"UPG2RUN", "MOV2UPG"} /\ i < c.c3
              \/ c.c2 \in {"FINALISE", "SWP_END"}
MovBy(c, i) == \/ c.c2 = "RUN2MOV" /\ i > c.c3
               \/ c.c2 \in {"UPG2RUN", "MOV2UPG"} /\ i >= c.c3

Header(f, s) == f[s].kind = "image" /\ f[s].n = 0

-----------------------------------------------------------------------------
(* Sectors.                                                                *)

Plain == {Blank, Torn} \cup ImageSec

Size == IF InPlace THEN N ELSE 2 * N

(* What the assumptions on the constants give, in the form the provers     *)
(* use.                                                                    *)
LEMMA Constants ==
  /\ N \in Int /\ N \in Nat /\ 1 <= N /\ N <= 255 /\ LogSize \in Nat /\ MaxLosses \in Nat
  /\ \A m \in Images : /\ m.size \in Int /\ 1 <= m.size /\ m.size <= N
                       /\ m.enc \in BOOLEAN /\ m # None /\ m # NoCrypt
  /\ None # NoCrypt
  BY SlotAssumption, ImagesAssumption

LEMMA SecIs ==
  ASSUME NEW m \in Images, NEW i \in 0..N - 1, NEW fm \in {"sent", "plain", "broken"}
  PROVE  /\ Sec(m, i, fm).kind = "image" /\ Sec(m, i, fm).of = m
         /\ Sec(m, i, fm).n = i /\ Sec(m, i, fm).form = fm
         /\ Sec(m, i, fm) \in ImageSec
  BY DEF Sec, ImageSec

LEMMA FormIs ==
  ASSUME NEW m
  PROVE  RunForm(m) \in {"sent", "plain"} /\ (m.enc => RunForm(m) = "plain")
         /\ (~ m.enc => RunForm(m) = "sent")
  BY DEF RunForm

LEMMA ImageSecIs ==
  ASSUME NEW x \in ImageSec
  PROVE  /\ x.kind = "image" /\ x.of \in Images /\ x.n \in 0..N - 1
         /\ x.form \in {"sent", "plain", "broken"}
         /\ x = Sec(x.of, x.n, x.form)
  BY DEF ImageSec, Sec

LEMMA PlainIs ==
  ASSUME NEW x \in Plain
  PROVE  /\ x.kind # "crc"
         /\ x.kind = "image" => x \in ImageSec
         /\ Blank \in Plain /\ Torn \in Plain
<1>1. Blank.kind = "blank" /\ Torn.kind = "torn"
  BY DEF Blank, Torn
<1>2. x \in ImageSec => x.kind = "image"
  BY ImageSecIs
<1> QED BY <1>1, <1>2 DEF Plain

(* What zb_img_move writes.                                                *)
LEMMA CryptedPlain ==
  ASSUME NEW x \in Plain, NEW key
  PROVE  Crypted(x, key) \in Plain
<1>1. CASE key = NoCrypt \/ x.kind # "image"
  BY <1>1 DEF Crypted, Plain
<1>2. CASE key # NoCrypt /\ x.kind = "image"
  <2>1. x \in ImageSec
    BY <1>2, PlainIs
  <2>2. 0 \in 0..N - 1
    BY Constants
  <2>3. \A fm \in {"sent", "plain", "broken"} : Sec(x.of, 0, fm) \in ImageSec
    BY <2>1, <2>2, ImageSecIs, SecIs
  <2>4. [x EXCEPT !.form = IF @ = "sent" THEN "plain" ELSE "sent"] \in ImageSec
    BY <2>1 DEF ImageSec
  <2> QED BY <1>2, <2>3, <2>4 DEF Crypted, Plain
<1> QED BY <1>1, <1>2

(* Copying a sector with the key of its image turns the form it is sent in *)
(* into the form it runs in, and back; without a key it stays as it is.    *)
LEMMA CryptedSec ==
  ASSUME NEW m \in Images, NEW i \in 0..N - 1
  PROVE  /\ Crypted(Sec(m, i, RunForm(m)), IF m.enc THEN m ELSE NoCrypt)
              = Sec(m, i, "sent")
         /\ Crypted(Sec(m, i, "sent"), IF m.enc THEN m ELSE NoCrypt)
              = Sec(m, i, RunForm(m))
         /\ \A fm : Crypted(Sec(m, i, fm), NoCrypt) = Sec(m, i, fm)
<1>1. m # NoCrypt
  BY Constants
<1>2. CASE m.enc
  <2>1. RunForm(m) = "plain"
    BY <1>2, FormIs
  <2>2. /\ Sec(m, i, "plain").kind = "image" /\ Sec(m, i, "sent").kind = "image"
        /\ Sec(m, i, "plain").of = m /\ Sec(m, i, "sent").of = m
        /\ Sec(m, i, "plain").form = "plain" /\ Sec(m, i, "sent").form = "sent"
        /\ [Sec(m, i, "plain") EXCEPT !.form = "sent"] = Sec(m, i, "sent")
        /\ [Sec(m, i, "sent") EXCEPT !.form = "plain"] = Sec(m, i, "plain")
    BY DEF Sec
  <2> QED BY <1>1, <1>2, <2>1, <2>2 DEF Crypted
<1>3. CASE ~ m.enc
  BY <1>3, FormIs DEF Crypted
<1>4. \A fm : Crypted(Sec(m, i, fm), NoCrypt) = Sec(m, i, fm)
  BY DEF Crypted
<1> QED BY <1>2, <1>3, <1>4

(* A torn write or erase leaves no crc behind.                             *)
LEMMA DamagedPlain ==
  ASSUME NEW x, x \in Plain \/ x.kind = "crc", NEW y, y \in Plain \/ y.kind = "crc",
         NEW z \in Damaged(x, y)
  PROVE  z \in Plain
<1>1. \A w \in {x, y} : w.kind = "image" => w \in ImageSec
  BY PlainIs
<1>2. \A w \in {x, y} : w.kind = "image" => Sec(w.of, 0, "broken") \in ImageSec
  <2>1. 0 \in 0..N - 1
    BY Constants
  <2> QED BY <1>1, <2>1, ImageSecIs, SecIs
<1> QED BY <1>2 DEF Damaged, Plain

-----------------------------------------------------------------------------
(* The flash.                                                              *)

FlashOK(f) ==
  /\ DOMAIN f \in {Address(in_pl) : in_pl \in BOOLEAN}
  /\ \A s \in DOMAIN f : f[s] \in Plain \/ (s = Verify /\ f[s].kind = "crc")

Updated(f, g, s, x) ==
  /\ DOMAIN g = DOMAIN f
  /\ g[s] = x
  /\ \A t \in DOMAIN f : t # s => g[t] = f[t]

LEMMA UpdatedBy ==
  ASSUME NEW f, NEW s \in DOMAIN f, NEW x
  PROVE  Updated(f, [f EXCEPT ![s] = x], s, x)
  BY DEF Updated

LEMMA UpdatedOK ==
  ASSUME NEW f, FlashOK(f), NEW g, NEW s \in DOMAIN f, NEW x, Updated(f, g, s, x),
         x \in Plain \/ (s = Verify /\ x.kind = "crc")
  PROVE  FlashOK(g)
  BY DEF FlashOK, Updated

(* The sectors the two layouts have.                                       *)
LEMMA TypeFlash ==
  ASSUME TypeOK
  PROVE  /\ FlashOK(flash)
         /\ DOMAIN flash = 0..Size
         /\ Upgrade = (IF InPlace THEN 1 ELSE N + 1)
         /\ Verify = N /\ Run = 0 /\ Move = 1
         /\ Run \in DOMAIN flash /\ Move \in DOMAIN flash /\ Verify \in DOMAIN flash
         /\ \A i \in 0..N - 1 : /\ Run + i \in DOMAIN flash
                                /\ Move + i \in DOMAIN flash
                                /\ Upgrade + i \in DOMAIN flash
<1>1. FlashOK(flash)
  BY SlotAssumption DEF TypeOK, FlashOK, Plain
<1>2. DOMAIN flash = 0..N \/ DOMAIN flash = 0..2 * N
  BY <1>1 DEF FlashOK, Address
<1>3. InPlace <=> DOMAIN flash = 0..N
  BY <1>2, Constants DEF InPlace
<1>4. DOMAIN flash = 0..Size
  BY <1>2, <1>3 DEF Size
<1> QED BY <1>1, <1>4, Constants DEF Size, Upgrade, Verify, Run, Move

(* A sector that zb_img_hdr accepts is the first one of an image.          *)
LEMMA HeaderIs ==
  ASSUME TypeOK, NEW s \in DOMAIN flash, HasHdr(s)
  PROVE  /\ Hdr(s) \in Images /\ flash[s] \in ImageSec
         /\ Hdr(s).size \in Int /\ 1 <= Hdr(s).size /\ Hdr(s).size <= N
<1>1. flash[s] \in ImageSec
  BY TypeFlash, PlainIs DEF FlashOK, HasHdr
<1>2. Hdr(s) \in Images
  BY <1>1, ImageSecIs DEF Hdr
<1> QED BY <1>1, <1>2, Constants

(* A header that was copied in whole.                                      *)
LEMMA HeaderAt ==
  ASSUME NEW m \in Images, NEW s, NEW fm, flash[s] = Sec(m, 0, fm)
  PROVE  HasHdr(s) /\ Hdr(s) = m
  BY DEF HasHdr, Hdr, Sec

-----------------------------------------------------------------------------
(* The log.                                                                *)

Command == [c2: C2, c3: 0..255]

LastIn(lg) ==
  LET good == {k \in 1..Len(lg) : lg[k] # Torn}
  IN  IF good = {} THEN NoCmd
      ELSE lg[CHOOSE k \in good : \A l \in good : l <= k]

LEMMA LastIs == LastCmd = LastIn(log) /\ LastCmd' = LastIn(log')
  BY DEF LastCmd, LastIn

(* The commands of the log, their fields and the constructor.              *)
LEMMA CommandIs ==
  /\ NoCmd \in Command /\ NoCmd.c2 = "EMPTY" /\ NoCmd.c3 = 0
  /\ Torn \notin Command
  /\ \A c \in Command : /\ c.c2 \in C2 /\ c.c3 \in 0..255
                        /\ c = Cmd(c.c2, c.c3)
  /\ \A c2 \in C2, c3 \in 0..255 :
       /\ Cmd(c2, c3) \in Command /\ Cmd(c2, c3).c2 = c2 /\ Cmd(c2, c3).c3 = c3
<1>1. /\ NoCmd \in Command /\ NoCmd.c2 = "EMPTY" /\ NoCmd.c3 = 0
  BY DEF NoCmd, Cmd, Command, C2
<1>2. Torn \notin Command
  <2>1. DOMAIN Torn = {"kind"}
    BY DEF Torn
  <2>2. \A c \in Command : DOMAIN c = {"c2", "c3"}
    BY DEF Command
  <2> QED BY <2>1, <2>2
<1>3. \A c \in Command : c.c2 \in C2 /\ c.c3 \in 0..255 /\ c = Cmd(c.c2, c.c3)
  BY DEF Command, Cmd
<1>4. \A c2 \in C2, c3 \in 0..255 :
       /\ Cmd(c2, c3) \in Command /\ Cmd(c2, c3).c2 = c2 /\ Cmd(c2, c3).c3 = c3
  BY DEF Command, Cmd
<1> QED BY <1>1, <1>2, <1>3, <1>4

(* A bounded set of positions that is not empty has a greatest one: its    *)
(* least upper bound, by well-founded induction.                           *)
LEMMA Greatest ==
  ASSUME NEW n \in Nat, NEW T, T \subseteq 1..n, T # {}
  PROVE  \E k \in T : \A l \in T : l <= k
<1> DEFINE R == {n - k : k \in T}
<1>1. IsWellFoundedOn(OpToRel(<, Nat), Nat)
  BY NatLessThanWellFounded
<1>2. R \subseteq Nat /\ R # {}
  OBVIOUS
<1> HIDE DEF R
<1>3. \E x \in R : \A y \in R : ~ (<<y, x>> \in OpToRel(<, Nat))
  BY <1>1, <1>2, WFMin
<1>4. PICK x \in R : \A y \in R : ~ (<<y, x>> \in OpToRel(<, Nat))
  BY <1>3
<1>5. \A y \in R : ~ (y < x)
  BY <1>2, <1>4 DEF OpToRel
<1>6. PICK k \in T : x = n - k
  BY DEF R
<1>7. \A l \in T : n - l \in R
  BY DEF R
<1>8. \A l \in T : l <= k
  BY <1>5, <1>6, <1>7
<1> QED BY <1>8

(* A command whose write was cut off is passed over.                       *)
LEMMA LastAppend ==
  ASSUME NEW S, NEW lg \in Seq(S), NEW x
  PROVE  LastIn(Append(lg, x)) = IF x = Torn THEN LastIn(lg) ELSE x
<1> DEFINE good == {k \in 1..Len(lg) : lg[k] # Torn}
           new  == Append(lg, x)
           Good == {k \in 1..Len(new) : new[k] # Torn}
<1>1. Len(lg) \in Nat /\ Len(new) = Len(lg) + 1 /\ new[Len(lg) + 1] = x
      /\ \A k \in 1..Len(lg) : new[k] = lg[k]
  OBVIOUS
<1> HIDE DEF new
<1>2. CASE x = Torn
  <2>1. Good = good
    BY <1>1, <1>2
  <2>2. CASE good = {}
    BY <1>2, <2>1, <2>2 DEF LastIn, new
  <2>3. CASE good # {}
    <3> DEFINE k == CHOOSE i \in good : \A l \in good : l <= i
    <3>1. \E i \in good : \A l \in good : l <= i
      BY <1>1, <2>3, Greatest
    <3>2. k \in good
      BY <3>1
    <3>3. new[k] = lg[k]
      BY <1>1, <3>2
    <3>4. LastIn(new) = new[k] /\ LastIn(lg) = lg[k]
      BY <2>1, <2>3 DEF LastIn
    <3> QED BY <1>2, <3>3, <3>4 DEF new
  <2> QED BY <2>2, <2>3
<1>3. CASE x # Torn
  <2>1. Len(lg) + 1 \in Good /\ \A l \in Good : l <= Len(lg) + 1
    BY <1>1, <1>3
  <2> DEFINE k == CHOOSE i \in Good : \A l \in Good : l <= i
  <2>2. k \in Good /\ \A l \in Good : l <= k
    BY <2>1
  <2>3. k = Len(lg) + 1
    BY <1>1, <2>1, <2>2
  <2>4. LastIn(new) = new[k]
    BY <2>1 DEF LastIn
  <2> QED BY <1>1, <1>3, <2>3, <2>4 DEF new
<1> QED BY <1>2, <1>3

LEMMA LastEmpty == LastIn(<<>>) = NoCmd
<1>1. {k \in 1..Len(<<>>) : <<>>[k] # Torn} = {}
  OBVIOUS
<1> QED BY <1>1 DEF LastIn

(* Whatever the log holds, zb_slt_area_read_last finds a command or        *)
(* nothing.                                                                *)
LEMMA LastCommand ==
  ASSUME NEW lg \in Seq({Torn} \cup Command)
  PROVE  LastIn(lg) \in Command
<1> DEFINE good == {k \in 1..Len(lg) : lg[k] # Torn}
<1>1. CASE good = {}
  BY <1>1, CommandIs DEF LastIn
<1>2. CASE good # {}
  <2> DEFINE k == CHOOSE i \in good : \A l \in good : l <= i
  <2>0. \E i \in good : \A l \in good : l <= i
    <3>1. Len(lg) \in Nat /\ good \subseteq 1..Len(lg)
      OBVIOUS
    <3> QED BY <1>2, <3>1, Greatest
  <2>1. k \in good
    BY <2>0
  <2>2. LastIn(lg) = lg[k]
    BY <1>2 DEF LastIn
  <2> QED BY <2>1, <2>2
<1> QED BY <1>1, <1>2

-----------------------------------------------------------------------------
(* A sector that no command needs for the image that comes.                *)

Spared(u, m, c, s) ==
  /\ InRunBy(c, 0) => s # Run
  /\ \A i \in 0..m.size - 1 : ~ InRunBy(c, i) => s # u + i

(* A step that writes a sector in which m has nothing to lose leaves m     *)
(* coming.                                                                 *)
LEMMA ComesKept ==
  ASSUME NEW f, NEW g, NEW s, NEW x, Updated(f, g, s, x),
         NEW u, NEW m, NEW c, Comes(f, u, m, c), Spared(u, m, c, s),
         Run \in DOMAIN f, \A i \in 0..m.size - 1 : u + i \in DOMAIN f
  PROVE  Comes(g, u, m, c)
<1>1. InRunBy(c, 0) => g[Run] = f[Run]
  BY DEF Spared, Updated
<1>2. \A i \in 0..m.size - 1 : ~ InRunBy(c, i) => g[u + i] = f[u + i]
  BY DEF Spared, Updated
<1> QED BY <1>1, <1>2 DEF Comes

(* What goes through the move of a sector.                                 *)
LEMMA MoveIs ==
  ASSUME NEW f, FlashOK(f), NEW from \in DOMAIN f, NEW to \in DOMAIN f,
         from # to, f[from] \in Plain, NEW key, NEW g,
         NEW j, j.from = from, j.to = to, j.key = key,
         Updated(f, g, to, Blank)
  PROVE  /\ Updated(f, CopyOf(g, j), to, Crypted(f[from], key))
         /\ FlashOK(g) /\ FlashOK(CopyOf(g, j))
<1>1. g[from] = f[from] /\ to \in DOMAIN g /\ DOMAIN g = DOMAIN f
  BY DEF Updated
<1>2. CopyOf(g, j) = [g EXCEPT ![to] = Crypted(f[from], key)]
  BY <1>1 DEF CopyOf
<1>3. Updated(g, CopyOf(g, j), to, Crypted(f[from], key))
  <2>1. PICK y \in {Crypted(f[from], key)} : TRUE
    OBVIOUS
  <2>2. Updated(g, [g EXCEPT ![to] = y], to, y)
    BY <1>1, UpdatedBy
  <2> QED BY <1>2, <2>1, <2>2
<1>4. Updated(f, CopyOf(g, j), to, Crypted(f[from], key))
  BY <1>1, <1>3 DEF Updated
<1>5. Crypted(f[from], key) \in Plain /\ Blank \in Plain
  BY CryptedPlain, PlainIs
<1> QED BY <1>4, <1>5, UpdatedOK

-----------------------------------------------------------------------------
(* What a step leaves as it is.                                            *)

(* The layout is the size of the flash, which no step changes.             *)
LEMMA SameLayout ==
  ASSUME DOMAIN flash' = DOMAIN flash
  PROVE  InPlace' = InPlace /\ Upgrade' = Upgrade
  BY DEF InPlace, Upgrade, Move

LEMMA SameLog ==
  ASSUME DOMAIN flash' = DOMAIN flash, log' = log
  PROVE  /\ LastCmd' = LastCmd /\ Continue' = Continue /\ Swapping' = Swapping
         /\ InPlace' = InPlace /\ Upgrade' = Upgrade
<1>1. InPlace' = InPlace /\ Upgrade' = Upgrade
  BY SameLayout
<1>2. LastCmd' = LastCmd
  BY LastIs
<1> QED BY <1>1, <1>2 DEF Continue, Swapping

(* The command that is executed and the last one that was logged.          *)
LEMMA Commands ==
  ASSUME TypeOK, LogInv
  PROVE  /\ cmd \in Command /\ cmd.c2 \in C2 /\ cmd.c3 \in Int
         /\ 0 <= cmd.c3 /\ cmd.c3 <= 255
         /\ LastCmd \in Command /\ LastCmd.c2 \in C2 /\ LastCmd.c3 \in Int
         /\ 0 <= LastCmd.c3 /\ LastCmd.c3 <= 255
         /\ losses \in Int /\ 0 <= losses /\ losses <= MaxLosses
         /\ Continue <=> ~ InPlace /\ LastCmd.c2 \notin {"EMPTY", "SWP_END"}
         /\ Swapping => Continue
<1>1. LastCmd \in Command
  <2>1. LastIn(log) \in Command
    BY LastCommand DEF LogInv, Command
  <2> QED BY <2>1, LastIs
<1>2. cmd \in Command /\ losses \in 0..MaxLosses
  BY DEF TypeOK, Command
<1>3. Continue <=> ~ InPlace /\ LastCmd.c2 \notin {"EMPTY", "SWP_END"}
  BY DEF Continue
<1>4. Swapping => Continue
  BY DEF Continue, Swapping
<1>5. /\ \A c \in Command : c.c2 \in C2 /\ c.c3 \in 0..255
      /\ MaxLosses \in Nat
  BY CommandIs, Constants
<1>6. cmd.c2 \in C2 /\ cmd.c3 \in 0..255 /\ LastCmd.c2 \in C2 /\ LastCmd.c3 \in 0..255
  BY <1>1, <1>2, <1>5
<1> QED BY <1>1, <1>2, <1>3, <1>4, <1>5, <1>6

LEMMA LogKept ==
  ASSUME LogInv, DOMAIN flash' = DOMAIN flash, log' = log, losses' = losses,
         at' \notin {"off", "swap"} \/ at \in {"off", "swap"} \/ ~ Swapping
  PROVE  LogInv'
<1>1. /\ LastCmd' = LastCmd /\ Continue' = Continue /\ Swapping' = Swapping
      /\ InPlace' = InPlace
  BY SameLog
<1>2. Pos(LastCmd)' = Pos(LastCmd) /\ Limit' = Limit
  BY <1>1 DEF Pos, Limit
<1> QED BY <1>1, <1>2 DEF LogInv

(* The session's variables and the others whose type no flash decides.     *)
Typed ==
  /\ at \in {"off", "swap", "wipe", "cmd", "copy", "log", "unsign", "sign",
             "app", "loader", "upload", "dead"}
  /\ cmd \in [c2: C2, c3: 0..255]
  /\ job = None \/ job \in [from: DOMAIN flash, to: DOMAIN flash,
                            key: {NoCrypt, None} \cup Images]
  /\ upgr_ok \in BOOLEAN /\ upgr_key \in Images \cup {None}
  /\ run_confirmed \in BOOLEAN /\ in_place \in BOOLEAN
  /\ upgr_slt \in {Move, Upgrade}
  /\ upg2run_done \in BOOLEAN /\ mov2upg_done \in BOOLEAN
  /\ dfu = None \/ dfu \in [of: Images, n: 0..N]
  /\ pending \in Images \cup {None}
  /\ losses \in 0..MaxLosses

LEMMA TypedIs == TypeOK => Typed
  BY DEF TypeOK, Typed

LEMMA TypeKept ==
  ASSUME TypeOK, DOMAIN flash' = DOMAIN flash, FlashOK(flash'), log' = log, Typed'
  PROVE  TypeOK'
<1>1. \A s \in DOMAIN flash' :
       \/ flash'[s] \in {Blank, Torn} \cup ImageSec
       \/ s = Verify /\ flash'[s].kind = "crc"
  BY DEF FlashOK, Plain
<1>2. Typed' <=>
       /\ at' \in {"off", "swap", "wipe", "cmd", "copy", "log", "unsign", "sign",
                   "app", "loader", "upload", "dead"}
       /\ cmd' \in [c2: C2, c3: 0..255]
       /\ job' = None \/ job' \in [from: DOMAIN flash', to: DOMAIN flash',
                                   key: {NoCrypt, None} \cup Images]
       /\ upgr_ok' \in BOOLEAN /\ upgr_key' \in Images \cup {None}
       /\ run_confirmed' \in BOOLEAN /\ in_place' \in BOOLEAN
       /\ upgr_slt' \in {Move, Upgrade'}
       /\ upg2run_done' \in BOOLEAN /\ mov2upg_done' \in BOOLEAN
       /\ dfu' = None \/ dfu' \in [of: Images, n: 0..N]
       /\ pending' \in Images \cup {None}
       /\ losses' \in 0..MaxLosses
  BY DEF Typed, Move
<1> QED BY <1>1, <1>2 DEF TypeOK, Move

(* A sector outside the run image was changed, or a sector of an image     *)
(* that has no right CRC.                                                  *)
LEMMA RunKept ==
  ASSUME TypeOK, NEW s \in DOMAIN flash, NEW x, Updated(flash, flash', s, x),
         s > N \/ (HasHdr(Run) => s >= Hdr(Run).size /\ s # Verify), s # Run
  PROVE  /\ HasHdr(Run)' = HasHdr(Run) /\ (HasHdr(Run) => Hdr(Run)' = Hdr(Run))
         /\ HasHdr(Run) => RunContent' = RunContent
         /\ Validated' = Validated
<1>1. /\ Run = 0 /\ Verify = N /\ Run \in DOMAIN flash /\ Verify \in DOMAIN flash
      /\ N \in Int /\ 1 <= N
      /\ \A t \in 0..N - 1 : t \in DOMAIN flash
  BY TypeFlash, Constants
<1>2. flash'[Run] = flash[Run]
  BY <1>1 DEF Updated
<1>3. HasHdr(Run)' = HasHdr(Run) /\ Hdr(Run)' = Hdr(Run)
  BY <1>2 DEF HasHdr, Hdr, Run
<1>4. ASSUME HasHdr(Run)
      PROVE  RunContent' = RunContent /\ flash'[Verify] = flash[Verify]
  <2>1. Hdr(Run).size \in Int /\ 1 <= Hdr(Run).size /\ Hdr(Run).size <= N
    BY <1>1, <1>4, HeaderIs
  <2>2. flash'[Verify] = flash[Verify]
    BY <1>1, <1>4, TypeFlash DEF Updated
  <2>3. \A i \in 0..Hdr(Run).size - 1 : flash'[Run + i] = flash[Run + i]
    BY <1>1, <1>4, <2>1, TypeFlash DEF Updated
  <2> QED BY <1>3, <2>2, <2>3 DEF RunContent, Run
<1>5. Validated' = Validated
  <2>1. Validated' <=> HasHdr(Run)' /\ flash'[Verify] = Crc(RunContent)'
    BY DEF Validated, Verify
  <2>2. HasHdr(Run) => Crc(RunContent)' = Crc(RunContent)
    BY <1>4 DEF Crc
  <2> QED BY <1>3, <1>4, <2>1, <2>2 DEF Validated
<1> QED BY <1>3, <1>4, <1>5

LEMMA VerifyKept ==
  ASSUME VerifyInv, flash' = flash,
         Swapping' \/ (AtWork' /\ ~ Continue') => Swapping \/ (AtWork /\ ~ Continue)
  PROVE  VerifyInv'
<1>1. InPlace' = InPlace /\ Validated' = Validated
  BY DEF InPlace, Validated, HasHdr, Hdr, RunContent
<1> QED BY <1>1 DEF VerifyInv, Verify

LEMMA VerifyClear ==
  ASSUME flash'[Verify].kind # "crc"
  PROVE  VerifyInv'
  BY DEF VerifyInv, Verify

(* While the images are on their way no CRC says that the run image is     *)
(* confirmed.                                                              *)
LEMMA VerifyWork ==
  ASSUME TypeOK, VerifyInv, ~ InPlace, Swapping \/ (AtWork /\ ~ Continue),
         NEW s \in DOMAIN flash, NEW x \in Plain, Updated(flash, flash', s, x)
  PROVE  VerifyInv'
<1>1. flash[Verify].kind # "crc" /\ Verify \in DOMAIN flash
  BY TypeFlash DEF VerifyInv
<1>2. x.kind # "crc"
  BY PlainIs
<1>3. flash'[Verify].kind # "crc"
  BY <1>1, <1>2 DEF Updated
<1> QED BY <1>3, VerifyClear

-----------------------------------------------------------------------------
(* The image that comes.                                                   *)

(* A command that needs no more of m than another one finds m too.         *)
LEMMA ComesOn ==
  ASSUME NEW f, NEW u, NEW m, NEW c, NEW d, Comes(f, u, m, c),
         InRunBy(d, 0) => InRunBy(c, 0),
         \A i \in 0..m.size - 1 : InRunBy(c, i) => InRunBy(d, i)
  PROVE  Comes(f, u, m, d)
  BY DEF Comes

LEMMA ComeIdle ==
  ASSUME NEW m, ComeInv(m), flash' = flash, log' = log, ~ AtWork'
  PROVE  ComeInv(m)'
<1>1. DOMAIN flash' = DOMAIN flash
  OBVIOUS
<1>2. LastCmd' = LastCmd /\ Continue' = Continue
  BY <1>1, SameLog
<1>3. Continue' => Comes(flash', N + 1, m, LastCmd')
  BY <1>2 DEF ComeInv
<1> QED BY <1>3 DEF ComeInv

(* What follows from the size of a command number, a byte.                 *)
LEMMA GotoIs ==
  ASSUME NEW place, NEW c2 \in C2, NEW c3 \in Int, 0 <= c3, c3 <= 255,
         Goto(place, c2, c3)
  PROVE  /\ at' = place /\ cmd'.c2 = c2 /\ cmd'.c3 = c3 /\ cmd' = Cmd(c2, c3)
         /\ cmd' \in Command
<1>1. c3 % 256 = c3
  OBVIOUS
<1>2. at' = place /\ cmd' = Cmd(c2, c3)
  BY <1>1 DEF Goto
<1>3. c3 \in 0..255
  OBVIOUS
<1> QED BY <1>2, <1>3, CommandIs

-----------------------------------------------------------------------------
(* What the boot, the application and the loader do.                       *)
LEMMA IdleBase ==
  ASSUME NEW m, Assumed, Base(m),
         Boot \/ AppConfirm \/ AppLeaves \/ UploadStart \/ UploadDone \/ Reset
  PROVE  Base(m)'
<1> USE DEF Base
<1>1. flash' = flash /\ log' = log /\ UNCHANGED session /\ losses' = losses
  BY DEF Boot, AppConfirm, AppLeaves, UploadStart, UploadDone, Reset
<1>2. DOMAIN flash' = DOMAIN flash
  BY <1>1
<1>3. /\ InPlace' = InPlace /\ Upgrade' = Upgrade /\ LastCmd' = LastCmd
      /\ Continue' = Continue /\ Swapping' = Swapping
  BY <1>1, <1>2, SameLog
<1>4. /\ ~ AtWork /\ cmd = NoCmd /\ cmd' = NoCmd /\ NoCmd.c2 = "EMPTY"
  <2>1. NoCmd.c2 = "EMPTY"
    BY CommandIs
  <2>2. CASE at = "app" /\ AppConfirm
    BY <1>1, <2>1, <2>2 DEF CmdInv, AtWork, session
  <2>3. CASE ~ (at = "app" /\ AppConfirm)
    <3>1. at \in {"off", "app", "loader", "upload", "dead"}
      BY <2>3 DEF Boot, AppConfirm, AppLeaves, UploadStart, UploadDone, Reset
    <3> QED BY <1>1, <2>1, <3>1 DEF CmdInv, AtWork, session
  <2> QED BY <2>2, <2>3
<1>5. at' \in {"off", "swap", "unsign", "app", "loader", "upload"}
  BY DEF Boot, AppConfirm, AppLeaves, UploadStart, UploadDone, Reset
<1>6. ~ AtWork'
  BY <1>4, <1>5 DEF AtWork
<1>7. VerifyInv'
  BY <1>1, <1>3, <1>6, VerifyKept
<1>8. JobInv'
  BY <1>5 DEF JobInv
<1>9. ComeInv(m)'
  BY <1>1, <1>6, ComeIdle
<1>10. TypeOK'
  <2>1. FlashOK(flash')
    BY <1>1, TypeFlash
  <2>2. Typed'
    <3>1. Typed
      BY TypedIs
    <3>2. /\ dfu' = None \/ dfu' \in [of: Images, n: 0..N]
          /\ pending' \in Images \cup {None}
      <4>1. CASE UploadStart
        <5>1. PICK w \in Uploads[InPlace] : dfu' = [of |-> w, n |-> 0]
          BY <4>1 DEF UploadStart
        <5>2. w \in Images
          BY <5>1, ImagesAssumption DEF InPlace
        <5>3. 0 \in 0..N
          BY Constants
        <5> QED BY <4>1, <5>1, <5>2, <5>3 DEF UploadStart
      <4>2. CASE UploadDone
        BY <4>2 DEF UploadDone, CmdInv
      <4>3. CASE Boot \/ AppConfirm \/ AppLeaves \/ Reset
        BY <3>1, <4>3 DEF Boot, AppConfirm, AppLeaves, Reset, Typed
      <4> QED BY <4>1, <4>2, <4>3
    <3> QED BY <1>1, <1>3, <1>5, <3>1, <3>2 DEF Typed, session
  <2> QED BY <1>1, <1>2, <2>1, <2>2, TypeKept
<1>11. Validated /\ ~ InPlace => ~ Swapping
  <2>1. Validated => flash[Verify].kind = "crc"
    BY DEF Validated, Crc
  <2> QED BY <2>1 DEF VerifyInv
<1>12. LogInv'
  <2>1. at' \notin {"off", "swap"} \/ at \in {"off", "swap"} \/ ~ Swapping
    BY DEF CmdInv, Boot, AppConfirm, AppLeaves, UploadStart, UploadDone, Reset
  <2> QED BY <1>1, <1>2, <2>1, LogKept
<1>13. HasHdr(Run)' = HasHdr(Run)
  BY <1>1 DEF HasHdr, Run
<1>14. /\ at' \in {"app", "unsign", "sign"} => HasHdr(Run)
       /\ at' = "upload" /\ ~ InPlace => HasHdr(Run)
       /\ at' \in {"app", "loader", "dead", "upload", "unsign", "sign"} => ~ Swapping
       /\ at' \in {"unsign", "upload"} \/ dfu' = None
       /\ at' = "upload" => dfu' \in [of: Images, n: 0..N]
       /\ at' = "unsign" /\ dfu' # None => ~ InPlace
  <2>1. CASE Boot
    BY <1>11, <2>1 DEF Boot, CmdInv, Validated, Swapping
  <2>2. CASE AppConfirm
    BY <2>2 DEF AppConfirm, CmdInv
  <2>3. CASE AppLeaves
    BY <2>3 DEF AppLeaves, CmdInv
  <2>4. CASE UploadStart
    <3>1. PICK w \in Uploads[InPlace] : dfu' = [of |-> w, n |-> 0]
      BY <2>4 DEF UploadStart
    <3>2. w \in Images
      BY <3>1, ImagesAssumption DEF InPlace
    <3>3. 0 \in 0..N
      BY Constants
    <3> QED BY <2>4, <3>1, <3>2, <3>3 DEF UploadStart, CmdInv, Swapping
  <2>5. CASE UploadDone
    BY <2>5 DEF UploadDone, CmdInv
  <2>6. CASE Reset
    BY <2>6 DEF Reset, CmdInv
  <2> QED BY <2>1, <2>2, <2>3, <2>4, <2>5, <2>6
<1>15. CmdInv'
  BY <1>1, <1>3, <1>4, <1>5, <1>6, <1>13, <1>14 DEF CmdInv, session
<1> QED BY <1>7, <1>8, <1>9, <1>10, <1>12, <1>15

LEMMA TypeLog ==
  ASSUME TypeOK, DOMAIN flash' = DOMAIN flash, FlashOK(flash'), Typed',
         log' \in Seq({Torn} \cup Command), Len(log') <= LogSize
  PROVE  TypeOK'
<1>1. \A s \in DOMAIN flash' :
       \/ flash'[s] \in {Blank, Torn} \cup ImageSec
       \/ s = Verify /\ flash'[s].kind = "crc"
  BY DEF FlashOK, Plain
<1>2. Typed' <=>
       /\ at' \in {"off", "swap", "wipe", "cmd", "copy", "log", "unsign", "sign",
                   "app", "loader", "upload", "dead"}
       /\ cmd' \in [c2: C2, c3: 0..255]
       /\ job' = None \/ job' \in [from: DOMAIN flash', to: DOMAIN flash',
                                   key: {NoCrypt, None} \cup Images]
       /\ upgr_ok' \in BOOLEAN /\ upgr_key' \in Images \cup {None}
       /\ run_confirmed' \in BOOLEAN /\ in_place' \in BOOLEAN
       /\ upgr_slt' \in {Move, Upgrade'}
       /\ upg2run_done' \in BOOLEAN /\ mov2upg_done' \in BOOLEAN
       /\ dfu' = None \/ dfu' \in [of: Images, n: 0..N]
       /\ pending' \in Images \cup {None}
       /\ losses' \in 0..MaxLosses
  BY DEF Typed, Move
<1>3. \A k \in 1..Len(log') : log'[k] \in {Torn} \cup [c2: C2, c3: 0..255]
  BY DEF Command
<1> QED BY <1>1, <1>2, <1>3 DEF TypeOK, Move

(* zb_img_swap has returned or power has failed.                           *)
LEMMA SessionOver ==
  ASSUME TypeOK, NoSession, DOMAIN flash' = DOMAIN flash, dfu' = None,
         at' \in {"off", "app", "loader", "dead"},
         at' # "off" => ~ Swapping', at' = "app" => HasHdr(Run)',
         pending' \in Images \cup {None}, losses' \in 0..MaxLosses
  PROVE  CmdInv' /\ ~ AtWork' /\ JobInv' /\ Typed'
<1>1. InPlace' = InPlace /\ Upgrade' = Upgrade
  BY SameLayout
<1>2. ~ AtWork'
  BY DEF AtWork
<1>3. NoCmd \in Command /\ NoCmd.c2 = "EMPTY"
  BY CommandIs
<1>4. InPlace \in BOOLEAN /\ Upgrade \in {Move, Upgrade'}
  BY <1>1 DEF InPlace
<1>5. Typed'
  BY <1>1, <1>3, <1>4 DEF Typed, NoSession, Command, Move
<1>6. JobInv'
  BY DEF JobInv
<1>7. CmdInv'
  BY <1>1, <1>2, <1>3 DEF CmdInv, NoSession
<1> QED BY <1>2, <1>5, <1>6, <1>7

(* A valid crc means that no swap goes on.                                 *)
LEMMA ValidatedIs ==
  ASSUME VerifyInv, Validated, ~ InPlace
  PROVE  ~ Swapping
<1>1. flash[Verify].kind = "crc"
  BY DEF Validated, Crc
<1> QED BY <1>1 DEF VerifyInv

(* The start of a swap: it goes on, or takes the image in the upgrade slot *)
(* as the one that comes.                                                  *)
LEMMA SwapStartBase ==
  ASSUME NEW m \in Images \cup {None}, Assumed, Base(m), SwapStart
  PROVE  \E w \in Images \cup {None} :
            /\ Base(w)'
            /\ \/ w = m /\ (Continue' \/ ~ AtWork')
               \/ (~ Continue' /\ AtWork' /\ w = Hdr(Upgrade) /\ w \in Images
                           /\ UpgradeValid(TRUE) /\ ~ Validated)
<1> USE DEF Base
<1>1. flash' = flash /\ log' = log /\ dfu' = dfu /\ losses' = losses /\ at = "swap"
  BY DEF SwapStart
<1>2. DOMAIN flash' = DOMAIN flash
  BY <1>1
<1>3. /\ InPlace' = InPlace /\ Upgrade' = Upgrade /\ LastCmd' = LastCmd
      /\ Continue' = Continue /\ Swapping' = Swapping
  BY <1>1, <1>2, SameLog
<1>4. LogInv'
  <2>1. at' \notin {"off", "swap"} \/ at \in {"off", "swap"} \/ ~ Swapping
    BY <1>1
  <2> QED BY <1>1, <1>2, <2>1, LogKept
<1>5. dfu = None /\ Typed /\ FlashOK(flash) /\ ~ AtWork
  <2>1. ~ AtWork
    BY <1>1 DEF AtWork
  <2> QED BY <1>1, <2>1, TypedIs, TypeFlash DEF CmdInv
<1>6. HasHdr(Run)' = HasHdr(Run)
  BY <1>1 DEF HasHdr, Run
<1>7. CASE /\ \/ Validated /\ JumpRun
              \/ /\ ~ Continue
                 /\ IF InPlace THEN at' = "loader" /\ NoSession ELSE JumpRun
           /\ UNCHANGED pending
  <2>1. NoSession /\ at' \in {"app", "loader", "dead"} /\ (at' = "app" => HasHdr(Run)')
    BY <1>6, <1>7 DEF JumpRun
  <2>2. ~ Swapping
    BY <1>7, ValidatedIs, Commands DEF Swapping
  <2>3. pending' \in Images \cup {None} /\ losses' \in 0..MaxLosses
    BY <1>1, <1>5, <1>7 DEF Typed
  <2>4. CmdInv' /\ ~ AtWork' /\ JobInv' /\ Typed'
    BY <1>1, <1>2, <1>3, <1>5, <2>1, <2>2, <2>3, SessionOver
  <2>5. TypeOK'
    BY <1>1, <1>2, <1>5, <2>4, TypeKept
  <2>6. VerifyInv'
    BY <1>1, <1>3, <2>4, VerifyKept
  <2>7. ComeInv(m)'
    BY <1>1, <2>4, ComeIdle
  <2> QED BY <1>4, <2>4, <2>5, <2>6, <2>7
<1>8. CASE /\ ~ Validated /\ Continue
           /\ at' = "cmd" /\ cmd' = LastCmd
           /\ UNCHANGED <<job, upgr_ok, upgr_key, run_confirmed, in_place,
                          upgr_slt, upg2run_done, mov2upg_done, pending>>
  <2>1. /\ LastCmd \in Command /\ LastCmd.c2 \in C2
        /\ ~ InPlace /\ LastCmd.c2 \notin {"EMPTY", "SWP_END"}
    BY <1>8, Commands
  <2>2. AtWork'
    BY <1>8 DEF AtWork
  <2>3. /\ upgr_ok' = FALSE /\ upgr_key' = None
        /\ upg2run_done' = FALSE /\ mov2upg_done' = FALSE
    BY <1>5, <1>8, <2>1 DEF CmdInv
  <2>4. TypeOK'
    <3>1. Typed'
      BY <1>1, <1>2, <1>3, <1>5, <1>8, <2>1 DEF Typed, Command
    <3> QED BY <1>1, <1>2, <1>5, <3>1, TypeKept
  <2>5. Limit' = Limit /\ Undone' = 2
    BY <1>1, <2>3 DEF Limit, Undone
  <2>6. /\ LastCmd.c3 <= Limit
        /\ LastCmd.c2 \in {"RUN2MOV", "UPG2RUN", "MOV2UPG"} => LastCmd.c3 + 2 <= Limit
        /\ LastCmd.c2 = "RUN2MOV" => LastCmd.c3 < N
    BY <1>1, <1>8, <2>1 DEF LogInv, Swapping
  <2>7. CmdInv'
    BY <1>1, <1>3, <1>5, <1>8, <2>1, <2>2, <2>3, <2>5, <2>6 DEF CmdInv
  <2>8. VerifyInv'
    <3>1. ~ InPlace => flash[Verify].kind # "crc"
      BY <1>8 DEF VerifyInv
    <3> QED BY <1>1, <1>3, <3>1 DEF VerifyInv, Verify
  <2>9. JobInv'
    BY <1>8 DEF JobInv
  <2>10. ComeInv(m)'
    <3>1. Comes(flash, N + 1, m, LastCmd) /\ Upgrade = N + 1
      BY <1>8, <2>1, TypeFlash DEF ComeInv
    <3>2. Copied' = flash
      BY <1>1, <1>8 DEF Copied
    <3>3. Comes(flash', N + 1, m, LastCmd') /\ Comes(Copied', Upgrade', m, cmd')
      BY <1>1, <1>3, <1>8, <3>1, <3>2
    <3> QED BY <1>3, <2>1, <2>3, <3>3 DEF ComeInv
  <2>11. Continue'
    BY <1>3, <1>8
  <2> QED BY <1>4, <2>4, <2>7, <2>8, <2>9, <2>10, <2>11
<1>9. CASE /\ ~ Validated /\ ~ Continue
           /\ \E others \in OtherDeps : UpgradeValid(others)
           /\ upgr_ok' = TRUE /\ upgr_key' = KeyOf(Hdr(Upgrade))
           /\ at' = IF InPlace THEN "cmd" ELSE "wipe"
           /\ pending' = None
           /\ UNCHANGED <<cmd, job, run_confirmed, in_place, upgr_slt,
                          upg2run_done, mov2upg_done>>
  <2>0. PICK w \in {Hdr(Upgrade)} : TRUE
    OBVIOUS
  <2>1. /\ HasHdr(Upgrade) /\ HashOk(Upgrade) /\ UpgradeValid(TRUE)
    BY <1>9 DEF Assumed, UpgradeValid
  <2>2. w \in Images /\ w.size \in Int /\ 1 <= w.size /\ w.size <= N
    <3>1. 0 \in 0..N - 1 /\ Upgrade \in DOMAIN flash
      BY TypeFlash, Constants
    <3> QED BY <2>0, <2>1, <3>1, HeaderIs
  <2>3. /\ cmd = NoCmd /\ upgr_key = None /\ upg2run_done = FALSE /\ mov2upg_done = InPlace
    BY <1>5 DEF CmdInv
  <2>4. upgr_key' \in {None, w} /\ (w.enc => upgr_key' = w)
    BY <1>9, <2>0, <2>3 DEF KeyOf
  <2>5. NoCmd \in Command /\ NoCmd.c2 = "EMPTY" /\ NoCmd.c3 = 0
    BY CommandIs
  <2>6. TypeOK'
    <3>1. Typed'
      BY <1>1, <1>2, <1>3, <1>5, <1>9, <2>2, <2>4 DEF Typed
    <3> QED BY <1>1, <1>2, <1>5, <3>1, TypeKept
  <2>7. AtWork' /\ LastCmd.c2 = LastCmd.c2
    BY <1>9 DEF AtWork
  <2>8. InPlace => log = <<>> /\ LastCmd = NoCmd
    <3>1. InPlace => log = <<>>
      BY DEF LogInv
    <3> QED BY <3>1, LastEmpty, LastIs
  <2>9. N \in Int /\ 1 <= N /\ losses \in Int /\ 0 <= losses
    BY Constants, Commands
  <2>10. CmdInv'
    BY <1>1, <1>3, <1>5, <1>9, <2>3, <2>5, <2>7, <2>8, <2>9
       DEF CmdInv, Limit, Undone, Swapping, Continue
  <2>11. VerifyInv'
    <3>1. ~ InPlace => flash[Verify].kind # "crc"
      BY <1>9 DEF VerifyInv
    <3> QED BY <1>1, <1>3, <3>1 DEF VerifyInv, Verify
  <2>12. JobInv'
    BY <1>9 DEF JobInv
  <2>13. ComeInv(w)'
    <3>1. Comes(flash, Upgrade, w, NoCmd)
      BY <2>0, <2>1, <2>2, <2>5 DEF Comes, HashOk, Holds, InRunBy
    <3>2. Copied' = flash
      BY <1>1, <1>9 DEF Copied
    <3>3. Comes(Copied', Upgrade', w, cmd')
      BY <1>3, <1>9, <2>3, <3>1, <3>2
    <3> QED BY <1>3, <1>9, <2>2, <2>3, <2>4, <2>5, <3>3 DEF ComeInv
  <2>14. ~ Continue'
    BY <1>3, <1>9
  <2>15. Base(w)'
    BY <1>4, <2>6, <2>10, <2>11, <2>12, <2>13
  <2> QED BY <1>9, <2>0, <2>1, <2>2, <2>7, <2>14, <2>15
<1> QED BY <1>7, <1>8, <1>9 DEF SwapStart

(* The log is erased before the first command.                             *)
LEMMA WipeBase ==
  ASSUME NEW m \in Images \cup {None}, Assumed, Base(m), WipeLog
  PROVE  Base(m)'
<1> USE DEF Base
<1>1. /\ flash' = flash /\ log' = <<>> /\ losses' = 0 /\ at = "wipe" /\ at' = "cmd"
      /\ UNCHANGED session /\ dfu' = dfu /\ pending' = pending
  BY DEF WipeLog
<1>2. DOMAIN flash' = DOMAIN flash
  BY <1>1
<1>3. /\ InPlace' = InPlace /\ Upgrade' = Upgrade
  BY <1>2, SameLayout
<1>4. NoCmd \in Command /\ NoCmd.c2 = "EMPTY" /\ NoCmd.c3 = 0
  BY CommandIs
<1>5. LastCmd' = NoCmd /\ ~ Continue' /\ ~ Swapping'
  <2>1. LastCmd' = NoCmd
    BY <1>1, LastIs, LastEmpty
  <2> QED BY <1>4, <2>1 DEF Continue, Swapping
<1>6. /\ ~ InPlace /\ ~ Continue /\ cmd = NoCmd /\ upg2run_done = FALSE
      /\ mov2upg_done = FALSE /\ AtWork /\ AtWork'
  BY <1>1 DEF CmdInv, AtWork
<1>7. N \in Int /\ 1 <= N /\ LogSize \in Nat /\ 0 \in 0..MaxLosses /\ <<>> \in Seq({Torn} \cup Command)
  BY Constants
<1>8. LogInv'
  BY <1>1, <1>3, <1>4, <1>5, <1>7 DEF LogInv, Command
<1>9. TypeOK'
  <2>1. FlashOK(flash') /\ Typed
    BY <1>1, TypeFlash, TypedIs
  <2>2. Typed'
    BY <1>1, <1>2, <1>3, <1>7, <2>1 DEF Typed, session
  <2>3. Len(log') <= LogSize
    BY <1>1, <1>7
  <2> QED BY <1>1, <1>2, <1>7, <2>1, <2>2, <2>3, TypeLog
<1>10. VerifyInv'
  BY <1>1, <1>5, <1>6, VerifyKept
<1>11. JobInv'
  BY <1>1 DEF JobInv
<1>12. CmdInv'
  BY <1>1, <1>3, <1>4, <1>5, <1>6, <1>7 DEF CmdInv, session, Limit, Undone
<1>13. ComeInv(m)'
  <2>1. Copied' = flash /\ Copied = flash
    BY <1>1 DEF Copied
  <2>2. Comes(Copied', Upgrade', m, cmd')
    BY <1>1, <1>3, <1>6, <2>1 DEF ComeInv, session
  <2> QED BY <1>1, <1>3, <1>4, <1>5, <1>6, <2>2 DEF ComeInv, session
<1> QED BY <1>8, <1>9, <1>10, <1>11, <1>12, <1>13

(* A write outside the image of the run slot leaves its crc valid.         *)
LEMMA RunSame ==
  ASSUME TypeOK, NEW s \in DOMAIN flash, NEW x, Updated(flash, flash', s, x),
         HasHdr(Run) => s >= Hdr(Run).size, s # Run
  PROVE  /\ HasHdr(Run)' = HasHdr(Run)
         /\ Hdr(Run)' = Hdr(Run)
         /\ HasHdr(Run) => RunContent' = RunContent
<1>1. /\ Run = 0 /\ Run \in DOMAIN flash /\ N \in Int /\ 1 <= N
      /\ \A t \in 0..N - 1 : t \in DOMAIN flash
  BY TypeFlash, Constants
<1>2. flash'[Run] = flash[Run]
  BY <1>1 DEF Updated
<1>3. HasHdr(Run)' = HasHdr(Run) /\ Hdr(Run)' = Hdr(Run)
  BY <1>2 DEF HasHdr, Hdr, Run
<1>4. ASSUME HasHdr(Run)
      PROVE  RunContent' = RunContent
  <2>1. Hdr(Run).size \in Int /\ 1 <= Hdr(Run).size /\ Hdr(Run).size <= N
    BY <1>1, <1>4, HeaderIs
  <2>2. \A i \in 0..Hdr(Run).size - 1 : flash'[Run + i] = flash[Run + i]
    BY <1>1, <1>4, <2>1 DEF Updated
  <2> QED BY <1>3, <2>2 DEF RunContent, Run
<1> QED BY <1>3, <1>4

(* Outside of a swap the log tells at most where the run image is.         *)
LEMMA ComeApart ==
  ASSUME NEW m, TypeOK, LogInv, ComeInv(m), ~ Swapping, log' = log,
         NEW s \in DOMAIN flash, NEW x, Updated(flash, flash', s, x), s # Run
  PROVE  Continue' => Comes(flash', N + 1, m, LastCmd')
<1>1. DOMAIN flash' = DOMAIN flash
  BY DEF Updated
<1>2. LastCmd' = LastCmd /\ Continue' = Continue
  BY <1>1, SameLog
<1>3. ASSUME Continue
      PROVE  Comes(flash', N + 1, m, LastCmd)
  <2>1. LastCmd.c2 = "FINALISE"
    BY <1>3, Commands DEF Swapping, C2
  <2>2. \A i : InRunBy(LastCmd, i)
    BY <2>1 DEF InRunBy
  <2>3. Comes(flash, N + 1, m, LastCmd)
    BY <1>3 DEF ComeInv
  <2>4. flash'[Run] = flash[Run]
    BY TypeFlash DEF Updated
  <2> QED BY <2>2, <2>3, <2>4 DEF Comes
<1> QED BY <1>2, <1>3

LEMMA EraseVerifyBase ==
  ASSUME NEW m \in Images \cup {None}, Assumed, Base(m), EraseVerify
  PROVE  Base(m)'
<1> USE DEF Base
<1>1. /\ log' = log /\ losses' = losses /\ at = "unsign"
      /\ at' = IF dfu # None THEN "upload" ELSE "sign"
      /\ UNCHANGED session /\ dfu' = dfu /\ pending' = pending
  BY DEF EraseVerify
<1>2. /\ Updated(flash, flash', Verify, Blank) /\ Verify \in DOMAIN flash
      /\ Verify = N /\ Run = 0 /\ N \in Int /\ 1 <= N /\ FlashOK(flash)
      /\ Blank \in Plain /\ Blank.kind # "crc"
  BY TypeFlash, UpdatedBy, Constants, PlainIs DEF EraseVerify, Plain, Blank
<1>3. DOMAIN flash' = DOMAIN flash /\ FlashOK(flash')
  BY <1>2, UpdatedOK DEF Updated
<1>4. /\ InPlace' = InPlace /\ Upgrade' = Upgrade /\ LastCmd' = LastCmd
      /\ Continue' = Continue /\ Swapping' = Swapping
  BY <1>1, <1>3, SameLog
<1>5. LogInv'
  BY <1>1, <1>3, LogKept
<1>6. VerifyInv'
  BY <1>2, VerifyClear DEF Updated
<1>7. HasHdr(Run)' = HasHdr(Run)
  <2>1. HasHdr(Run) => Verify >= Hdr(Run).size
    BY <1>2, TypeFlash, HeaderIs
  <2> QED BY <1>2, <2>1, RunSame
<1>8. TypeOK'
  <2>1. Typed
    BY TypedIs
  <2>2. Typed'
    BY <1>1, <1>3, <1>4, <2>1 DEF Typed, session
  <2> QED BY <1>1, <1>3, <2>2, TypeKept
<1>9. JobInv'
  BY <1>1 DEF JobInv
<1>10. HasHdr(Run) /\ ~ Swapping
  BY <1>1 DEF CmdInv
<1>11. dfu # None => ~ InPlace /\ cmd = NoCmd /\ NoCmd.c2 = "EMPTY"
  BY <1>1, CommandIs DEF CmdInv
<1>12. AtWork' <=> AtWork
  BY <1>1, <1>11 DEF AtWork, session
<1>13. dfu = None \/ dfu \in [of: Images, n: 0..N]
  BY DEF TypeOK
<1>14. Pos(cmd)' = Pos(cmd) /\ Pos(LastCmd)' = Pos(LastCmd) /\ Limit' = Limit /\ Undone' = Undone
  BY <1>1, <1>4 DEF Pos, Limit, Undone, session
<1>15. CmdInv'
  BY <1>1, <1>4, <1>7, <1>10, <1>11, <1>12, <1>13, <1>14 DEF CmdInv, session
<1>16. ComeInv(m)'
  <2>1. Continue' => Comes(flash', N + 1, m, LastCmd')
    BY <1>1, <1>2, <1>10, ComeApart
  <2>2. Copied' = flash' /\ Copied = flash
    BY <1>1 DEF Copied
  <2>3. ASSUME AtWork
        PROVE  Comes(flash', Upgrade, m, cmd)
    <3>1. cmd.c2 = "SWP_END"
      BY <1>1, <2>3 DEF AtWork
    <3>2. \A i : InRunBy(cmd, i)
      BY <3>1 DEF InRunBy
    <3>3. Comes(flash, Upgrade, m, cmd)
      BY <2>2, <2>3 DEF ComeInv
    <3>4. flash'[Run] = flash[Run]
      BY <1>2, TypeFlash DEF Updated
    <3> QED BY <3>2, <3>3, <3>4 DEF Comes
  <2>4. AtWork' => Comes(Copied', Upgrade', m, cmd')
    BY <1>1, <1>4, <1>12, <2>2, <2>3 DEF session
  <2> QED BY <1>1, <1>4, <1>12, <2>1, <2>4 DEF ComeInv, session
<1> QED BY <1>5, <1>6, <1>8, <1>9, <1>15, <1>16

LEMMA WriteVerifyBase ==
  ASSUME NEW m \in Images \cup {None}, Assumed, Base(m), WriteVerify
  PROVE  Base(m)'
<1> USE DEF Base
<1>1. /\ log' = log /\ losses' = losses /\ at = "sign"
      /\ at' = IF cmd.c2 = "SWP_END" THEN "log" ELSE "app"
      /\ UNCHANGED session /\ dfu' = dfu /\ pending' = pending
  BY DEF WriteVerify
<1>0. PICK crc \in {Crc(RunContent)} : TRUE
  OBVIOUS
<1>2. /\ Updated(flash, flash', Verify, crc) /\ Verify \in DOMAIN flash
      /\ Verify = N /\ Run = 0 /\ N \in Int /\ 1 <= N /\ FlashOK(flash)
      /\ crc.kind = "crc"
  <2>1. /\ Verify \in DOMAIN flash /\ Verify = N /\ Run = 0 /\ N \in Int /\ 1 <= N
        /\ FlashOK(flash)
    BY TypeFlash, Constants
  <2>2. crc.kind = "crc"
    BY <1>0 DEF Crc
  <2>3. flash' = [flash EXCEPT ![Verify] = crc]
    BY <1>0 DEF WriteVerify
  <2>4. Updated(flash, [flash EXCEPT ![Verify] = crc], Verify, crc)
    BY <2>1, UpdatedBy
  <2> QED BY <2>1, <2>2, <2>3, <2>4
<1>3. DOMAIN flash' = DOMAIN flash /\ FlashOK(flash')
  BY <1>2, UpdatedOK DEF Updated
<1>4. /\ InPlace' = InPlace /\ Upgrade' = Upgrade /\ LastCmd' = LastCmd
      /\ Continue' = Continue /\ Swapping' = Swapping
  BY <1>1, <1>3, SameLog
<1>5. LogInv'
  BY <1>1, <1>3, LogKept
<1>6. HasHdr(Run) /\ ~ Swapping /\ dfu = None
  BY <1>1 DEF CmdInv
<1>7. /\ HasHdr(Run)' /\ RunContent' = RunContent
  <2>1. HasHdr(Run) => Verify >= Hdr(Run).size
    BY <1>2, TypeFlash, HeaderIs
  <2> QED BY <1>2, <1>6, <2>1, RunSame
<1>8. AtWork' <=> AtWork
  BY <1>1 DEF AtWork, session
<1>9. VerifyInv'
  <2>1. flash'[Verify] = Crc(RunContent)
    BY <1>0, <1>2 DEF Updated
  <2>2. Crc(RunContent)' = Crc(RunContent)
    BY <1>7 DEF Crc
  <2>3. Validated'
    BY <1>7, <2>1, <2>2 DEF Validated, Verify
  <2>4. AtWork /\ ~ InPlace => Continue
    <3>1. AtWork => cmd.c2 = "SWP_END"
      BY <1>1 DEF AtWork
    <3>2. AtWork /\ ~ InPlace => LastCmd.c2 = "FINALISE"
      BY <1>1, <3>1 DEF CmdInv
    <3> QED BY <3>2 DEF Continue
  <2> QED BY <1>4, <1>6, <1>8, <2>3, <2>4 DEF VerifyInv
<1>10. TypeOK'
  <2>1. Typed
    BY TypedIs
  <2>2. Typed'
    BY <1>1, <1>3, <1>4, <2>1 DEF Typed, session
  <2> QED BY <1>1, <1>3, <2>2, TypeKept
<1>11. JobInv'
  BY <1>1 DEF JobInv
<1>12. Pos(cmd)' = Pos(cmd) /\ Pos(LastCmd)' = Pos(LastCmd) /\ Limit' = Limit /\ Undone' = Undone
  BY <1>1, <1>4 DEF Pos, Limit, Undone, session
<1>13. CmdInv'
  BY <1>1, <1>4, <1>6, <1>7, <1>8, <1>12 DEF CmdInv, session
<1>14. ComeInv(m)'
  <2>1. Continue' => Comes(flash', N + 1, m, LastCmd')
    BY <1>1, <1>2, <1>6, ComeApart
  <2>2. Copied' = flash' /\ Copied = flash
    BY <1>1 DEF Copied
  <2>3. ASSUME AtWork
        PROVE  Comes(flash', Upgrade, m, cmd)
    <3>1. cmd.c2 = "SWP_END"
      BY <1>1, <2>3 DEF AtWork
    <3>2. \A i : InRunBy(cmd, i)
      BY <3>1 DEF InRunBy
    <3>3. Comes(flash, Upgrade, m, cmd)
      BY <2>2, <2>3 DEF ComeInv
    <3>4. flash'[Run] = flash[Run]
      BY <1>2, TypeFlash DEF Updated
    <3> QED BY <3>2, <3>3, <3>4 DEF Comes
  <2>4. AtWork' => Comes(Copied', Upgrade', m, cmd')
    BY <1>1, <1>4, <1>8, <2>2, <2>3 DEF session
  <2> QED BY <1>1, <1>4, <1>8, <2>1, <2>4 DEF ComeInv, session
<1> QED BY <1>5, <1>9, <1>10, <1>11, <1>13, <1>14

LEMMA UploadBase ==
  ASSUME NEW m \in Images \cup {None}, Assumed, Base(m), UploadSector
  PROVE  Base(m)'
<1> USE DEF Base
<1>1. /\ log' = log /\ losses' = losses /\ at = "upload" /\ at' = "upload"
      /\ dfu.n < dfu.of.size /\ dfu' = [dfu EXCEPT !.n = @ + 1]
      /\ UNCHANGED session /\ pending' = pending
  BY DEF UploadSector
<1>2. /\ dfu.of \in Images /\ dfu.n \in Nat /\ dfu.n <= N - 1 /\ dfu.of.size <= N
      /\ dfu' \in [of: Images, n: 0..N] /\ N \in Nat /\ 1 <= N
  BY <1>1, Constants DEF CmdInv
<1>0. PICK x \in {Sec(dfu.of, dfu.n, "sent")}, s \in {Upgrade + dfu.n} : TRUE
  OBVIOUS
<1>3. /\ Updated(flash, flash', s, x) /\ s \in DOMAIN flash /\ Run = 0 /\ s # Run
      /\ s = (IF InPlace THEN 1 ELSE N + 1) + dfu.n /\ FlashOK(flash) /\ x \in Plain
  <2>1. /\ s = (IF InPlace THEN 1 ELSE N + 1) + dfu.n /\ dfu.n \in 0..N - 1
        /\ Run = 0 /\ FlashOK(flash) /\ s \in DOMAIN flash /\ s # Run
    <3>1. dfu.n \in 0..N - 1
      BY <1>2
    <3> QED BY <1>0, <1>2, <3>1, TypeFlash
  <2>2. x \in Plain
    BY <1>0, <1>2, <2>1, SecIs DEF Plain
  <2>3. flash' = [flash EXCEPT ![s] = x]
    BY <1>0 DEF UploadSector
  <2>4. Updated(flash, [flash EXCEPT ![s] = x], s, x)
    BY <2>1, UpdatedBy
  <2> QED BY <2>1, <2>2, <2>3, <2>4
<1>4. DOMAIN flash' = DOMAIN flash /\ FlashOK(flash')
  BY <1>3, UpdatedOK DEF Updated
<1>5. /\ InPlace' = InPlace /\ Upgrade' = Upgrade /\ LastCmd' = LastCmd
      /\ Continue' = Continue /\ Swapping' = Swapping
  BY <1>1, <1>4, SameLog
<1>6. LogInv'
  BY <1>1, <1>4, LogKept
<1>7. ~ AtWork /\ ~ AtWork' /\ ~ Swapping
  BY <1>1 DEF CmdInv, AtWork
<1>8. HasHdr(Run)' = HasHdr(Run) /\ (~ InPlace => Validated' = Validated)
  <2>1. HasHdr(Run)' = HasHdr(Run)
    <3>1. flash'[Run] = flash[Run]
      BY <1>3, TypeFlash DEF Updated
    <3> QED BY <3>1 DEF HasHdr, Run
  <2>2. ~ InPlace => s > N
    BY <1>2, <1>3
  <2> QED BY <1>3, <2>1, <2>2, RunKept
<1>9. VerifyInv'
  <2>1. ~ InPlace => flash'[Verify] = flash[Verify]
    BY <1>2, <1>3, TypeFlash DEF Updated
  <2> QED BY <1>5, <1>7, <1>8, <2>1 DEF VerifyInv, Verify
<1>10. TypeOK'
  <2>1. Typed
    BY TypedIs
  <2>2. Typed'
    BY <1>1, <1>2, <1>4, <1>5, <2>1 DEF Typed, session
  <2> QED BY <1>1, <1>4, <2>2, TypeKept
<1>11. JobInv'
  BY <1>1 DEF JobInv
<1>12. CmdInv'
  BY <1>1, <1>2, <1>5, <1>7, <1>8 DEF CmdInv, session
<1>13. ComeInv(m)'
  <2>1. Continue' => Comes(flash', N + 1, m, LastCmd')
    BY <1>1, <1>3, <1>7, ComeApart
  <2> QED BY <1>7, <2>1 DEF ComeInv
<1> QED BY <1>6, <1>9, <1>10, <1>11, <1>12, <1>13

-----------------------------------------------------------------------------
(* The commands.                                                           *)

(* What IInv says while a command is looked at.                            *)
LEMMA Working ==
  ASSUME NEW m \in Images \cup {None}, Assumed, Base(m), at = "cmd"
  PROVE  /\ AtWork /\ m \in Images /\ Comes(flash, Upgrade, m, cmd)
         /\ m.size \in Int /\ 1 <= m.size /\ m.size <= N
         /\ cmd.c2 \in {"EMPTY", "RUN2MOV", "UPG2RUN", "MOV2UPG", "FINALISE"}
         /\ cmd.c3 \in Int /\ 0 <= cmd.c3
         /\ ~ InPlace => cmd = LastCmd /\ cmd.c3 <= Limit
         /\ InPlace => cmd.c2 \in {"EMPTY", "UPG2RUN", "FINALISE"} /\ cmd.c3 <= N + 1
         /\ Limit \in Int /\ N + 2 <= Limit /\ Limit <= 255
         /\ N \in Int /\ 1 <= N /\ N + 2 <= 255
         /\ in_place = InPlace /\ upgr_slt = Upgrade /\ dfu = None
         /\ upg2run_done \in BOOLEAN /\ mov2upg_done \in BOOLEAN
         /\ FlashOK(flash) /\ Upgrade = (IF InPlace THEN 1 ELSE N + 1)
         /\ ~ InPlace /\ cmd.c2 # "FINALISE" =>
              (Swapping \/ (AtWork /\ ~ Continue)) /\ flash[Verify].kind # "crc"
         /\ ~ InPlace /\ cmd.c2 \in {"RUN2MOV", "UPG2RUN", "MOV2UPG"} => Swapping
<1> USE DEF Base
<1>1. AtWork
  BY DEF AtWork
<1>2. Comes(flash, Upgrade, m, cmd)
  BY <1>1 DEF ComeInv, Copied
<1>3. m \in Images
  BY <1>2 DEF Comes
<1>4. m.size \in Int /\ 1 <= m.size /\ m.size <= N /\ N \in Int /\ 1 <= N /\ MaxLosses \in Nat
  BY <1>3, Constants
<1>5. losses \in Int /\ 0 <= losses /\ losses <= MaxLosses
  BY Commands
<1>6. Limit \in Int /\ N + 2 <= Limit /\ Limit <= 255 /\ N + 2 <= 255
  BY <1>4, <1>5 DEF Assumed, Ample, Limit
<1>7. /\ cmd.c2 \in C2 /\ cmd.c3 \in Int /\ 0 <= cmd.c3 /\ cmd.c2 # "SWP_END"
  BY Commands DEF CmdInv
<1>8. ~ InPlace => cmd = LastCmd /\ cmd.c3 <= Limit
  BY <1>1 DEF CmdInv
<1>9. InPlace => cmd.c2 \in {"EMPTY", "UPG2RUN", "FINALISE"} /\ cmd.c3 <= N + 1
  <2>1. InPlace => cmd.c3 <= m.size + 1
    BY <1>1 DEF ComeInv
  <2>2. InPlace => cmd.c2 \in {"EMPTY", "UPG2RUN", "FINALISE"}
    BY <1>1, <1>7 DEF CmdInv
  <2> QED BY <1>4, <1>7, <2>1, <2>2
<1>10. ~ InPlace /\ cmd.c2 # "FINALISE" =>
         (Swapping \/ (AtWork /\ ~ Continue)) /\ flash[Verify].kind # "crc"
  <2>1. ~ InPlace /\ cmd.c2 # "FINALISE" => Swapping \/ (AtWork /\ ~ Continue)
    BY <1>1, <1>7, <1>8 DEF Swapping, Continue, C2
  <2> QED BY <2>1 DEF VerifyInv
<1>11. ~ InPlace /\ cmd.c2 \in {"RUN2MOV", "UPG2RUN", "MOV2UPG"} => Swapping
  BY <1>8 DEF Swapping
<1>12. /\ in_place = InPlace /\ upgr_slt = Upgrade /\ dfu = None
       /\ upg2run_done \in BOOLEAN /\ mov2upg_done \in BOOLEAN
       /\ FlashOK(flash) /\ Upgrade = (IF InPlace THEN 1 ELSE N + 1)
  BY TypeFlash DEF CmdInv, TypeOK
<1>13. cmd.c2 \in {"EMPTY", "RUN2MOV", "UPG2RUN", "MOV2UPG", "FINALISE"}
  BY <1>7 DEF C2
<1> QED BY <1>1, <1>2, <1>3, <1>4, <1>6, <1>7, <1>8, <1>9, <1>10, <1>11, <1>12, <1>13

(* A command after another one: what a step of the switch in zb_img_swap   *)
(* owes to the rest of IInv.                                               *)
LEMMA CmdNext ==
  ASSUME NEW m \in Images \cup {None}, Assumed, Base(m), at = "cmd",
         at' \in {"copy", "log", "unsign"}, DOMAIN flash' = DOMAIN flash,
         log' = log, losses' = losses, dfu' = dfu,
         in_place' = in_place, upgr_slt' = upgr_slt,
         cmd' \in Command, cmd'.c2 # "EMPTY",
         at' = "copy" => cmd'.c2 \in {"RUN2MOV", "UPG2RUN", "MOV2UPG"} /\ job' \in Jobs,
         at' = "unsign" => cmd'.c2 = "SWP_END" /\ HasHdr(Run)',
         cmd'.c2 = "RUN2MOV" => cmd'.c3 < N /\ upg2run_done' = FALSE,
         cmd.c2 = "EMPTY" => cmd'.c2 \in {"RUN2MOV", "UPG2RUN"},
         ~ InPlace => /\ Pos(cmd) < Pos(cmd')
                      /\ cmd'.c2 = "SWP_END" <=> cmd.c2 = "FINALISE"
                      /\ cmd'.c3 <= Limit
                      /\ cmd'.c2 \in {"UPG2RUN", "MOV2UPG"} => cmd'.c3 + Undone' <= Limit,
         InPlace => /\ cmd'.c2 \in {"UPG2RUN", "FINALISE", "SWP_END"}
                    /\ upgr_ok' /\ mov2upg_done'
  PROVE  CmdInv' /\ LogInv' /\ AtWork'
<1> USE DEF Base
<1>1. /\ InPlace' = InPlace /\ Upgrade' = Upgrade /\ LastCmd' = LastCmd
      /\ Continue' = Continue /\ Swapping' = Swapping
  BY SameLog
<1>2. LogInv'
  BY LogKept
<1>3. AtWork'
  BY DEF AtWork
<1>4. /\ in_place = InPlace /\ upgr_slt = Upgrade /\ dfu = None
      /\ ~ InPlace => cmd = LastCmd
      /\ cmd.c2 \in {"EMPTY", "RUN2MOV", "UPG2RUN", "MOV2UPG", "FINALISE"}
  BY Working
<1>5. Limit' = Limit /\ Pos(LastCmd)' = Pos(LastCmd) /\ Pos(cmd)' = Pos(cmd')
  BY <1>1 DEF Limit, Pos
<1>6. ~ InPlace => Continue \/ log = <<>>
  BY <1>4 DEF Continue, CmdInv
<1>7. ~ InPlace => /\ Pos(LastCmd) < Pos(cmd')
                   /\ cmd'.c2 = "SWP_END" <=> LastCmd.c2 = "FINALISE"
  BY <1>4
<1>8. Jobs' = Jobs
  BY DEF Jobs
<1>9. at' = "unsign" /\ ~ InPlace => ~ Swapping
  BY <1>7 DEF Swapping
<1>10. at' = "unsign" => ~ Swapping
  BY <1>9 DEF Swapping
<1>11. CmdInv'
  BY <1>1, <1>3, <1>4, <1>5, <1>6, <1>7, <1>8, <1>10 DEF CmdInv
<1> QED BY <1>2, <1>3, <1>11

(* No sector is moved.                                                     *)
LEMMA ComeNext ==
  ASSUME NEW m \in Images \cup {None}, Assumed, Base(m), at = "cmd", flash' = flash,
         at' \in {"log", "unsign"}, log' = log, AtWork',
         InRunBy(cmd', 0) => InRunBy(cmd, 0),
         \A i \in 0..m.size - 1 : InRunBy(cmd, i) => InRunBy(cmd', i),
         upgr_key' = upgr_key, upgr_ok' = upgr_ok,
         upg2run_done' => cmd'.c3 >= m.size,
         cmd'.c2 = "MOV2UPG" /\ mov2upg_done' /\ cmd'.c3 >= m.size => upg2run_done',
         InPlace /\ cmd'.c2 = "UPG2RUN" /\ ~ upg2run_done' => cmd'.c3 <= m.size,
         InPlace => cmd'.c3 <= m.size + 1
  PROVE  ComeInv(m)' /\ JobInv'
<1> USE DEF Base
<1>1. DOMAIN flash' = DOMAIN flash
  OBVIOUS
<1>2. /\ InPlace' = InPlace /\ Upgrade' = Upgrade /\ LastCmd' = LastCmd
      /\ Continue' = Continue
  BY <1>1, SameLog
<1>3. AtWork /\ Comes(flash, Upgrade, m, cmd)
  BY Working
<1>4. Copied' = flash
  BY DEF Copied
<1>5. Comes(flash, Upgrade, m, cmd')
  BY <1>3, ComesOn
<1>6. Comes(Copied', Upgrade', m, cmd')
  BY <1>2, <1>4, <1>5
<1>7. Continue' => Comes(flash', N + 1, m, LastCmd')
  BY <1>2 DEF ComeInv
<1>8. upgr_key \in {None, m} /\ (upgr_ok /\ m.enc => upgr_key = m)
  BY <1>3 DEF ComeInv
<1> QED BY <1>2, <1>6, <1>7, <1>8 DEF ComeInv, JobInv

LEMMA RunInfo ==
  ASSUME run_confirmed \in BOOLEAN, TypeOK, ReadRunInfo
  PROVE  run_confirmed' \in BOOLEAN
  BY DEF ReadRunInfo

LEMMA StartMoveBase ==
  ASSUME NEW m \in Images \cup {None}, Assumed, Base(m), StartMove
  PROVE  Base(m)'
<1> USE DEF Base
<1>1. /\ at = "cmd" /\ cmd.c2 = "EMPTY" /\ flash' = flash /\ log' = log
      /\ losses' = losses /\ dfu' = dfu
      /\ UNCHANGED <<job, upgr_ok, upgr_key, in_place, upgr_slt,
                     upg2run_done, mov2upg_done, pending>>
  BY DEF StartMove
<1>2. DOMAIN flash' = DOMAIN flash
  BY <1>1
<1>3. /\ InPlace' = InPlace /\ Upgrade' = Upgrade /\ Swapping' = Swapping
      /\ Continue' = Continue
  BY <1>1, <1>2, SameLog
<1>4. /\ AtWork /\ m \in Images /\ m.size \in Int /\ 1 <= m.size /\ m.size <= N
      /\ cmd.c3 \in Int /\ 0 <= cmd.c3 /\ ~ InPlace => cmd = LastCmd
  BY <1>1, Working
<1>5. /\ Limit \in Int /\ N + 2 <= Limit /\ Limit <= 255
      /\ N \in Int /\ 1 <= N /\ N + 2 <= 255
      /\ in_place = InPlace /\ upgr_slt = Upgrade /\ FlashOK(flash)
      /\ upg2run_done \in BOOLEAN /\ mov2upg_done \in BOOLEAN
  BY <1>1, Working
<1>6. /\ cmd = NoCmd /\ upg2run_done = FALSE
      /\ InPlace => upgr_ok /\ mov2upg_done
  BY <1>1, <1>4 DEF CmdInv
<1>7. /\ cmd' \in Command /\ at' = "log"
      /\ \/ cmd'.c2 = "UPG2RUN" /\ cmd'.c3 = 0
         \/ ~ InPlace /\ cmd'.c2 = "RUN2MOV" /\ 0 <= cmd'.c3 /\ cmd'.c3 < N /\ cmd'.c3 \in Int
      /\ run_confirmed' \in BOOLEAN
  <2>1. run_confirmed \in BOOLEAN
    BY DEF TypeOK
  <2>2. CASE Goto("log", "UPG2RUN", 0) /\ UNCHANGED run_confirmed
    BY <2>1, <2>2, GotoIs DEF C2
  <2>3. CASE ~ InPlace /\ HasHdr(Run) /\ Goto("log", "RUN2MOV", Hdr(Run).size - 1) /\ ReadRunInfo
    <3>1. Hdr(Run).size - 1 \in Int /\ 0 <= Hdr(Run).size - 1 /\ Hdr(Run).size - 1 < N
          /\ Hdr(Run).size - 1 <= 255
      BY <1>5, <2>3, TypeFlash, HeaderIs
    <3>2. "RUN2MOV" \in C2
      BY DEF C2
    <3>3. at' = "log" /\ cmd'.c2 = "RUN2MOV" /\ cmd'.c3 = Hdr(Run).size - 1 /\ cmd' \in Command
      BY <2>3, <3>1, <3>2, GotoIs
    <3> QED BY <2>1, <2>3, <3>1, <3>3, RunInfo
  <2> QED BY <1>5, <2>2, <2>3 DEF StartMove
<1>8. CmdInv' /\ LogInv' /\ AtWork'
  <2>1. Pos(cmd) = 0 /\ 0 < Pos(cmd')
    BY <1>1, <1>5, <1>7 DEF Pos
  <2>2. Undone' \in {0, 1, 2}
    BY <1>1, <1>5 DEF Undone
  <2>3. /\ at' \in {"copy", "log", "unsign"}
        /\ in_place' = in_place /\ upgr_slt' = upgr_slt
        /\ cmd'.c2 # "EMPTY"
        /\ at' = "copy" => cmd'.c2 \in {"RUN2MOV", "UPG2RUN", "MOV2UPG"} /\ job' \in Jobs
        /\ at' = "unsign" => cmd'.c2 = "SWP_END" /\ HasHdr(Run)'
        /\ cmd'.c2 = "RUN2MOV" => cmd'.c3 < N /\ upg2run_done' = FALSE
        /\ cmd.c2 = "EMPTY" => cmd'.c2 \in {"RUN2MOV", "UPG2RUN"}
    BY <1>1, <1>6, <1>7
  <2>4. ~ InPlace => /\ Pos(cmd) < Pos(cmd')
                     /\ cmd'.c2 = "SWP_END" <=> cmd.c2 = "FINALISE"
                     /\ cmd'.c3 <= Limit
                     /\ cmd'.c2 \in {"UPG2RUN", "MOV2UPG"} => cmd'.c3 + Undone' <= Limit
    BY <1>1, <1>5, <1>7, <2>1, <2>2
  <2>5. InPlace => /\ cmd'.c2 \in {"UPG2RUN", "FINALISE", "SWP_END"}
                   /\ upgr_ok' /\ mov2upg_done'
    BY <1>1, <1>6, <1>7
  <2> QED BY <1>1, <1>2, <1>7, <2>3, <2>4, <2>5, CmdNext
<1>9. ComeInv(m)' /\ JobInv'
  <2>1. \A i \in Nat : ~ InRunBy(cmd, i) /\ ~ InRunBy(cmd', i)
    BY <1>1, <1>7 DEF InRunBy
  <2> QED BY <1>1, <1>4, <1>6, <1>7, <1>8, <2>1, ComeNext
<1>10. VerifyInv'
  BY <1>1, <1>3, <1>4, VerifyKept
<1>11. TypeOK'
  <2>1. Typed
    BY TypedIs
  <2>2. Typed'
    BY <1>1, <1>2, <1>3, <1>7, <2>1 DEF Typed, Command
  <2> QED BY <1>1, <1>2, <1>5, <2>2, TypeKept
<1> QED BY <1>8, <1>9, <1>10, <1>11

LEMMA Upg2RunSkipBase ==
  ASSUME NEW m \in Images \cup {None}, Assumed, Base(m), Upg2RunSkip
  PROVE  Base(m)'
<1> USE DEF Base
<1>1. /\ at = "cmd" /\ cmd.c2 = "UPG2RUN" /\ upg2run_done
      /\ Goto("log", IF in_place THEN "FINALISE" ELSE "MOV2UPG", cmd.c3)
      /\ flash' = flash /\ log' = log /\ losses' = losses /\ dfu' = dfu
      /\ UNCHANGED <<job, upgr_ok, upgr_key, in_place, upgr_slt, run_confirmed,
                     upg2run_done, mov2upg_done, pending>>
  BY DEF Upg2RunSkip
<1>2. DOMAIN flash' = DOMAIN flash
  BY <1>1
<1>3. /\ InPlace' = InPlace /\ Upgrade' = Upgrade /\ Swapping' = Swapping
      /\ Continue' = Continue
  BY <1>1, <1>2, SameLog
<1>4. /\ AtWork /\ m \in Images /\ m.size \in Int /\ 1 <= m.size /\ m.size <= N
      /\ cmd.c3 \in Int /\ 0 <= cmd.c3
      /\ ~ InPlace => cmd = LastCmd /\ cmd.c3 <= Limit
      /\ InPlace => cmd.c3 <= N + 1
  BY <1>1, Working
<1>5. /\ Limit \in Int /\ N + 2 <= Limit /\ Limit <= 255
      /\ N \in Int /\ 1 <= N /\ N + 2 <= 255
      /\ in_place = InPlace /\ upgr_slt = Upgrade /\ FlashOK(flash)
      /\ upg2run_done \in BOOLEAN /\ mov2upg_done \in BOOLEAN
  BY <1>1, Working
<1>6. /\ InPlace => upgr_ok /\ mov2upg_done /\ cmd.c3 <= m.size + 1
      /\ cmd.c3 >= m.size
      /\ ~ InPlace => cmd.c3 + Undone <= Limit
  BY <1>1, <1>4 DEF CmdInv, ComeInv
<1>7. /\ cmd' \in Command /\ at' = "log" /\ cmd'.c3 = cmd.c3
      /\ cmd'.c2 = IF InPlace THEN "FINALISE" ELSE "MOV2UPG"
  <2>1. cmd.c3 <= 255
    BY <1>4, <1>5
  <2>2. "FINALISE" \in C2 /\ "MOV2UPG" \in C2
    BY DEF C2
  <2> QED BY <1>1, <1>4, <1>5, <2>1, <2>2, GotoIs
<1>8. CmdInv' /\ LogInv' /\ AtWork'
  <2>1. ~ InPlace => Pos(cmd) < Pos(cmd')
    BY <1>1, <1>4, <1>5, <1>7 DEF Pos
  <2>2. Undone' = Undone
    BY <1>1 DEF Undone
  <2>3. /\ at' \in {"copy", "log", "unsign"}
        /\ in_place' = in_place /\ upgr_slt' = upgr_slt
        /\ cmd'.c2 # "EMPTY"
        /\ at' = "copy" => cmd'.c2 \in {"RUN2MOV", "UPG2RUN", "MOV2UPG"} /\ job' \in Jobs
        /\ at' = "unsign" => cmd'.c2 = "SWP_END" /\ HasHdr(Run)'
        /\ cmd'.c2 = "RUN2MOV" => cmd'.c3 < N /\ upg2run_done' = FALSE
        /\ cmd.c2 = "EMPTY" => cmd'.c2 \in {"RUN2MOV", "UPG2RUN"}
    BY <1>1, <1>6, <1>7
  <2>4. ~ InPlace => /\ Pos(cmd) < Pos(cmd')
                     /\ cmd'.c2 = "SWP_END" <=> cmd.c2 = "FINALISE"
                     /\ cmd'.c3 <= Limit
                     /\ cmd'.c2 \in {"UPG2RUN", "MOV2UPG"} => cmd'.c3 + Undone' <= Limit
    BY <1>1, <1>4, <1>5, <1>6, <1>7, <2>1, <2>2
  <2>5. InPlace => /\ cmd'.c2 \in {"UPG2RUN", "FINALISE", "SWP_END"}
                   /\ upgr_ok' /\ mov2upg_done'
    BY <1>1, <1>6, <1>7
  <2> QED BY <1>1, <1>2, <1>7, <2>3, <2>4, <2>5, CmdNext
<1>9. ComeInv(m)' /\ JobInv'
  <2>1. /\ InRunBy(cmd', 0) => InRunBy(cmd, 0)
        /\ \A i \in 0..m.size - 1 : InRunBy(cmd, i) => InRunBy(cmd', i)
    BY <1>1, <1>4, <1>6, <1>7 DEF InRunBy
  <2> QED BY <1>1, <1>4, <1>6, <1>7, <1>8, <2>1, ComeNext
<1>10. VerifyInv'
  BY <1>1, <1>3, <1>4, VerifyKept
<1>11. TypeOK'
  <2>1. Typed
    BY TypedIs
  <2>2. Typed'
    BY <1>1, <1>2, <1>3, <1>7, <2>1 DEF Typed, Command
  <2> QED BY <1>1, <1>2, <1>5, <2>2, TypeKept
<1> QED BY <1>8, <1>9, <1>10, <1>11

LEMMA Mov2UpgSkipBase ==
  ASSUME NEW m \in Images \cup {None}, Assumed, Base(m), Mov2UpgSkip
  PROVE  Base(m)'
<1> USE DEF Base
<1>1. /\ at = "cmd" /\ cmd.c2 = "MOV2UPG" /\ mov2upg_done
      /\ IF upg2run_done THEN Goto("log", "FINALISE", cmd.c3)
                         ELSE Goto("log", "UPG2RUN", cmd.c3 + 1)
      /\ flash' = flash /\ log' = log /\ losses' = losses /\ dfu' = dfu
      /\ UNCHANGED <<job, upgr_ok, upgr_key, in_place, upgr_slt, run_confirmed,
                     upg2run_done, mov2upg_done, pending>>
  BY DEF Mov2UpgSkip
<1>2. DOMAIN flash' = DOMAIN flash
  BY <1>1
<1>3. /\ InPlace' = InPlace /\ Upgrade' = Upgrade /\ Swapping' = Swapping
      /\ Continue' = Continue
  BY <1>1, <1>2, SameLog
<1>4. /\ AtWork /\ m \in Images /\ m.size \in Int /\ 1 <= m.size /\ m.size <= N
      /\ cmd.c3 \in Int /\ 0 <= cmd.c3
      /\ ~ InPlace => cmd = LastCmd /\ cmd.c3 <= Limit
      /\ ~ InPlace
  BY <1>1, Working
<1>5. /\ Limit \in Int /\ N + 2 <= Limit /\ Limit <= 255
      /\ N \in Int /\ 1 <= N /\ N + 2 <= 255
      /\ in_place = InPlace /\ upgr_slt = Upgrade /\ FlashOK(flash)
      /\ upg2run_done \in BOOLEAN /\ mov2upg_done \in BOOLEAN
  BY <1>1, Working
<1>6. /\ cmd.c3 >= m.size => upg2run_done
      /\ upg2run_done => cmd.c3 >= m.size
      /\ cmd.c3 + Undone <= Limit
  BY <1>1, <1>4 DEF CmdInv, ComeInv
<1>7. /\ cmd' \in Command /\ at' = "log"
      /\ \/ upg2run_done /\ cmd'.c2 = "FINALISE" /\ cmd'.c3 = cmd.c3
         \/ ~ upg2run_done /\ cmd'.c2 = "UPG2RUN" /\ cmd'.c3 = cmd.c3 + 1
  <2>1. cmd.c3 <= 255 /\ (~ upg2run_done => cmd.c3 + 1 <= 255 /\ 0 <= cmd.c3 + 1 /\ cmd.c3 + 1 \in Int)
    BY <1>4, <1>5, <1>6
  <2>2. "FINALISE" \in C2 /\ "UPG2RUN" \in C2
    BY DEF C2
  <2>3. upg2run_done => at' = "log" /\ cmd'.c2 = "FINALISE" /\ cmd'.c3 = cmd.c3 /\ cmd' \in Command
    BY <1>1, <1>4, <2>1, <2>2, GotoIs
  <2>4. ~ upg2run_done => at' = "log" /\ cmd'.c2 = "UPG2RUN" /\ cmd'.c3 = cmd.c3 + 1 /\ cmd' \in Command
    BY <1>1, <1>4, <2>1, <2>2, GotoIs
  <2> QED BY <2>3, <2>4
<1>8. CmdInv' /\ LogInv' /\ AtWork'
  <2>1. Pos(cmd) < Pos(cmd')
    BY <1>1, <1>4, <1>5, <1>7 DEF Pos
  <2>2. Undone' = Undone /\ Undone \in {0, 1, 2} /\ (mov2upg_done => Undone <= 1)
    BY <1>1, <1>5 DEF Undone
  <2>3. /\ at' \in {"copy", "log", "unsign"}
        /\ in_place' = in_place /\ upgr_slt' = upgr_slt
        /\ cmd'.c2 # "EMPTY"
        /\ at' = "copy" => cmd'.c2 \in {"RUN2MOV", "UPG2RUN", "MOV2UPG"} /\ job' \in Jobs
        /\ at' = "unsign" => cmd'.c2 = "SWP_END" /\ HasHdr(Run)'
        /\ cmd'.c2 = "RUN2MOV" => cmd'.c3 < N /\ upg2run_done' = FALSE
        /\ cmd.c2 = "EMPTY" => cmd'.c2 \in {"RUN2MOV", "UPG2RUN"}
    BY <1>1, <1>6, <1>7
  <2>4. ~ InPlace => /\ Pos(cmd) < Pos(cmd')
                     /\ cmd'.c2 = "SWP_END" <=> cmd.c2 = "FINALISE"
                     /\ cmd'.c3 <= Limit
                     /\ cmd'.c2 \in {"UPG2RUN", "MOV2UPG"} => cmd'.c3 + Undone' <= Limit
    BY <1>1, <1>4, <1>5, <1>6, <1>7, <2>1, <2>2
  <2>5. InPlace => /\ cmd'.c2 \in {"UPG2RUN", "FINALISE", "SWP_END"}
                   /\ upgr_ok' /\ mov2upg_done'
    BY <1>4
  <2> QED BY <1>1, <1>2, <1>7, <2>3, <2>4, <2>5, CmdNext
<1>9. ComeInv(m)' /\ JobInv'
  <2>1. /\ InRunBy(cmd', 0) => InRunBy(cmd, 0)
        /\ \A i \in 0..m.size - 1 : InRunBy(cmd, i) => InRunBy(cmd', i)
    BY <1>1, <1>4, <1>6, <1>7 DEF InRunBy
  <2> QED BY <1>1, <1>4, <1>6, <1>7, <1>8, <2>1, ComeNext
<1>10. VerifyInv'
  BY <1>1, <1>3, <1>4, VerifyKept
<1>11. TypeOK'
  <2>1. Typed
    BY TypedIs
  <2>2. Typed'
    BY <1>1, <1>2, <1>3, <1>7, <2>1 DEF Typed, Command
  <2> QED BY <1>1, <1>2, <1>5, <2>2, TypeKept
<1> QED BY <1>8, <1>9, <1>10, <1>11

LEMMA FinaliseBase ==
  ASSUME NEW m \in Images \cup {None}, Assumed, Base(m), Finalise
  PROVE  Base(m)'
<1> USE DEF Base
<1>1. /\ at = "cmd" /\ cmd.c2 = "FINALISE" /\ ReadRunInfo
      /\ \/ HasHdr(Run) /\ Goto("unsign", "SWP_END", cmd.c3)
         \/ Goto("log", "SWP_END", cmd.c3)
      /\ flash' = flash /\ log' = log /\ losses' = losses /\ dfu' = dfu
      /\ UNCHANGED <<job, upgr_ok, upgr_key, in_place, upgr_slt,
                     upg2run_done, mov2upg_done, pending>>
  BY DEF Finalise
<1>2. DOMAIN flash' = DOMAIN flash
  BY <1>1
<1>3. /\ InPlace' = InPlace /\ Upgrade' = Upgrade /\ Swapping' = Swapping
      /\ Continue' = Continue
  BY <1>1, <1>2, SameLog
<1>4. /\ AtWork /\ m \in Images /\ m.size \in Int /\ 1 <= m.size /\ m.size <= N
      /\ cmd.c3 \in Int /\ 0 <= cmd.c3
      /\ ~ InPlace => cmd = LastCmd /\ cmd.c3 <= Limit
      /\ InPlace => cmd.c3 <= N + 1
  BY <1>1, Working
<1>5. /\ Limit \in Int /\ N + 2 <= Limit /\ Limit <= 255
      /\ N \in Int /\ 1 <= N /\ N + 2 <= 255
      /\ in_place = InPlace /\ upgr_slt = Upgrade /\ FlashOK(flash)
      /\ upg2run_done \in BOOLEAN /\ mov2upg_done \in BOOLEAN
  BY <1>1, Working
<1>6. /\ InPlace => upgr_ok /\ mov2upg_done /\ cmd.c3 <= m.size + 1
      /\ upg2run_done => cmd.c3 >= m.size
  BY <1>1, <1>4 DEF CmdInv, ComeInv
<1>7. /\ cmd' \in Command /\ cmd'.c3 = cmd.c3 /\ cmd'.c2 = "SWP_END"
      /\ at' \in {"unsign", "log"} /\ (at' = "unsign" => HasHdr(Run))
  <2>1. cmd.c3 <= 255
    BY <1>4, <1>5
  <2>2. "SWP_END" \in C2
    BY DEF C2
  <2>3. CASE HasHdr(Run) /\ Goto("unsign", "SWP_END", cmd.c3)
    BY <1>4, <2>1, <2>2, <2>3, GotoIs
  <2>4. CASE Goto("log", "SWP_END", cmd.c3)
    <3>1. cmd' \in Command /\ cmd'.c3 = cmd.c3 /\ cmd'.c2 = "SWP_END" /\ at' = "log"
      BY <1>4, <2>1, <2>2, <2>4, GotoIs
    <3> QED BY <3>1
  <2> QED BY <1>1, <2>3, <2>4
<1>8. CmdInv' /\ LogInv' /\ AtWork'
  <2>1. Pos(cmd) < Pos(cmd')
    BY <1>1, <1>4, <1>5, <1>7 DEF Pos
  <2>2. HasHdr(Run)' = HasHdr(Run)
    BY <1>1 DEF HasHdr, Run
  <2>3. /\ at' \in {"copy", "log", "unsign"}
        /\ in_place' = in_place /\ upgr_slt' = upgr_slt
        /\ cmd'.c2 # "EMPTY"
        /\ at' = "copy" => cmd'.c2 \in {"RUN2MOV", "UPG2RUN", "MOV2UPG"} /\ job' \in Jobs
        /\ at' = "unsign" => cmd'.c2 = "SWP_END" /\ HasHdr(Run)'
        /\ cmd'.c2 = "RUN2MOV" => cmd'.c3 < N /\ upg2run_done' = FALSE
        /\ cmd.c2 = "EMPTY" => cmd'.c2 \in {"RUN2MOV", "UPG2RUN"}
    BY <1>1, <1>6, <1>7, <2>2
  <2>4. ~ InPlace => /\ Pos(cmd) < Pos(cmd')
                     /\ cmd'.c2 = "SWP_END" <=> cmd.c2 = "FINALISE"
                     /\ cmd'.c3 <= Limit
                     /\ cmd'.c2 \in {"UPG2RUN", "MOV2UPG"} => cmd'.c3 + Undone' <= Limit
    BY <1>1, <1>4, <1>7, <2>1
  <2>5. InPlace => /\ cmd'.c2 \in {"UPG2RUN", "FINALISE", "SWP_END"}
                   /\ upgr_ok' /\ mov2upg_done'
    BY <1>1, <1>6, <1>7
  <2> QED BY <1>1, <1>2, <1>7, <2>3, <2>4, <2>5, CmdNext
<1>9. ComeInv(m)' /\ JobInv'
  <2>1. /\ InRunBy(cmd', 0) => InRunBy(cmd, 0)
        /\ \A i \in 0..m.size - 1 : InRunBy(cmd, i) => InRunBy(cmd', i)
    BY <1>1, <1>7 DEF InRunBy
  <2> QED BY <1>1, <1>4, <1>6, <1>7, <1>8, <2>1, ComeNext
<1>10. VerifyInv'
  BY <1>1, <1>3, <1>4, VerifyKept
<1>11. TypeOK'
  <2>1. Typed
    BY TypedIs
  <2>2. run_confirmed' \in BOOLEAN
    BY <1>1, <2>1, RunInfo DEF Typed
  <2>3. Typed'
    BY <1>1, <1>2, <1>3, <1>7, <2>1, <2>2 DEF Typed, Command
  <2> QED BY <1>1, <1>2, <1>5, <2>3, TypeKept
<1> QED BY <1>8, <1>9, <1>10, <1>11

(* A command has erased the sector it is about, unless the image that it   *)
(* would move is over and the sector is none of the slot.                  *)
ErasedOne(s) == s \in DOMAIN flash /\ Updated(flash, flash', s, Blank)

(* zb_flash_erase of sector n of a slot.                                   *)
LEMMA ErasedFlash ==
  ASSUME TypeOK, NEW slt, NEW n, slt + n \in DOMAIN flash \/ ~ (n < N),
         flash' = ErasedIn(slt, n)
  PROVE  /\ n < N => ErasedOne(slt + n)
         /\ ~ (n < N) => flash' = flash
         /\ DOMAIN flash' = DOMAIN flash /\ FlashOK(flash')
<1>1. CASE n < N
  <2>1. PICK s \in {slt + n} : TRUE
    OBVIOUS
  <2>2. flash' = [flash EXCEPT ![s] = Blank] /\ s \in DOMAIN flash /\ s = slt + n
    BY <1>1, <2>1 DEF ErasedIn
  <2>3. Updated(flash, [flash EXCEPT ![s] = Blank], s, Blank)
    BY <2>2, UpdatedBy
  <2>4. Blank \in Plain /\ FlashOK(flash)
    BY TypeFlash DEF Plain
  <2>5. Updated(flash, flash', s, Blank)
    BY <2>2, <2>3
  <2>6. FlashOK(flash') /\ DOMAIN flash' = DOMAIN flash
    BY <2>2, <2>4, <2>5, UpdatedOK DEF Updated
  <2> QED BY <1>1, <2>2, <2>5, <2>6 DEF ErasedOne
<1>2. CASE ~ (n < N)
  BY <1>2, TypeFlash DEF ErasedIn
<1> QED BY <1>1, <1>2

LEMMA VerifyNext ==
  ASSUME NEW m \in Images \cup {None}, Assumed, Base(m), at = "cmd",
         cmd.c2 # "FINALISE", log' = log, DOMAIN flash' = DOMAIN flash, AtWork',
         flash' = flash \/ \E s : ErasedOne(s)
  PROVE  VerifyInv'
<1>1. InPlace' = InPlace /\ Swapping' = Swapping /\ Continue' = Continue
  BY SameLog
<1>2. CASE InPlace
  BY <1>1, <1>2 DEF VerifyInv
<1>3. CASE flash' = flash
  BY <1>1, <1>3, Working, VerifyKept DEF Base
<1>4. CASE ~ InPlace /\ \E s : ErasedOne(s)
  <2>1. PICK s : s \in DOMAIN flash /\ Updated(flash, flash', s, Blank)
    BY <1>4 DEF ErasedOne
  <2>2. Blank \in Plain
    BY DEF Plain
  <2> QED BY <1>4, <2>1, <2>2, Working, VerifyWork DEF Base
<1> QED BY <1>2, <1>3, <1>4

(* A sector that is erased and not filled again.                           *)
LEMMA ComeErased ==
  ASSUME NEW m \in Images \cup {None}, Assumed, Base(m), at = "cmd", at' = "log",
         log' = log, AtWork', DOMAIN flash' = DOMAIN flash,
         flash' = flash \/ \E s : ErasedOne(s) /\ Spared(Upgrade, m, cmd, s),
         InRunBy(cmd', 0) => InRunBy(cmd, 0),
         \A i \in 0..m.size - 1 : InRunBy(cmd, i) => InRunBy(cmd', i),
         upgr_key' \in {None, m}, upgr_ok' /\ m.enc => upgr_key' = m,
         upg2run_done' => cmd'.c3 >= m.size,
         cmd'.c2 = "MOV2UPG" /\ mov2upg_done' /\ cmd'.c3 >= m.size => upg2run_done',
         InPlace /\ cmd'.c2 = "UPG2RUN" /\ ~ upg2run_done' => cmd'.c3 <= m.size,
         InPlace => cmd'.c3 <= m.size + 1
  PROVE  ComeInv(m)' /\ JobInv'
<1> USE DEF Base
<1>1. /\ InPlace' = InPlace /\ Upgrade' = Upgrade /\ LastCmd' = LastCmd
      /\ Continue' = Continue
  BY SameLog
<1>2. /\ AtWork /\ Comes(flash, Upgrade, m, cmd) /\ m \in Images
      /\ m.size \in Int /\ 1 <= m.size /\ m.size <= N /\ N \in Int
      /\ ~ InPlace => cmd = LastCmd /\ Upgrade = N + 1
  BY Working
<1>3. Copied' = flash'
  BY DEF Copied
<1>4. Comes(flash', Upgrade, m, cmd)
  <2>1. CASE flash' = flash
    BY <1>2, <2>1
  <2>2. CASE \E s : ErasedOne(s) /\ Spared(Upgrade, m, cmd, s)
    <3>1. PICK s : Updated(flash, flash', s, Blank) /\ Spared(Upgrade, m, cmd, s)
      BY <2>2 DEF ErasedOne
    <3>2. Run \in DOMAIN flash /\ \A i \in 0..m.size - 1 : Upgrade + i \in DOMAIN flash
      BY <1>2, TypeFlash
    <3> QED BY <1>2, <3>1, <3>2, ComesKept
  <2> QED BY <2>1, <2>2
<1>5. Comes(flash', Upgrade, m, cmd')
  BY <1>4, ComesOn
<1>6. Comes(Copied', Upgrade', m, cmd')
  BY <1>1, <1>3, <1>5
<1>7. Continue' => Comes(flash', N + 1, m, LastCmd')
  <2>1. Continue => ~ InPlace
    BY DEF Continue
  <2> QED BY <1>1, <1>2, <1>4, <2>1
<1> QED BY <1>1, <1>6, <1>7 DEF ComeInv, JobInv

(* A sector that is erased and then filled from another.                   *)
LEMMA ComeMoved ==
  ASSUME NEW m \in Images \cup {None}, Assumed, Base(m), at = "cmd", at' = "copy",
         log' = log, AtWork', DOMAIN flash' = DOMAIN flash,
         NEW s, ErasedOne(s), Spared(Upgrade, m, cmd, s),
         job'.to = s, job'.from \in DOMAIN flash, job'.from # s,
         flash[job'.from] \in Plain,
         ~ InPlace => s = Target(cmd) /\ Swapping /\ cmd.c3 < N,
         InRunBy(cmd', 0) =>
           \/ InRunBy(cmd, 0)
           \/ s = Run /\ Crypted(flash[job'.from], job'.key) = Sec(m, 0, RunForm(m)),
         \A i \in 0..m.size - 1 : InRunBy(cmd, i) => InRunBy(cmd', i),
         upgr_key' \in {None, m}, upgr_ok' /\ m.enc => upgr_key' = m,
         upg2run_done' => cmd'.c3 >= m.size,
         cmd'.c2 = "MOV2UPG" /\ mov2upg_done' /\ cmd'.c3 >= m.size => upg2run_done',
         InPlace /\ cmd'.c2 = "UPG2RUN" /\ ~ upg2run_done' => cmd'.c3 <= m.size,
         InPlace => cmd'.c3 <= m.size + 1
  PROVE  ComeInv(m)' /\ JobInv'
<1> USE DEF Base
<1>1. /\ InPlace' = InPlace /\ Upgrade' = Upgrade /\ LastCmd' = LastCmd
      /\ Continue' = Continue /\ Swapping' = Swapping
  BY SameLog
<1>2. /\ AtWork /\ Comes(flash, Upgrade, m, cmd) /\ m \in Images
      /\ m.size \in Int /\ 1 <= m.size /\ m.size <= N /\ N \in Int
      /\ ~ InPlace => cmd = LastCmd /\ Upgrade = N + 1
      /\ FlashOK(flash)
  BY Working
<1>3. Updated(flash, flash', s, Blank) /\ s \in DOMAIN flash
  BY DEF ErasedOne
<1>4. Run \in DOMAIN flash /\ \A i \in 0..m.size - 1 : Upgrade + i \in DOMAIN flash
  BY <1>2, TypeFlash
<1>5. PICK x \in {Crypted(flash[job'.from], job'.key)}, h \in {CopyOf(flash', job')} : TRUE
  OBVIOUS
<1>6. Updated(flash, h, s, x)
  BY <1>2, <1>3, <1>5, MoveIs
<1>7. Copied' = h
  BY <1>5 DEF Copied, CopyOf
<1>8. Comes(flash', Upgrade, m, cmd) /\ Comes(h, Upgrade, m, cmd)
  BY <1>2, <1>3, <1>4, <1>6, ComesKept
<1>9. Comes(h, Upgrade, m, cmd')
  <2>1. s = Run => h[Run] = x
    BY <1>6 DEF Updated
  <2>2. InRunBy(cmd', 0) => h[Run] = Sec(m, 0, RunForm(m))
    BY <1>5, <1>8, <2>1 DEF Comes
  <2>3. \A i \in 0..m.size - 1 : ~ InRunBy(cmd', i) => h[Upgrade + i] = Sec(m, i, "sent")
    BY <1>8 DEF Comes
  <2> QED BY <1>2, <2>2, <2>3 DEF Comes
<1>10. Comes(Copied', Upgrade', m, cmd')
  BY <1>1, <1>7, <1>9
<1>11. Continue' => Comes(flash', N + 1, m, LastCmd')
  <2>1. Continue => ~ InPlace
    BY DEF Continue
  <2> QED BY <1>1, <1>2, <1>8, <2>1
<1>12. JobInv'
  <2>1. flash'[job'.from] = flash[job'.from]
    BY <1>3 DEF Updated
  <2>2. flash'[job'.from] \in {Blank, Torn} \cup ImageSec
    BY <2>1 DEF Plain
  <2>3. Target(LastCmd)' = Target(LastCmd)
    BY <1>1 DEF Target, Run
  <2> QED BY <1>1, <1>2, <2>2, <2>3 DEF JobInv
<1>13. ComeInv(m)'
  BY <1>1, <1>10, <1>11 DEF ComeInv
<1> QED BY <1>12, <1>13

LEMMA Run2MovBase ==
  ASSUME NEW m \in Images \cup {None}, Assumed, Base(m), Run2Mov
  PROVE  Base(m)'
<1> USE DEF Base
<1>1. /\ at = "cmd" /\ cmd.c2 = "RUN2MOV" /\ ReadRunInfo
      /\ flash' = ErasedIn(Move, cmd.c3)
      /\ job' = [from |-> Run + cmd.c3, to |-> Move + cmd.c3, key |-> NoCrypt]
      /\ IF cmd.c3 = 0 THEN Goto("copy", "UPG2RUN", 0)
                       ELSE Goto("copy", "RUN2MOV", cmd.c3 - 1)
      /\ log' = log /\ losses' = losses /\ dfu' = dfu
      /\ UNCHANGED <<upgr_ok, upgr_key, in_place, upgr_slt,
                     upg2run_done, mov2upg_done, pending>>
  BY DEF Run2Mov, CopyJob
<1>2. /\ AtWork /\ m \in Images /\ m.size \in Int /\ 1 <= m.size /\ m.size <= N
      /\ cmd.c3 \in Int /\ 0 <= cmd.c3 /\ cmd.c3 < N /\ ~ InPlace
      /\ cmd = LastCmd /\ cmd.c3 <= Limit /\ Swapping
  BY <1>1, Working DEF CmdInv
<1>3. /\ Limit \in Int /\ N + 2 <= Limit /\ Limit <= 255
      /\ N \in Int /\ 1 <= N /\ N + 2 <= 255
      /\ in_place = InPlace /\ upgr_slt = Upgrade /\ FlashOK(flash)
      /\ upg2run_done \in BOOLEAN /\ mov2upg_done \in BOOLEAN /\ Upgrade = N + 1
  BY <1>1, <1>2, Working
<1>4. /\ Move + cmd.c3 = cmd.c3 + 1 /\ Run + cmd.c3 = cmd.c3 /\ Run = 0 /\ Verify = N
      /\ Move + cmd.c3 \in DOMAIN flash /\ Run + cmd.c3 \in DOMAIN flash
  <2>1. cmd.c3 \in 0..N - 1
    BY <1>2, <1>3
  <2> QED BY <1>2, <2>1, TypeFlash
<1>5. PICK s \in {Move + cmd.c3}, r \in {Run + cmd.c3} : TRUE
  OBVIOUS
<1>6. /\ s = cmd.c3 + 1 /\ r = cmd.c3 /\ s \in DOMAIN flash /\ r \in DOMAIN flash
      /\ job' = [from |-> r, to |-> s, key |-> NoCrypt]
  BY <1>1, <1>4, <1>5
<1>7. ErasedOne(s) /\ DOMAIN flash' = DOMAIN flash /\ FlashOK(flash')
  BY <1>1, <1>2, <1>4, <1>5, ErasedFlash
<1>8. /\ InPlace' = InPlace /\ Upgrade' = Upgrade /\ Swapping' = Swapping
      /\ Continue' = Continue
  BY <1>1, <1>7, SameLog
<1>9. /\ cmd' \in Command /\ at' = "copy"
      /\ \/ cmd.c3 = 0 /\ cmd'.c2 = "UPG2RUN" /\ cmd'.c3 = 0
         \/ cmd'.c2 = "RUN2MOV" /\ cmd'.c3 = cmd.c3 - 1 /\ 0 <= cmd'.c3
  <2>1. "RUN2MOV" \in C2 /\ "UPG2RUN" \in C2
    BY DEF C2
  <2>2. CASE cmd.c3 = 0
    BY <1>1, <2>1, <2>2, GotoIs
  <2>3. CASE cmd.c3 # 0
    <3>1. cmd.c3 - 1 \in Int /\ 0 <= cmd.c3 - 1 /\ cmd.c3 - 1 <= 255
      BY <1>2, <1>3, <2>3
    <3>2. at' = "copy" /\ cmd'.c2 = "RUN2MOV" /\ cmd'.c3 = cmd.c3 - 1 /\ cmd' \in Command
      BY <1>1, <2>1, <2>3, <3>1, GotoIs
    <3> QED BY <3>1, <3>2
  <2> QED BY <2>2, <2>3
<1>10. upg2run_done = FALSE
  BY <1>1 DEF CmdInv
<1>11. flash[r] \in Plain
  BY <1>2, <1>3, <1>4, <1>6 DEF FlashOK
<1>12. job' \in Jobs
  BY <1>6 DEF Jobs
<1>13. CmdInv' /\ LogInv' /\ AtWork'
  <2>1. Pos(cmd) < Pos(cmd')
    BY <1>1, <1>2, <1>3, <1>9 DEF Pos
  <2>2. Undone' = Undone /\ Undone \in {0, 1, 2}
    BY <1>1, <1>3 DEF Undone
  <2>3. /\ at' \in {"copy", "log", "unsign"}
        /\ in_place' = in_place /\ upgr_slt' = upgr_slt
        /\ cmd'.c2 # "EMPTY"
        /\ at' = "copy" => cmd'.c2 \in {"RUN2MOV", "UPG2RUN", "MOV2UPG"} /\ job' \in Jobs
        /\ at' = "unsign" => cmd'.c2 = "SWP_END" /\ HasHdr(Run)'
        /\ cmd'.c2 = "RUN2MOV" => cmd'.c3 < N /\ upg2run_done' = FALSE
        /\ cmd.c2 = "EMPTY" => cmd'.c2 \in {"RUN2MOV", "UPG2RUN"}
    BY <1>1, <1>2, <1>3, <1>9, <1>10, <1>12
  <2>4. ~ InPlace => /\ Pos(cmd) < Pos(cmd')
                     /\ cmd'.c2 = "SWP_END" <=> cmd.c2 = "FINALISE"
                     /\ cmd'.c3 <= Limit
                     /\ cmd'.c2 \in {"UPG2RUN", "MOV2UPG"} => cmd'.c3 + Undone' <= Limit
    BY <1>1, <1>2, <1>3, <1>9, <2>1, <2>2
  <2>5. InPlace => /\ cmd'.c2 \in {"UPG2RUN", "FINALISE", "SWP_END"}
                   /\ upgr_ok' /\ mov2upg_done'
    BY <1>2
  <2> QED BY <1>1, <1>7, <1>9, <2>3, <2>4, <2>5, CmdNext
<1>14. ComeInv(m)' /\ JobInv'
  <2>1. \A i \in Nat : ~ InRunBy(cmd, i) /\ ~ InRunBy(cmd', i)
    BY <1>1, <1>9 DEF InRunBy
  <2>2. Spared(Upgrade, m, cmd, s)
    BY <1>2, <1>3, <1>4, <1>6, <2>1 DEF Spared
  <2>3. s = Target(cmd)
    BY <1>1, <1>2, <1>4, <1>6 DEF Target, Move
  <2>4. /\ job'.to = s /\ job'.from \in DOMAIN flash /\ job'.from # s
        /\ flash[job'.from] \in Plain
    BY <1>2, <1>6, <1>11
  <2>5. upgr_key \in {None, m} /\ (upgr_ok /\ m.enc => upgr_key = m)
    BY <1>2 DEF ComeInv
  <2>6. ~ InRunBy(cmd', 0) /\ \A i \in 0..m.size - 1 : InRunBy(cmd, i) => InRunBy(cmd', i)
    BY <1>2, <2>1
  <2> QED BY <1>1, <1>2, <1>7, <1>9, <1>10, <1>13, <2>2, <2>3, <2>4, <2>5, <2>6, ComeMoved
<1>15. VerifyInv'
  BY <1>1, <1>7, <1>13, VerifyNext
<1>16. TypeOK'
  <2>1. Typed
    BY TypedIs
  <2>2. run_confirmed' \in BOOLEAN
    BY <1>1, <2>1, RunInfo DEF Typed
  <2>3. Typed'
    BY <1>1, <1>7, <1>8, <1>9, <1>12, <2>1, <2>2 DEF Typed, Command, Jobs
  <2> QED BY <1>1, <1>7, <2>3, TypeKept
<1> QED BY <1>13, <1>14, <1>15, <1>16

(* The first sector of the image that comes: the image is there, and good. *)
LEMMA FirstDoes ==
  ASSUME NEW m \in Images \cup {None}, Assumed, Base(m), Upg2RunFirst
  PROVE  /\ at = "cmd" /\ cmd.c2 = "UPG2RUN" /\ cmd.c3 = 0 /\ upg2run_done = FALSE
         /\ flash[Upgrade] = Sec(m, 0, "sent")
         /\ ErasedOne(Run) /\ DOMAIN flash' = DOMAIN flash /\ FlashOK(flash')
         /\ upgr_ok' = TRUE /\ upgr_key' \in {None, m} /\ (m.enc => upgr_key' = m)
         /\ job' = [from |-> Upgrade, to |-> Run, key |-> IF m.enc THEN m ELSE NoCrypt]
         /\ at' = "copy" /\ cmd' \in Command
         /\ InPlace => cmd'.c2 = "UPG2RUN" /\ cmd'.c3 = 1
         /\ ~ InPlace => cmd'.c2 = "MOV2UPG" /\ cmd'.c3 = 0
         /\ log' = log /\ losses' = losses /\ dfu' = dfu
         /\ UNCHANGED <<in_place, upgr_slt, run_confirmed, upg2run_done,
                        mov2upg_done, pending>>
<1>1. /\ at = "cmd" /\ cmd.c2 = "UPG2RUN" /\ cmd.c3 = 0 /\ ~ upg2run_done
      /\ flash' = ErasedIn(Run, 0)
      /\ log' = log /\ losses' = losses /\ dfu' = dfu
      /\ UNCHANGED <<run_confirmed, upg2run_done, mov2upg_done, pending>>
  BY DEF Upg2RunFirst
<1>2. /\ m \in Images /\ Comes(flash, Upgrade, m, cmd) /\ upgr_slt = Upgrade
      /\ in_place = InPlace /\ m.size \in Int /\ 1 <= m.size /\ m.size <= N
      /\ upg2run_done \in BOOLEAN /\ FlashOK(flash) /\ AtWork
      /\ N \in Int /\ 1 <= N
  BY <1>1, Working
<1>3. \A i \in 0..m.size - 1 : flash[Upgrade + i] = Sec(m, i, "sent")
  <2>1. \A i \in 0..m.size - 1 : ~ InRunBy(cmd, i)
    BY <1>1 DEF InRunBy
  <2> QED BY <1>2, <2>1 DEF Comes
<1>4. Upgrade + 0 = Upgrade /\ 0 \in 0..m.size - 1
  BY <1>2, TypeFlash DEF Base
<1>5. flash[Upgrade] = Sec(m, 0, "sent")
  BY <1>3, <1>4
<1>6. HasHdr(Upgrade) /\ Hdr(Upgrade) = m
  BY <1>2, <1>5, HeaderAt
<1>7. HashOk(Upgrade)
  BY <1>3, <1>6 DEF HashOk, Holds
<1>8. UpgradeGood(TRUE)
  BY <1>2, <1>6, <1>7 DEF UpgradeGood
<1>9. upgr_key \in {None, m}
  BY <1>2 DEF Base, ComeInv
<1>10. KeyOf(m) \in {None, m} /\ (m.enc => KeyOf(m) = m)
  BY <1>9 DEF KeyOf
<1>11. /\ upgr_ok' = TRUE /\ upgr_key' = KeyOf(m)
       /\ CopyJob(upgr_slt, Run, IF m.enc THEN KeyOf(m) ELSE NoCrypt)
       /\ AfterUpg2Run("copy") /\ UNCHANGED <<in_place, upgr_slt>>
  BY <1>2, <1>6, <1>8 DEF Upg2RunFirst, Assumed
<1>12. job' = [from |-> Upgrade, to |-> Run, key |-> IF m.enc THEN m ELSE NoCrypt]
  BY <1>2, <1>10, <1>11 DEF CopyJob
<1>13. /\ at' = "copy" /\ cmd' \in Command
       /\ InPlace => cmd'.c2 = "UPG2RUN" /\ cmd'.c3 = 1
       /\ ~ InPlace => cmd'.c2 = "MOV2UPG" /\ cmd'.c3 = 0
  <2>1. "UPG2RUN" \in C2 /\ "MOV2UPG" \in C2 /\ cmd.c3 + 1 = 1
    BY <1>1 DEF C2
  <2>2. InPlace => Goto("copy", "UPG2RUN", 1)
    BY <1>2, <1>11, <2>1 DEF AfterUpg2Run
  <2>3. ~ InPlace => Goto("copy", "MOV2UPG", 0)
    BY <1>1, <1>2, <1>11 DEF AfterUpg2Run
  <2>4. InPlace => at' = "copy" /\ cmd' \in Command /\ cmd'.c2 = "UPG2RUN" /\ cmd'.c3 = 1
    BY <2>1, <2>2, GotoIs
  <2>5. ~ InPlace => at' = "copy" /\ cmd' \in Command /\ cmd'.c2 = "MOV2UPG" /\ cmd'.c3 = 0
    BY <2>1, <2>3, GotoIs
  <2> QED BY <2>4, <2>5
<1>14. ErasedOne(Run) /\ DOMAIN flash' = DOMAIN flash /\ FlashOK(flash')
  <2>1. Run + 0 = Run /\ Run \in DOMAIN flash /\ 0 < N /\ TypeOK
    BY <1>2, TypeFlash DEF Base
  <2>2. flash' = ErasedIn(Run, 0) /\ Run + 0 \in DOMAIN flash
    BY <1>1, <2>1
  <2> QED BY <2>1, <2>2, ErasedFlash
<1> QED BY <1>1, <1>2, <1>5, <1>10, <1>11, <1>12, <1>13, <1>14

LEMMA Upg2RunFirstBase ==
  ASSUME NEW m \in Images \cup {None}, Assumed, Base(m), Upg2RunFirst
  PROVE  Base(m)'
<1> USE DEF Base
<1>1. /\ at = "cmd" /\ cmd.c2 = "UPG2RUN" /\ cmd.c3 = 0 /\ upg2run_done = FALSE
      /\ flash[Upgrade] = Sec(m, 0, "sent")
      /\ ErasedOne(Run) /\ DOMAIN flash' = DOMAIN flash /\ FlashOK(flash')
      /\ upgr_ok' = TRUE /\ upgr_key' \in {None, m} /\ (m.enc => upgr_key' = m)
      /\ job' = [from |-> Upgrade, to |-> Run, key |-> IF m.enc THEN m ELSE NoCrypt]
      /\ at' = "copy" /\ cmd' \in Command
      /\ InPlace => cmd'.c2 = "UPG2RUN" /\ cmd'.c3 = 1
      /\ ~ InPlace => cmd'.c2 = "MOV2UPG" /\ cmd'.c3 = 0
      /\ log' = log /\ losses' = losses /\ dfu' = dfu
      /\ UNCHANGED <<in_place, upgr_slt, run_confirmed, upg2run_done,
                     mov2upg_done, pending>>
  BY FirstDoes
<1>2. /\ AtWork /\ m \in Images /\ m.size \in Int /\ 1 <= m.size /\ m.size <= N
      /\ ~ InPlace => cmd = LastCmd /\ Swapping
  BY <1>1, Working
<1>3. /\ Limit \in Int /\ N + 2 <= Limit /\ Limit <= 255
      /\ N \in Int /\ 1 <= N /\ N + 2 <= 255
      /\ in_place = InPlace /\ upgr_slt = Upgrade /\ FlashOK(flash)
      /\ upg2run_done \in BOOLEAN /\ mov2upg_done \in BOOLEAN
      /\ Upgrade = (IF InPlace THEN 1 ELSE N + 1)
  BY <1>1, Working
<1>4. Run = 0 /\ Run \in DOMAIN flash /\ Upgrade \in DOMAIN flash /\ Upgrade # Run
  <2>1. 0 \in 0..N - 1 /\ Upgrade + 0 = Upgrade
    BY <1>3
  <2> QED BY <1>3, <2>1, TypeFlash
<1>5. InPlace => mov2upg_done
  BY <1>2 DEF CmdInv
<1>6. job' \in Jobs
  BY <1>1, <1>2, <1>4 DEF Jobs
<1>7. Sec(m, 0, "sent") \in Plain /\ 0 \in 0..N - 1
  BY <1>2, <1>3, SecIs DEF Plain
<1>8. CmdInv' /\ LogInv' /\ AtWork'
  <2>1. ~ InPlace => Pos(cmd) < Pos(cmd')
    BY <1>1, <1>3 DEF Pos
  <2>2. Undone' \in {0, 1, 2}
    BY <1>1, <1>3 DEF Undone
  <2>3. /\ at' \in {"copy", "log", "unsign"}
        /\ in_place' = in_place /\ upgr_slt' = upgr_slt
        /\ cmd'.c2 # "EMPTY"
        /\ at' = "copy" => cmd'.c2 \in {"RUN2MOV", "UPG2RUN", "MOV2UPG"} /\ job' \in Jobs
        /\ at' = "unsign" => cmd'.c2 = "SWP_END" /\ HasHdr(Run)'
        /\ cmd'.c2 = "RUN2MOV" => cmd'.c3 < N /\ upg2run_done' = FALSE
        /\ cmd.c2 = "EMPTY" => cmd'.c2 \in {"RUN2MOV", "UPG2RUN"}
    BY <1>1, <1>6
  <2>4. ~ InPlace => /\ Pos(cmd) < Pos(cmd')
                     /\ cmd'.c2 = "SWP_END" <=> cmd.c2 = "FINALISE"
                     /\ cmd'.c3 <= Limit
                     /\ cmd'.c2 \in {"UPG2RUN", "MOV2UPG"} => cmd'.c3 + Undone' <= Limit
    BY <1>1, <1>3, <2>1, <2>2
  <2>5. InPlace => /\ cmd'.c2 \in {"UPG2RUN", "FINALISE", "SWP_END"}
                   /\ upgr_ok' /\ mov2upg_done'
    BY <1>1, <1>5
  <2> QED BY <1>1, <2>3, <2>4, <2>5, CmdNext
<1>9. ComeInv(m)' /\ JobInv'
  <2>1. \A i \in Nat : ~ InRunBy(cmd, i)
    BY <1>1 DEF InRunBy
  <2>2. Spared(Upgrade, m, cmd, Run)
    BY <1>2, <1>3, <1>4, <2>1 DEF Spared
  <2>3. ~ InPlace => Run = Target(cmd)
    BY <1>1, <1>4 DEF Target
  <2>4. Crypted(flash[job'.from], job'.key) = Sec(m, 0, RunForm(m))
    BY <1>1, <1>2, <1>7, CryptedSec
  <2>5. /\ job'.to = Run /\ job'.from \in DOMAIN flash /\ job'.from # Run
        /\ flash[job'.from] \in Plain
    BY <1>1, <1>4, <1>7
  <2>6. \A i \in 0..m.size - 1 : InRunBy(cmd, i) => InRunBy(cmd', i)
    BY <1>2, <2>1
  <2>7. /\ ~ InPlace => Run = Target(cmd) /\ Swapping /\ cmd.c3 < N
        /\ InRunBy(cmd', 0) =>
             \/ InRunBy(cmd, 0)
             \/ Run = Run /\ Crypted(flash[job'.from], job'.key) = Sec(m, 0, RunForm(m))
        /\ upgr_key' \in {None, m} /\ (upgr_ok' /\ m.enc => upgr_key' = m)
        /\ upg2run_done' => cmd'.c3 >= m.size
        /\ cmd'.c2 = "MOV2UPG" /\ mov2upg_done' /\ cmd'.c3 >= m.size => upg2run_done'
        /\ InPlace /\ cmd'.c2 = "UPG2RUN" /\ ~ upg2run_done' => cmd'.c3 <= m.size
        /\ InPlace => cmd'.c3 <= m.size + 1
    BY <1>1, <1>2, <1>3, <2>3, <2>4
  <2> QED BY <1>1, <1>8, <2>2, <2>5, <2>6, <2>7, ComeMoved
<1>10. VerifyInv'
  BY <1>1, <1>8, VerifyNext
<1>11. TypeOK'
  <2>1. Typed
    BY TypedIs
  <2>2. InPlace' = InPlace /\ Upgrade' = Upgrade
    BY <1>1, SameLayout
  <2>3. Typed'
    BY <1>1, <1>2, <1>6, <2>1, <2>2 DEF Typed, Command, Jobs
  <2> QED BY <1>1, <2>3, TypeKept
<1> QED BY <1>8, <1>9, <1>10, <1>11

(* The sectors after it.                                                   *)
LEMMA NextDoes ==
  ASSUME NEW m \in Images \cup {None}, Assumed, Base(m), Upg2RunNext
  PROVE  /\ at = "cmd" /\ cmd.c2 = "UPG2RUN" /\ cmd.c3 > 0 /\ upg2run_done = FALSE
         /\ flash[Run] = Sec(m, 0, RunForm(m)) /\ HasHdr(Run) /\ Hdr(Run) = m
         /\ cmd.c3 < N => ErasedOne(Run + cmd.c3)
         /\ ~ (cmd.c3 < N) => flash' = flash
         /\ DOMAIN flash' = DOMAIN flash /\ FlashOK(flash')
         /\ \/ /\ cmd.c3 < m.size
               /\ flash[Upgrade + cmd.c3] = Sec(m, cmd.c3, "sent")
               /\ job' = [from |-> Upgrade + cmd.c3, to |-> Run + cmd.c3,
                          key |-> IF upgr_ok /\ ~ m.enc THEN NoCrypt ELSE upgr_key]
               /\ at' = "copy" /\ upg2run_done' = FALSE
            \/ cmd.c3 >= m.size /\ at' = "log" /\ upg2run_done' = TRUE /\ job' = job
         /\ cmd' \in Command
         /\ InPlace => cmd'.c2 = "UPG2RUN" /\ cmd'.c3 = cmd.c3 + 1
         /\ ~ InPlace => cmd'.c2 = "MOV2UPG" /\ cmd'.c3 = cmd.c3
         /\ upgr_ok' \in BOOLEAN /\ (upgr_ok => upgr_ok')
         /\ m.enc => upgr_ok' = upgr_ok
         /\ cmd.c3 < m.size => upgr_ok' = upgr_ok
         /\ log' = log /\ losses' = losses /\ dfu' = dfu
         /\ UNCHANGED <<upgr_key, in_place, upgr_slt, run_confirmed,
                        mov2upg_done, pending>>
<1>1. /\ at = "cmd" /\ cmd.c2 = "UPG2RUN" /\ cmd.c3 > 0 /\ ~ upg2run_done
      /\ flash' = ErasedIn(Run, cmd.c3)
      /\ log' = log /\ losses' = losses /\ dfu' = dfu
      /\ UNCHANGED <<upgr_key, in_place, upgr_slt, run_confirmed, mov2upg_done, pending>>
      /\ upgr_ok' = (upgr_ok \/ (HasHdr(Run) /\ HashOk(Run) /\ cmd.c3 >= Hdr(Run).size))
  BY DEF Upg2RunNext
<1>2. /\ m \in Images /\ Comes(flash, Upgrade, m, cmd) /\ upgr_slt = Upgrade
      /\ in_place = InPlace /\ m.size \in Int /\ 1 <= m.size /\ m.size <= N
      /\ upg2run_done \in BOOLEAN /\ FlashOK(flash) /\ AtWork
      /\ N \in Int /\ 1 <= N /\ N + 2 <= 255 /\ cmd.c3 \in Int /\ 0 <= cmd.c3
      /\ ~ InPlace => cmd.c3 <= Limit
      /\ Limit <= 255 /\ Limit \in Int
      /\ InPlace => cmd.c3 <= N + 1
  BY <1>1, Working
<1>3. flash[Run] = Sec(m, 0, RunForm(m))
  <2>1. InRunBy(cmd, 0)
    BY <1>1 DEF InRunBy
  <2> QED BY <1>2, <2>1 DEF Comes
<1>4. HasHdr(Run) /\ Hdr(Run) = m
  BY <1>2, <1>3, HeaderAt
<1>5. m.enc => ~ HashOk(Run)
  <2>1. HashOk(Run) => flash[Run] = Sec(m, 0, "sent")
    <3>1. 0 \in 0..m.size - 1 /\ Run + 0 = Run
      BY <1>2 DEF Run
    <3> QED BY <1>4, <3>1 DEF HashOk, Holds
  <2>2. m.enc => RunForm(m) = "plain"
    BY FormIs
  <2>3. /\ Sec(m, 0, "sent").form = "sent" /\ Sec(m, 0, "plain").form = "plain"
    BY DEF Sec
  <2> QED BY <1>3, <2>1, <2>2, <2>3
<1>6. /\ upgr_ok' \in BOOLEAN /\ (upgr_ok => upgr_ok')
      /\ m.enc => upgr_ok' = upgr_ok
      /\ cmd.c3 < m.size => upgr_ok' = upgr_ok
  <2>1. upgr_ok \in BOOLEAN
    BY DEF Base, TypeOK
  <2>2. cmd.c3 < m.size => ~ (cmd.c3 >= Hdr(Run).size)
    BY <1>2, <1>4
  <2> QED BY <1>1, <1>5, <2>1, <2>2
<1>7. /\ cmd.c3 < N => ErasedOne(Run + cmd.c3)
      /\ ~ (cmd.c3 < N) => flash' = flash
      /\ DOMAIN flash' = DOMAIN flash /\ FlashOK(flash')
  <2>1. Run + cmd.c3 \in DOMAIN flash \/ ~ (cmd.c3 < N)
    <3>1. cmd.c3 < N => cmd.c3 \in 0..N - 1
      BY <1>2
    <3> QED BY <3>1, TypeFlash DEF Base
  <2>2. TypeOK
    BY DEF Base
  <2> QED BY <1>1, <2>1, <2>2, ErasedFlash
<1>8. \/ /\ cmd.c3 < m.size
         /\ CopyJob(upgr_slt + cmd.c3, Run + cmd.c3,
                    IF upgr_ok /\ ~ m.enc THEN NoCrypt ELSE upgr_key)
         /\ AfterUpg2Run("copy") /\ upg2run_done' = upg2run_done
      \/ ~ (cmd.c3 < m.size) /\ upg2run_done' = TRUE /\ AfterUpg2Run("log") /\ job' = job
  BY <1>4 DEF Upg2RunNext
<1>9. cmd.c3 < m.size => flash[Upgrade + cmd.c3] = Sec(m, cmd.c3, "sent")
  <2>1. ~ InRunBy(cmd, cmd.c3)
    BY <1>1, <1>2 DEF InRunBy
  <2>2. cmd.c3 < m.size => cmd.c3 \in 0..m.size - 1
    BY <1>2
  <2> QED BY <1>2, <2>1, <2>2 DEF Comes
<1>10. ASSUME NEW place, AfterUpg2Run(place)
       PROVE  /\ at' = place /\ cmd' \in Command
              /\ InPlace => cmd'.c2 = "UPG2RUN" /\ cmd'.c3 = cmd.c3 + 1
              /\ ~ InPlace => cmd'.c2 = "MOV2UPG" /\ cmd'.c3 = cmd.c3
  <2>1. "UPG2RUN" \in C2 /\ "MOV2UPG" \in C2
    BY DEF C2
  <2>2. CASE InPlace
    <3>1. Goto(place, "UPG2RUN", cmd.c3 + 1)
      BY <1>2, <1>10, <2>2 DEF AfterUpg2Run
    <3>2. cmd.c3 + 1 \in Int /\ 0 <= cmd.c3 + 1 /\ cmd.c3 + 1 <= 255
      BY <1>2, <2>2
    <3> QED BY <2>1, <2>2, <3>1, <3>2, GotoIs
  <2>3. CASE ~ InPlace
    <3>1. Goto(place, "MOV2UPG", cmd.c3)
      BY <1>2, <1>10, <2>3 DEF AfterUpg2Run
    <3>2. cmd.c3 <= 255
      BY <1>2, <2>3
    <3> QED BY <1>2, <2>1, <2>3, <3>1, <3>2, GotoIs
  <2> QED BY <2>2, <2>3
<1>11. \/ /\ cmd.c3 < m.size
          /\ job' = [from |-> Upgrade + cmd.c3, to |-> Run + cmd.c3,
                     key |-> IF upgr_ok /\ ~ m.enc THEN NoCrypt ELSE upgr_key]
          /\ at' = "copy" /\ upg2run_done' = FALSE
       \/ cmd.c3 >= m.size /\ at' = "log" /\ upg2run_done' = TRUE /\ job' = job
  BY <1>1, <1>2, <1>8, <1>10 DEF CopyJob
<1>12. /\ cmd' \in Command
       /\ InPlace => cmd'.c2 = "UPG2RUN" /\ cmd'.c3 = cmd.c3 + 1
       /\ ~ InPlace => cmd'.c2 = "MOV2UPG" /\ cmd'.c3 = cmd.c3
  BY <1>8, <1>10
<1> QED BY <1>1, <1>2, <1>3, <1>4, <1>6, <1>7, <1>9, <1>11, <1>12

LEMMA Upg2RunNextBase ==
  ASSUME NEW m \in Images \cup {None}, Assumed, Base(m), Upg2RunNext
  PROVE  Base(m)'
<1> USE DEF Base
<1>1. /\ at = "cmd" /\ cmd.c2 = "UPG2RUN" /\ cmd.c3 > 0 /\ upg2run_done = FALSE
      /\ flash[Run] = Sec(m, 0, RunForm(m)) /\ HasHdr(Run) /\ Hdr(Run) = m
      /\ cmd.c3 < N => ErasedOne(Run + cmd.c3)
      /\ ~ (cmd.c3 < N) => flash' = flash
      /\ DOMAIN flash' = DOMAIN flash /\ FlashOK(flash')
      /\ cmd' \in Command
      /\ InPlace => cmd'.c2 = "UPG2RUN" /\ cmd'.c3 = cmd.c3 + 1
      /\ ~ InPlace => cmd'.c2 = "MOV2UPG" /\ cmd'.c3 = cmd.c3
      /\ upgr_ok' \in BOOLEAN /\ (upgr_ok => upgr_ok')
      /\ m.enc => upgr_ok' = upgr_ok
      /\ log' = log /\ losses' = losses /\ dfu' = dfu
      /\ UNCHANGED <<upgr_key, in_place, upgr_slt, run_confirmed,
                     mov2upg_done, pending>>
  BY NextDoes
<1>2. \/ /\ cmd.c3 < m.size
         /\ flash[Upgrade + cmd.c3] = Sec(m, cmd.c3, "sent")
         /\ job' = [from |-> Upgrade + cmd.c3, to |-> Run + cmd.c3,
                    key |-> IF upgr_ok /\ ~ m.enc THEN NoCrypt ELSE upgr_key]
         /\ at' = "copy" /\ upg2run_done' = FALSE
      \/ cmd.c3 >= m.size /\ at' = "log" /\ upg2run_done' = TRUE /\ job' = job
  BY NextDoes
<1>3. /\ AtWork /\ m \in Images /\ m.size \in Int /\ 1 <= m.size /\ m.size <= N
      /\ cmd.c3 \in Int /\ 0 <= cmd.c3
      /\ ~ InPlace => cmd = LastCmd /\ Swapping /\ cmd.c3 <= Limit
  BY <1>1, Working
<1>4. /\ Limit \in Int /\ N + 2 <= Limit /\ Limit <= 255
      /\ N \in Int /\ 1 <= N /\ N + 2 <= 255
      /\ in_place = InPlace /\ upgr_slt = Upgrade /\ FlashOK(flash)
      /\ upg2run_done \in BOOLEAN /\ mov2upg_done \in BOOLEAN
      /\ Upgrade = (IF InPlace THEN 1 ELSE N + 1)
  BY <1>1, Working
<1>5. /\ InPlace => mov2upg_done /\ upgr_ok /\ cmd.c3 <= m.size
      /\ ~ InPlace => cmd.c3 + Undone <= Limit
      /\ upgr_key \in {None, m} /\ (upgr_ok /\ m.enc => upgr_key = m)
  BY <1>1, <1>3 DEF CmdInv, ComeInv
<1>6. PICK s \in {Run + cmd.c3}, r \in {Upgrade + cmd.c3} : TRUE
  OBVIOUS
<1>7. /\ s = cmd.c3 /\ r = (IF InPlace THEN 1 ELSE N + 1) + cmd.c3 /\ r # s /\ Run = 0
      /\ cmd.c3 < N => s \in DOMAIN flash /\ r \in DOMAIN flash
  <2>1. cmd.c3 < N => cmd.c3 \in 0..N - 1
    BY <1>3, <1>4
  <2>2. Run = 0
    BY DEF Run
  <2>3. cmd.c3 < N => s \in DOMAIN flash /\ r \in DOMAIN flash
    BY <1>6, <2>1, TypeFlash
  <2>4. r = (IF InPlace THEN 1 ELSE N + 1) + cmd.c3 /\ s = cmd.c3
    BY <1>3, <1>4, <1>6, <2>2
  <2>5. r # s
    BY <1>3, <1>4, <2>4
  <2> QED BY <2>2, <2>3, <2>4, <2>5
<1>8. at' = "copy" =>
        /\ cmd.c3 < N /\ cmd.c3 \in 0..N - 1 /\ job'.from = r /\ job'.to = s /\ job' \in Jobs
        /\ flash[r] \in Plain
  <2>1. at' = "copy" => cmd.c3 < N /\ cmd.c3 \in 0..N - 1
    BY <1>2, <1>3, <1>4
  <2>2. at' = "copy" => flash[r] = Sec(m, cmd.c3, "sent")
    BY <1>2, <1>6
  <2>3. at' = "copy" => flash[r] \in Plain
    BY <1>3, <2>1, <2>2, SecIs DEF Plain
  <2>4. at' = "copy" => job'.from = r /\ job'.to = s /\ job' \in Jobs
    BY <1>2, <1>3, <1>5, <1>6, <1>7, <2>1 DEF Jobs
  <2> QED BY <2>1, <2>3, <2>4
<1>9. CmdInv' /\ LogInv' /\ AtWork'
  <2>1. ~ InPlace => Pos(cmd) < Pos(cmd')
    BY <1>1, <1>3, <1>4 DEF Pos
  <2>2. Undone' \in Int /\ Undone \in Int /\ Undone' <= Undone
    BY <1>1, <1>2, <1>4 DEF Undone
  <2>3. /\ at' \in {"copy", "log", "unsign"}
        /\ in_place' = in_place /\ upgr_slt' = upgr_slt
        /\ cmd'.c2 # "EMPTY"
        /\ at' = "copy" => cmd'.c2 \in {"RUN2MOV", "UPG2RUN", "MOV2UPG"} /\ job' \in Jobs
        /\ at' = "unsign" => cmd'.c2 = "SWP_END" /\ HasHdr(Run)'
        /\ cmd'.c2 = "RUN2MOV" => cmd'.c3 < N /\ upg2run_done' = FALSE
        /\ cmd.c2 = "EMPTY" => cmd'.c2 \in {"RUN2MOV", "UPG2RUN"}
    BY <1>1, <1>2, <1>8
  <2>4. ~ InPlace => /\ Pos(cmd) < Pos(cmd')
                     /\ cmd'.c2 = "SWP_END" <=> cmd.c2 = "FINALISE"
                     /\ cmd'.c3 <= Limit
                     /\ cmd'.c2 \in {"UPG2RUN", "MOV2UPG"} => cmd'.c3 + Undone' <= Limit
    BY <1>1, <1>3, <1>4, <1>5, <2>1, <2>2
  <2>5. InPlace => /\ cmd'.c2 \in {"UPG2RUN", "FINALISE", "SWP_END"}
                   /\ upgr_ok' /\ mov2upg_done'
    BY <1>1, <1>5
  <2> QED BY <1>1, <2>3, <2>4, <2>5, CmdNext
<1>10. ComeInv(m)' /\ JobInv'
  <2>1. /\ InRunBy(cmd, 0)
        /\ \A i \in 0..m.size - 1 : InRunBy(cmd, i) => InRunBy(cmd', i)
    BY <1>1, <1>3 DEF InRunBy
  <2>2. Spared(Upgrade, m, cmd, s)
    <3>1. \A i \in 0..m.size - 1 : ~ InRunBy(cmd, i) => i >= cmd.c3
      BY <1>1, <1>3 DEF InRunBy
    <3> QED BY <1>1, <1>3, <1>4, <1>7, <3>1 DEF Spared
  <2>3. ~ InPlace => s = Target(cmd) /\ Swapping
    BY <1>1, <1>3, <1>4, <1>7 DEF Target
  <2>4. /\ upg2run_done' => cmd'.c3 >= m.size
        /\ cmd'.c2 = "MOV2UPG" /\ mov2upg_done' /\ cmd'.c3 >= m.size => upg2run_done'
        /\ InPlace /\ cmd'.c2 = "UPG2RUN" /\ ~ upg2run_done' => cmd'.c3 <= m.size
        /\ InPlace => cmd'.c3 <= m.size + 1
        /\ upgr_key' \in {None, m} /\ (upgr_ok' /\ m.enc => upgr_key' = m)
    BY <1>1, <1>2, <1>3, <1>5
  <2>5. CASE at' = "copy"
    <3>1. /\ ErasedOne(s) /\ job'.to = s /\ job'.from \in DOMAIN flash
          /\ job'.from # s /\ flash[job'.from] \in Plain
      BY <1>1, <1>6, <1>7, <1>8, <2>5
    <3>2. ~ InPlace => s = Target(cmd) /\ Swapping /\ cmd.c3 < N
      <4>1. cmd.c3 < m.size
        BY <1>2, <2>5
      <4> QED BY <1>3, <1>4, <2>3, <4>1
    <3> QED BY <1>1, <1>9, <2>1, <2>2, <2>4, <2>5, <3>1, <3>2, ComeMoved
  <2>6. CASE at' = "log"
    <3>1. flash' = flash \/ \E t : ErasedOne(t) /\ Spared(Upgrade, m, cmd, t)
      BY <1>1, <1>6, <2>2
    <3> QED BY <1>1, <1>9, <2>1, <2>4, <2>6, <3>1, ComeErased
  <2> QED BY <1>2, <2>5, <2>6
<1>11. VerifyInv'
  <2>1. flash' = flash \/ \E t : ErasedOne(t)
    BY <1>1
  <2> QED BY <1>1, <1>9, <2>1, VerifyNext
<1>12. TypeOK'
  <2>1. Typed
    BY TypedIs
  <2>2. InPlace' = InPlace /\ Upgrade' = Upgrade
    BY <1>1, SameLayout
  <2>3. job' \in Jobs \/ job' = job
    BY <1>2, <1>8
  <2>4. Typed'
    BY <1>1, <1>2, <2>1, <2>2, <2>3 DEF Typed, Command, Jobs
  <2> QED BY <1>1, <2>4, TypeKept
<1> QED BY <1>9, <1>10, <1>11, <1>12

(* Where the header of the image that goes is found.                       *)
OldHeader == IF cmd.c3 = 0 THEN Move ELSE Upgrade

(* zb_img_move of a sector of the image that goes: the sector it erases    *)
(* and the copy it starts.                                                 *)
LEMMA Mov2UpgDoes ==
  ASSUME NEW m \in Images \cup {None}, Assumed, Base(m), Mov2Upg
  PROVE  /\ at = "cmd" /\ cmd.c2 = "MOV2UPG" /\ mov2upg_done = FALSE /\ ~ InPlace
         /\ cmd.c3 < N => ErasedOne(Upgrade + cmd.c3)
         /\ ~ (cmd.c3 < N) => flash' = flash
         /\ DOMAIN flash' = DOMAIN flash /\ FlashOK(flash')
         /\ \/ /\ HasHdr(OldHeader) /\ cmd.c3 < Hdr(OldHeader).size
               /\ cmd.c3 < N /\ Hdr(OldHeader) \in Images
               /\ job' = [from |-> Move + cmd.c3, to |-> Upgrade + cmd.c3,
                          key |-> IF Hdr(OldHeader).enc THEN Hdr(OldHeader)
                                                        ELSE NoCrypt]
               /\ at' = "copy" /\ mov2upg_done' = FALSE
            \/ /\ ~ (HasHdr(OldHeader) /\ cmd.c3 < Hdr(OldHeader).size)
               /\ at' = "log" /\ mov2upg_done' = TRUE /\ job' = job
         /\ cmd' \in Command /\ cmd'.c2 = "UPG2RUN" /\ cmd'.c3 = cmd.c3 + 1
         /\ log' = log /\ losses' = losses /\ dfu' = dfu
         /\ UNCHANGED <<upgr_ok, upgr_key, in_place, upgr_slt, run_confirmed,
                        upg2run_done, pending>>
<1>1. /\ at = "cmd" /\ cmd.c2 = "MOV2UPG" /\ ~ mov2upg_done
      /\ flash' = ErasedIn(upgr_slt, cmd.c3)
      /\ log' = log /\ losses' = losses /\ dfu' = dfu
      /\ UNCHANGED <<upgr_ok, upgr_key, in_place, upgr_slt, run_confirmed,
                     upg2run_done, pending>>
  BY DEF Mov2Upg
<1>2. /\ upgr_slt = Upgrade /\ ~ InPlace /\ AtWork
      /\ mov2upg_done \in BOOLEAN /\ upg2run_done \in BOOLEAN
      /\ N \in Int /\ 1 <= N /\ N + 2 <= 255 /\ cmd.c3 \in Int /\ 0 <= cmd.c3
      /\ Limit <= 255 /\ Limit \in Int /\ TypeOK
  BY <1>1, Working DEF Base
<1>3. cmd.c3 + 1 <= 255
  <2>1. cmd.c3 + Undone <= Limit
    BY <1>1, <1>2 DEF Base, CmdInv
  <2>2. Undone \in Int /\ 1 <= Undone
    BY <1>1, <1>2 DEF Undone
  <2> QED BY <1>2, <2>1, <2>2
<1>4. /\ cmd.c3 < N => ErasedOne(Upgrade + cmd.c3)
      /\ ~ (cmd.c3 < N) => flash' = flash
      /\ DOMAIN flash' = DOMAIN flash /\ FlashOK(flash')
  <2>1. Upgrade + cmd.c3 \in DOMAIN flash \/ ~ (cmd.c3 < N)
    <3>1. cmd.c3 < N => cmd.c3 \in 0..N - 1
      BY <1>2
    <3> QED BY <1>2, <3>1, TypeFlash
  <2> QED BY <1>1, <1>2, <2>1, ErasedFlash
<1>5. \/ /\ HasHdr(OldHeader) /\ cmd.c3 < Hdr(OldHeader).size
         /\ CopyJob(Move + cmd.c3, Upgrade + cmd.c3,
                    IF Hdr(OldHeader).enc THEN Hdr(OldHeader) ELSE NoCrypt)
         /\ Goto("copy", "UPG2RUN", cmd.c3 + 1)
         /\ mov2upg_done' = mov2upg_done
      \/ /\ ~ (HasHdr(OldHeader) /\ cmd.c3 < Hdr(OldHeader).size)
         /\ mov2upg_done' = TRUE
         /\ Goto("log", "UPG2RUN", cmd.c3 + 1) /\ job' = job
  BY <1>2 DEF Mov2Upg, OldHeader
<1>6. HasHdr(OldHeader) => Hdr(OldHeader) \in Images /\ Hdr(OldHeader).size <= N
                           /\ Hdr(OldHeader).size \in Int
  <2>1. OldHeader \in DOMAIN flash
    <3>1. 0 \in 0..N - 1 /\ Move + 0 = Move /\ Upgrade + 0 = Upgrade
      BY <1>2, TypeFlash
    <3> QED BY <1>2, <3>1, TypeFlash DEF OldHeader
  <2> QED BY <1>2, <2>1, HeaderIs
<1>7. cmd' \in Command /\ cmd'.c2 = "UPG2RUN" /\ cmd'.c3 = cmd.c3 + 1
  <2>1. "UPG2RUN" \in C2 /\ cmd.c3 + 1 \in Int /\ 0 <= cmd.c3 + 1
    BY <1>2 DEF C2
  <2>2. PICK place : Goto(place, "UPG2RUN", cmd.c3 + 1)
    BY <1>5
  <2> QED BY <1>3, <2>1, <2>2, GotoIs
<1>8. \/ at' = "copy" /\ Goto("copy", "UPG2RUN", cmd.c3 + 1)
      \/ at' = "log" /\ Goto("log", "UPG2RUN", cmd.c3 + 1)
  BY <1>5 DEF Goto
<1>9. \/ /\ HasHdr(OldHeader) /\ cmd.c3 < Hdr(OldHeader).size
         /\ cmd.c3 < N /\ Hdr(OldHeader) \in Images
         /\ job' = [from |-> Move + cmd.c3, to |-> Upgrade + cmd.c3,
                    key |-> IF Hdr(OldHeader).enc THEN Hdr(OldHeader)
                                                  ELSE NoCrypt]
         /\ at' = "copy" /\ mov2upg_done' = FALSE
      \/ /\ ~ (HasHdr(OldHeader) /\ cmd.c3 < Hdr(OldHeader).size)
         /\ at' = "log" /\ mov2upg_done' = TRUE /\ job' = job
  <2>1. CASE HasHdr(OldHeader) /\ cmd.c3 < Hdr(OldHeader).size
    <3>1. /\ CopyJob(Move + cmd.c3, Upgrade + cmd.c3,
                     IF Hdr(OldHeader).enc THEN Hdr(OldHeader) ELSE NoCrypt)
          /\ at' = "copy" /\ mov2upg_done' = FALSE
      BY <1>1, <1>2, <1>5, <2>1 DEF Goto
    <3>2. cmd.c3 < N
      BY <1>2, <1>6, <2>1
    <3> QED BY <1>6, <2>1, <3>1, <3>2 DEF CopyJob
  <2>2. CASE ~ (HasHdr(OldHeader) /\ cmd.c3 < Hdr(OldHeader).size)
    BY <1>5, <2>2 DEF Goto
  <2> QED BY <2>1, <2>2
<1> QED BY <1>1, <1>2, <1>4, <1>7, <1>9

LEMMA Mov2UpgBase ==
  ASSUME NEW m \in Images \cup {None}, Assumed, Base(m), Mov2Upg
  PROVE  Base(m)'
<1> USE DEF Base
<1>1. /\ at = "cmd" /\ cmd.c2 = "MOV2UPG" /\ mov2upg_done = FALSE /\ ~ InPlace
      /\ cmd.c3 < N => ErasedOne(Upgrade + cmd.c3)
      /\ ~ (cmd.c3 < N) => flash' = flash
      /\ DOMAIN flash' = DOMAIN flash /\ FlashOK(flash')
      /\ cmd' \in Command /\ cmd'.c2 = "UPG2RUN" /\ cmd'.c3 = cmd.c3 + 1
      /\ log' = log /\ losses' = losses /\ dfu' = dfu
      /\ UNCHANGED <<upgr_ok, upgr_key, in_place, upgr_slt, run_confirmed,
                     upg2run_done, pending>>
  BY Mov2UpgDoes
<1>0. PICK g \in {Hdr(OldHeader)} : TRUE
  OBVIOUS
<1>2. \/ /\ cmd.c3 < N /\ g \in Images
         /\ job' = [from |-> Move + cmd.c3, to |-> Upgrade + cmd.c3,
                    key |-> IF g.enc THEN g ELSE NoCrypt]
         /\ at' = "copy" /\ mov2upg_done' = FALSE
      \/ at' = "log" /\ mov2upg_done' = TRUE /\ job' = job
  BY <1>0, Mov2UpgDoes
<1>3. /\ AtWork /\ m \in Images /\ m.size \in Int /\ 1 <= m.size /\ m.size <= N
      /\ cmd.c3 \in Int /\ 0 <= cmd.c3
      /\ cmd = LastCmd /\ Swapping /\ cmd.c3 <= Limit
      /\ flash[Verify].kind # "crc"
  BY <1>1, Working
<1>4. /\ Limit \in Int /\ N + 2 <= Limit /\ Limit <= 255
      /\ N \in Int /\ 1 <= N /\ N + 2 <= 255
      /\ in_place = InPlace /\ upgr_slt = Upgrade /\ FlashOK(flash)
      /\ upg2run_done \in BOOLEAN /\ mov2upg_done \in BOOLEAN
      /\ Upgrade = N + 1
  BY <1>1, Working
<1>5. /\ cmd.c3 + Undone <= Limit /\ (upg2run_done => cmd.c3 >= m.size)
      /\ upgr_key \in {None, m} /\ (upgr_ok /\ m.enc => upgr_key = m)
  BY <1>1, <1>3 DEF CmdInv, ComeInv
<1>6. PICK s \in {Upgrade + cmd.c3}, r \in {Move + cmd.c3} : TRUE
  OBVIOUS
<1>7. /\ s = N + 1 + cmd.c3 /\ r = 1 + cmd.c3 /\ r # s /\ Run = 0
      /\ cmd.c3 < N => s \in DOMAIN flash /\ r \in DOMAIN flash
  <2>1. cmd.c3 < N => cmd.c3 \in 0..N - 1
    BY <1>3, <1>4
  <2>2. Run = 0 /\ Move = 1
    BY DEF Run, Move
  <2> QED BY <1>3, <1>4, <1>6, <2>1, <2>2, TypeFlash
<1>8. at' = "copy" =>
        /\ cmd.c3 < N /\ job'.from = r /\ job'.to = s /\ job' \in Jobs
        /\ flash[r] \in Plain
  <2>1. at' = "copy" => job'.from = r /\ job'.to = s /\ job' \in Jobs /\ cmd.c3 < N
    BY <1>2, <1>6, <1>7 DEF Jobs
  <2>2. cmd.c3 < N => flash[r] \in Plain
    BY <1>3, <1>4, <1>7, TypeFlash DEF FlashOK
  <2> QED BY <2>1, <2>2
<1>9. CmdInv' /\ LogInv' /\ AtWork'
  <2>1. ~ InPlace => Pos(cmd) < Pos(cmd')
    BY <1>1, <1>3, <1>4 DEF Pos
  <2>2. /\ Undone' \in Int /\ Undone \in Int /\ 0 <= Undone' /\ Undone' <= 2
        /\ mov2upg_done' => Undone' = Undone - 1
    BY <1>1, <1>2, <1>4 DEF Undone
  <2>3. /\ at' \in {"copy", "log", "unsign"}
        /\ in_place' = in_place /\ upgr_slt' = upgr_slt
        /\ cmd'.c2 # "EMPTY"
        /\ at' = "copy" => cmd'.c2 \in {"RUN2MOV", "UPG2RUN", "MOV2UPG"} /\ job' \in Jobs
        /\ at' = "unsign" => cmd'.c2 = "SWP_END" /\ HasHdr(Run)'
        /\ cmd'.c2 = "RUN2MOV" => cmd'.c3 < N /\ upg2run_done' = FALSE
        /\ cmd.c2 = "EMPTY" => cmd'.c2 \in {"RUN2MOV", "UPG2RUN"}
    BY <1>1, <1>2, <1>8
  <2>4. cmd'.c3 <= Limit /\ cmd'.c3 + Undone' <= Limit
    BY <1>1, <1>2, <1>3, <1>4, <1>5, <2>2
  <2>5. ~ InPlace => /\ Pos(cmd) < Pos(cmd')
                     /\ cmd'.c2 = "SWP_END" <=> cmd.c2 = "FINALISE"
                     /\ cmd'.c3 <= Limit
                     /\ cmd'.c2 \in {"UPG2RUN", "MOV2UPG"} => cmd'.c3 + Undone' <= Limit
    BY <1>1, <2>1, <2>4
  <2>6. InPlace => /\ cmd'.c2 \in {"UPG2RUN", "FINALISE", "SWP_END"}
                   /\ upgr_ok' /\ mov2upg_done'
    BY <1>1
  <2> QED BY <1>1, <2>3, <2>5, <2>6, CmdNext
<1>10. ComeInv(m)' /\ JobInv'
  <2>1. /\ InRunBy(cmd, 0)
        /\ \A i \in 0..m.size - 1 : InRunBy(cmd, i) => InRunBy(cmd', i)
    BY <1>1, <1>3 DEF InRunBy
  <2>2. Spared(Upgrade, m, cmd, s)
    <3>1. \A i \in 0..m.size - 1 : ~ InRunBy(cmd, i) => i > cmd.c3
      BY <1>1, <1>3 DEF InRunBy
    <3> QED BY <1>1, <1>3, <1>4, <1>7, <3>1 DEF Spared
  <2>3. ~ InPlace => s = Target(cmd) /\ Swapping
    BY <1>1, <1>3, <1>4, <1>7 DEF Target
  <2>4. /\ upg2run_done' => cmd'.c3 >= m.size
        /\ cmd'.c2 = "MOV2UPG" /\ mov2upg_done' /\ cmd'.c3 >= m.size => upg2run_done'
        /\ InPlace /\ cmd'.c2 = "UPG2RUN" /\ ~ upg2run_done' => cmd'.c3 <= m.size
        /\ InPlace => cmd'.c3 <= m.size + 1
        /\ upgr_key' \in {None, m} /\ (upgr_ok' /\ m.enc => upgr_key' = m)
    BY <1>1, <1>3, <1>5
  <2>5. CASE at' = "copy"
    <3>1. /\ ErasedOne(s) /\ job'.to = s /\ job'.from \in DOMAIN flash
          /\ job'.from # s /\ flash[job'.from] \in Plain
      BY <1>1, <1>6, <1>7, <1>8, <2>5
    <3>2. ~ InPlace => s = Target(cmd) /\ Swapping /\ cmd.c3 < N
      BY <1>1, <1>2, <1>3, <2>3, <2>5
    <3> QED BY <1>1, <1>9, <2>1, <2>2, <2>4, <2>5, <3>1, <3>2, ComeMoved
  <2>6. CASE at' = "log"
    <3>1. flash' = flash \/ \E t : ErasedOne(t) /\ Spared(Upgrade, m, cmd, t)
      BY <1>1, <1>6, <2>2
    <3> QED BY <1>1, <1>9, <2>1, <2>4, <2>6, <3>1, ComeErased
  <2> QED BY <1>2, <2>5, <2>6
<1>11. VerifyInv'
  <2>1. flash' = flash \/ \E t : ErasedOne(t)
    BY <1>1
  <2> QED BY <1>1, <1>9, <2>1, VerifyNext
<1>12. TypeOK'
  <2>1. Typed
    BY TypedIs
  <2>2. InPlace' = InPlace /\ Upgrade' = Upgrade
    BY <1>1, SameLayout
  <2>3. job' \in Jobs \/ job' = job
    BY <1>2, <1>8
  <2>4. Typed'
    BY <1>1, <1>2, <2>1, <2>2, <2>3 DEF Typed, Command, Jobs
  <2> QED BY <1>1, <2>4, TypeKept
<1> QED BY <1>9, <1>10, <1>11, <1>12

(* What a logged command writes is not read again before the next one.     *)
LEMMA TargetSpared ==
  ASSUME NEW m \in Images, NEW c \in Command,
         c.c2 \in {"RUN2MOV", "UPG2RUN", "MOV2UPG"}, c.c2 = "RUN2MOV" => c.c3 < N
  PROVE  Spared(N + 1, m, c, Target(c))
<1>1. c.c3 \in Int /\ 0 <= c.c3 /\ m.size \in Int /\ N \in Int /\ 1 <= N
      /\ Run = 0 /\ Move = 1
  <2>1. c.c3 \in 0..255
    BY CommandIs
  <2>2. N \in Int /\ 1 <= N /\ m.size \in Int
    BY Constants
  <2> QED BY <2>1, <2>2 DEF Run, Move
<1>2. CASE c.c2 = "RUN2MOV"
  <2>1. \A i \in Nat : ~ InRunBy(c, i)
    BY <1>2 DEF InRunBy
  <2>2. Target(c) = c.c3 + 1
    BY <1>1, <1>2 DEF Target
  <2> QED BY <1>1, <1>2, <2>1, <2>2 DEF Spared
<1>3. CASE c.c2 = "UPG2RUN"
  <2>1. \A i \in Int : InRunBy(c, i) <=> i < c.c3
    BY <1>3 DEF InRunBy
  <2>2. Target(c) = c.c3
    BY <1>1, <1>3 DEF Target
  <2> QED BY <1>1, <2>1, <2>2 DEF Spared
<1>4. CASE c.c2 = "MOV2UPG"
  <2>1. \A i \in Int : InRunBy(c, i) <=> i <= c.c3
    BY <1>4 DEF InRunBy
  <2>2. Target(c) = c.c3 + N + 1
    BY <1>1, <1>4 DEF Target
  <2> QED BY <1>1, <2>1, <2>2 DEF Spared
<1> QED BY <1>2, <1>3, <1>4

(* The sector a logged command fills holds nothing of the image that       *)
(* comes.                                                                  *)
LEMMA LastSpared ==
  ASSUME NEW m, TypeOK, LogInv, ComeInv(m), Swapping
  PROVE  Spared(N + 1, m, LastCmd, Target(LastCmd))
<1>1. LastCmd \in Command /\ Continue
  BY Commands
<1>2. m \in Images
  BY <1>1 DEF ComeInv, Comes
<1>3. LastCmd.c2 \in {"RUN2MOV", "UPG2RUN", "MOV2UPG"}
  BY DEF Swapping
<1>4. LastCmd.c2 = "RUN2MOV" => LastCmd.c3 < N
  BY DEF LogInv
<1> QED BY <1>1, <1>2, <1>3, <1>4, TargetSpared

(* The sector under way is written.                                        *)
LEMMA CopyDoes ==
  ASSUME TypeOK, CmdInv, JobInv, Copy
  PROVE  /\ at = "copy" /\ at' = "log" /\ job' = None /\ job \in Jobs
         /\ job.from \in DOMAIN flash /\ job.to \in DOMAIN flash
         /\ flash' = CopyOf(flash, job)
         /\ Updated(flash, flash', job.to, Crypted(flash[job.from], job.key))
         /\ Crypted(flash[job.from], job.key) \in Plain
         /\ DOMAIN flash' = DOMAIN flash /\ FlashOK(flash')
<1>1. at = "copy" /\ at' = "log" /\ job' = None /\ flash' = CopyOf(flash, job)
  BY DEF Copy, CopyOf
<1>2. job \in Jobs
  BY <1>1 DEF CmdInv
<1>3. job.from \in DOMAIN flash /\ job.to \in DOMAIN flash
  BY <1>2 DEF Jobs
<1>4. PICK x \in {Crypted(flash[job.from], job.key)}, s \in {job.to} : TRUE
  OBVIOUS
<1>5. flash' = [flash EXCEPT ![s] = x]
  BY <1>1, <1>4 DEF CopyOf
<1>6. Updated(flash, [flash EXCEPT ![s] = x], s, x)
  BY <1>3, <1>4, UpdatedBy
<1>7. x \in Plain
  <2>1. flash[job.from] \in Plain
    BY <1>1 DEF JobInv, Plain
  <2> QED BY <1>4, <2>1, CryptedPlain
<1>8. Updated(flash, flash', s, x)
  BY <1>5, <1>6
<1>9. DOMAIN flash' = DOMAIN flash
  BY <1>8 DEF Updated
<1>10. FlashOK(flash')
  BY <1>3, <1>4, <1>7, <1>8, TypeFlash, UpdatedOK
<1> QED BY <1>1, <1>2, <1>3, <1>4, <1>7, <1>8, <1>9, <1>10

LEMMA CopyBase ==
  ASSUME NEW m \in Images \cup {None}, Assumed, Base(m), Copy
  PROVE  Base(m)'
<1> USE DEF Base
<1>1. /\ at = "copy" /\ at' = "log" /\ job' = None
      /\ log' = log /\ losses' = losses /\ dfu' = dfu
      /\ UNCHANGED <<cmd, upgr_ok, upgr_key, in_place, upgr_slt, run_confirmed,
                     upg2run_done, mov2upg_done, pending>>
  BY DEF Copy
<1>2. PICK x \in {Crypted(flash[job.from], job.key)}, s \in {job.to} : TRUE
  OBVIOUS
<1>3. /\ s \in DOMAIN flash /\ Updated(flash, flash', s, x) /\ x \in Plain
      /\ DOMAIN flash' = DOMAIN flash /\ FlashOK(flash') /\ flash' = CopyOf(flash, job)
  BY <1>2, CopyDoes
<1>4. /\ InPlace' = InPlace /\ Upgrade' = Upgrade /\ LastCmd' = LastCmd
      /\ Continue' = Continue /\ Swapping' = Swapping
  BY <1>1, <1>3, SameLog
<1>5. LogInv'
  BY <1>1, <1>3, LogKept
<1>6. AtWork /\ AtWork'
  BY <1>1 DEF AtWork
<1>7. Pos(cmd)' = Pos(cmd) /\ Pos(LastCmd)' = Pos(LastCmd) /\ Limit' = Limit /\ Undone' = Undone
  BY <1>1, <1>4 DEF Pos, Limit, Undone
<1>8. CmdInv'
  BY <1>1, <1>4, <1>6, <1>7 DEF CmdInv
<1>9. VerifyInv'
  <2>1. CASE InPlace
    BY <1>4, <2>1 DEF VerifyInv
  <2>2. CASE ~ InPlace
    <3>1. Swapping
      BY <1>1, <2>2 DEF JobInv
    <3> QED BY <1>3, <2>2, <3>1, VerifyWork
  <2> QED BY <2>1, <2>2
<1>10. TypeOK'
  <2>1. Typed
    BY TypedIs
  <2>2. Typed'
    BY <1>1, <1>3, <1>4, <2>1 DEF Typed
  <2> QED BY <1>1, <1>3, <2>2, TypeKept
<1>11. JobInv'
  BY <1>1 DEF JobInv
<1>12. ComeInv(m)'
  <2>1. Copied' = Copied
    BY <1>1, <1>3 DEF Copied
  <2>2. Comes(Copied', Upgrade', m, cmd')
    BY <1>1, <1>4, <1>6, <2>1 DEF ComeInv
  <2>3. ASSUME Continue
        PROVE  Comes(flash', N + 1, m, LastCmd)
    <3>1. ~ InPlace
      BY <2>3 DEF Continue
    <3>2. Swapping /\ s = Target(LastCmd)
      BY <1>1, <1>2, <3>1 DEF JobInv
    <3>3. Spared(N + 1, m, LastCmd, s)
      BY <3>2, LastSpared
    <3>4. Comes(flash, N + 1, m, LastCmd)
      BY <2>3 DEF ComeInv
    <3>5. m \in Images /\ m.size \in Int /\ m.size <= N
      BY <3>4, Constants DEF Comes
    <3>6. Run \in DOMAIN flash /\ \A i \in 0..m.size - 1 : N + 1 + i \in DOMAIN flash
      BY <3>1, <3>5, TypeFlash, Constants
    <3> QED BY <1>3, <3>3, <3>4, <3>6, ComesKept
  <2>4. Continue' => Comes(flash', N + 1, m, LastCmd')
    BY <1>4, <2>3
  <2> QED BY <1>1, <1>4, <1>6, <2>2, <2>4 DEF ComeInv
<1> QED BY <1>5, <1>8, <1>9, <1>10, <1>11, <1>12

(* There is room in the log for every command.                             *)
LEMMA WriteDoes ==
  ASSUME NEW m \in Images \cup {None}, Assumed, Base(m), WriteLog
  PROVE  /\ at = "log" /\ AtWork /\ flash' = flash /\ DOMAIN flash' = DOMAIN flash
         /\ cmd.c2 # "EMPTY"
         /\ InPlace' = InPlace /\ Upgrade' = Upgrade
         /\ log' \in Seq({Torn} \cup Command) /\ Len(log') <= LogSize
         /\ InPlace => log' = log /\ log = <<>> /\ LastCmd' = NoCmd /\ LastCmd = NoCmd
         /\ ~ InPlace => /\ LastCmd' = cmd
                         /\ Len(log') <= Pos(cmd) + losses
                         /\ LastCmd.c2 = "FINALISE" <=> cmd.c2 = "SWP_END"
         /\ LogInv'
         /\ losses' = losses /\ dfu' = dfu /\ dfu = None /\ pending' = pending
<1> USE DEF Base
<1>1. /\ at = "log" /\ flash' = flash /\ losses' = losses /\ dfu' = dfu /\ pending' = pending
      /\ log' = IF ~ InPlace /\ Len(log) < LogSize THEN Append(log, cmd) ELSE log
      /\ at' \notin {"off", "swap"}
  BY DEF WriteLog, JumpRun
<1>2. DOMAIN flash' = DOMAIN flash
  BY <1>1
<1>3. InPlace' = InPlace /\ Upgrade' = Upgrade
  BY <1>2, SameLayout
<1>4. AtWork /\ cmd.c2 # "EMPTY" /\ dfu = None
  BY <1>1 DEF AtWork, CmdInv
<1>5. log \in Seq({Torn} \cup Command) /\ Len(log) \in Nat
  BY DEF LogInv, Command
<1>6. /\ cmd \in Command /\ cmd.c2 \in C2 /\ cmd.c3 \in Int /\ 0 <= cmd.c3
      /\ LastCmd.c2 \in C2 /\ LastCmd.c3 \in Int /\ 0 <= LastCmd.c3
      /\ losses \in Int /\ 0 <= losses /\ losses <= MaxLosses
      /\ Continue <=> ~ InPlace /\ LastCmd.c2 \notin {"EMPTY", "SWP_END"}
  BY Commands
<1>7. N \in Int /\ 1 <= N /\ LogSize \in Nat /\ MaxLosses \in Nat
      /\ LogSize >= 3 * N + 8 + 5 * MaxLosses
  BY Constants DEF Assumed, Ample
<1>8. InPlace => log' = log /\ log = <<>> /\ LastCmd' = NoCmd /\ LastCmd = NoCmd
  <2>1. InPlace => log' = log /\ log = <<>>
    BY <1>1 DEF LogInv
  <2> QED BY <2>1, LastIs, LastEmpty
<1>9. ASSUME ~ InPlace
      PROVE  /\ log' = Append(log, cmd) /\ LastCmd' = cmd
             /\ Len(log') = Len(log) + 1 /\ Len(log) < LogSize
             /\ Len(log') <= Pos(cmd) + losses
             /\ LastCmd.c2 = "FINALISE" <=> cmd.c2 = "SWP_END"
             /\ cmd.c3 <= Limit
             /\ cmd.c2 = "RUN2MOV" => cmd.c3 < N
  <2>1. /\ Pos(LastCmd) < Pos(cmd) /\ (Continue \/ log = <<>>)
        /\ LastCmd.c2 = "FINALISE" <=> cmd.c2 = "SWP_END"
        /\ cmd.c3 <= Limit
        /\ cmd.c2 = "RUN2MOV" => cmd.c3 < N
    BY <1>1, <1>4, <1>9 DEF CmdInv
  <2>2. Pos(cmd) \in Int /\ Pos(LastCmd) \in Int
    BY <1>6, <1>7 DEF Pos, C2
  <2>3. CASE Continue
    <3>1. Len(log) <= Pos(LastCmd) + losses /\ LastCmd.c3 <= Limit
      BY <2>3 DEF LogInv
    <3>2. Pos(LastCmd) <= N + 3 + 2 * Limit
      <4>1. LastCmd.c2 \in {"RUN2MOV", "UPG2RUN", "MOV2UPG", "FINALISE"}
        BY <1>6, <2>3 DEF C2
      <4>2. Limit \in Int /\ Limit >= 0
        BY <1>6, <1>7 DEF Limit
      <4>3. Pos(LastCmd) \in {N - LastCmd.c3, N + 1 + 2 * LastCmd.c3,
                             N + 2 + 2 * LastCmd.c3, N + 3 + 2 * LastCmd.c3}
        BY <4>1 DEF Pos
      <4>4. LastCmd.c3 <= Limit
        BY <3>1
      <4> QED BY <1>6, <1>7, <4>2, <4>3, <4>4
    <3>3. Len(log) < LogSize
      BY <1>5, <1>6, <1>7, <2>2, <3>1, <3>2 DEF Limit
    <3>4. Len(log) + 1 <= Pos(cmd) + losses
      BY <1>5, <1>6, <2>1, <2>2, <3>1
    <3>5. log' = Append(log, cmd)
      BY <1>1, <1>9, <3>3
    <3>6. Len(log') = Len(log) + 1
      BY <1>5, <3>5
    <3>7. LastCmd' = cmd
      BY <1>5, <1>6, <3>5, LastIs, LastAppend, CommandIs
    <3> QED BY <2>1, <3>3, <3>4, <3>5, <3>6, <3>7
  <2>4. CASE log = <<>>
    <3>1. Len(log) = 0
      BY <2>4
    <3>2. Pos(LastCmd) = 0
      <4>1. LastCmd = NoCmd
        BY <2>4, LastIs, LastEmpty
      <4> QED BY <4>1, CommandIs DEF Pos
    <3>3. Len(log) < LogSize
      BY <1>7, <3>1
    <3>4. Len(log) + 1 <= Pos(cmd) + losses
      BY <1>6, <2>1, <2>2, <3>1, <3>2
    <3>5. log' = Append(log, cmd)
      BY <1>1, <1>9, <3>3
    <3>6. Len(log') = Len(log) + 1
      BY <1>5, <3>5
    <3>7. LastCmd' = cmd
      BY <1>5, <1>6, <3>5, LastIs, LastAppend, CommandIs
    <3> QED BY <2>1, <3>3, <3>4, <3>5, <3>6, <3>7
  <2> QED BY <2>1, <2>3, <2>4
<1>10. log' \in Seq({Torn} \cup Command) /\ Len(log') <= LogSize
  <2>1. CASE InPlace
    <3>1. log' = log /\ Len(log) = 0
      BY <1>8, <2>1
    <3> QED BY <1>5, <1>7, <3>1
  <2>2. CASE ~ InPlace
    <3>1. log' \in Seq({Torn} \cup Command)
      BY <1>5, <1>6, <1>9, <2>2
    <3>2. Len(log') <= LogSize
      BY <1>5, <1>7, <1>9, <2>2
    <3> QED BY <3>1, <3>2
  <2> QED BY <2>1, <2>2
<1>11. Pos(LastCmd)' = Pos(LastCmd') /\ Limit' = Limit
  BY <1>1 DEF Pos, Limit
<1>12. Continue' => ~ InPlace
  BY <1>3 DEF Continue
<1>13. LogInv'
  <2>1. InPlace' => log' = <<>>
    BY <1>3, <1>8
  <2>2. LastCmd'.c2 = "RUN2MOV" => LastCmd'.c3 < N
    <3>1. NoCmd.c2 = "EMPTY"
      BY CommandIs
    <3> QED BY <1>8, <1>9, <3>1
  <2>3. Continue' => Len(log') <= Pos(LastCmd') + losses' /\ LastCmd'.c3 <= Limit
    BY <1>1, <1>9, <1>12
  <2> QED BY <1>1, <1>10, <1>11, <2>1, <2>2, <2>3 DEF LogInv, Command
<1> QED BY <1>1, <1>2, <1>3, <1>4, <1>8, <1>9, <1>10, <1>13

LEMMA WriteLogBase ==
  ASSUME NEW m \in Images \cup {None}, Assumed, Base(m), WriteLog
  PROVE  Base(m)'
<1> USE DEF Base
<1>1. /\ at = "log" /\ AtWork /\ flash' = flash /\ DOMAIN flash' = DOMAIN flash
      /\ cmd.c2 # "EMPTY"
      /\ InPlace' = InPlace /\ Upgrade' = Upgrade
      /\ log' \in Seq({Torn} \cup Command) /\ Len(log') <= LogSize
      /\ InPlace => log' = log /\ log = <<>> /\ LastCmd' = NoCmd /\ LastCmd = NoCmd
      /\ ~ InPlace => /\ LastCmd' = cmd
                      /\ LastCmd.c2 = "FINALISE" <=> cmd.c2 = "SWP_END"
      /\ LogInv'
      /\ losses' = losses /\ dfu' = dfu /\ dfu = None /\ pending' = pending
  BY WriteDoes
<1>2. NoCmd.c2 = "EMPTY" /\ cmd \in Command /\ LastCmd.c2 \in C2 /\ cmd.c2 \in C2
  BY CommandIs, Commands
<1>3. FlashOK(flash') /\ Typed
  BY <1>1, TypeFlash, TypedIs
<1>4. Comes(flash, Upgrade, m, cmd)
  BY <1>1 DEF ComeInv, Copied
<1>5. CASE cmd.c2 # "SWP_END"
  <2>1. at' = "cmd" /\ UNCHANGED session
    BY <1>5 DEF WriteLog
  <2>2. AtWork'
    BY <2>1 DEF AtWork
  <2>3. TypeOK'
    <3>1. Typed'
      BY <1>1, <1>3, <2>1 DEF Typed, session
    <3> QED BY <1>1, <1>3, <3>1, TypeLog
  <2>4. Limit' = Limit /\ Undone' = Undone
    BY <1>1, <2>1 DEF Limit, Undone, session
  <2>5. CmdInv'
    BY <1>1, <1>2, <1>5, <2>1, <2>2, <2>4 DEF CmdInv, session
  <2>6. VerifyInv'
    <3>1. CASE InPlace
      BY <1>1, <3>1 DEF VerifyInv
    <3>2. CASE ~ InPlace
      <4>1. LastCmd.c2 # "FINALISE"
        BY <1>1, <1>5, <3>2
      <4>2. Swapping \/ (AtWork /\ ~ Continue)
        BY <1>1, <1>2, <3>2, <4>1 DEF Swapping, Continue, C2
      <4> QED BY <1>1, <4>2, VerifyKept
    <3> QED BY <3>1, <3>2
  <2>7. JobInv'
    BY <2>1 DEF JobInv
  <2>8. ComeInv(m)'
    <3>1. Copied' = flash
      BY <1>1, <2>1 DEF Copied
    <3>2. Comes(Copied', Upgrade', m, cmd')
      BY <1>1, <1>4, <2>1, <3>1 DEF session
    <3>3. ~ InPlace => Upgrade = N + 1
      BY TypeFlash
    <3>4. Continue' => ~ InPlace
      BY <1>1 DEF Continue
    <3>5. Continue' => Comes(flash', N + 1, m, LastCmd')
      BY <1>1, <1>4, <3>3, <3>4
    <3> QED BY <1>1, <2>1, <2>2, <3>2, <3>5 DEF ComeInv, session
  <2> QED BY <1>1, <2>3, <2>5, <2>6, <2>7, <2>8
<1>6. CASE cmd.c2 = "SWP_END"
  <2>1. JumpRun
    BY <1>6 DEF WriteLog
  <2>2. NoSession /\ at' \in {"app", "dead"} /\ (at' = "app" => HasHdr(Run)')
    <3>1. HasHdr(Run)' = HasHdr(Run)
      BY <1>1 DEF HasHdr, Run
    <3> QED BY <2>1, <3>1 DEF JumpRun
  <2>3. ~ Swapping' /\ ~ Continue'
    BY <1>1, <1>2, <1>6 DEF Swapping, Continue
  <2>4. pending' \in Images \cup {None} /\ losses' \in 0..MaxLosses
    BY <1>1, <1>3 DEF Typed
  <2>5. CmdInv' /\ ~ AtWork' /\ JobInv' /\ Typed'
    BY <1>1, <2>2, <2>3, <2>4, SessionOver
  <2>6. TypeOK'
    BY <1>1, <1>3, <2>5, TypeLog
  <2>7. VerifyInv'
    BY <1>1, <2>3, <2>5, VerifyKept
  <2>8. ComeInv(m)'
    BY <2>3, <2>5 DEF ComeInv
  <2> QED BY <1>1, <2>5, <2>6, <2>7, <2>8
<1> QED BY <1>5, <1>6

-----------------------------------------------------------------------------
(* Power fails.                                                            *)

(* Where a sector is damaged: it is one that the log says is to be written.*)
LEMMA ChangingIs ==
  ASSUME NEW m \in Images \cup {None}, Assumed, Base(m), NEW t \in Changing
  PROVE  /\ t[1] \in DOMAIN flash
         /\ t[2] \in Plain \/ t[2].kind = "crc"
         /\ \/ /\ at \in {"cmd", "copy"}
               /\ ~ InPlace => Swapping /\ t[1] = Target(LastCmd) /\ LastCmd.c3 < N
            \/ at \in {"unsign", "sign"} /\ t[1] = Verify /\ ~ Swapping
            \/ /\ at = "upload" /\ ~ Swapping /\ t[1] # Run /\ (~ InPlace => t[1] > N)
               /\ t[2] \in Plain
<1> USE DEF Base
<1>1. CASE at = "cmd" /\ Erasing
  <2>1. t[1] = ErasedSector /\ t[2] = Blank
    BY <1>1 DEF Changing
  <2>2. /\ cmd.c3 \in Int /\ 0 <= cmd.c3 /\ N \in Int /\ 1 <= N
        /\ upgr_slt = Upgrade /\ Upgrade = (IF InPlace THEN 1 ELSE N + 1)
        /\ ~ InPlace => cmd = LastCmd
        /\ ~ InPlace /\ cmd.c2 \in {"RUN2MOV", "UPG2RUN", "MOV2UPG"} => Swapping
        /\ InPlace => cmd.c2 \in {"EMPTY", "UPG2RUN", "FINALISE"}
    BY <1>1, Working
  <2>3. cmd.c2 \in {"RUN2MOV", "UPG2RUN", "MOV2UPG"} /\ cmd.c3 < N
    BY <1>1 DEF Erasing, CmdInv
  <2>4. cmd.c3 \in 0..N - 1
    BY <2>2, <2>3
  <2>5. /\ InPlace => cmd.c2 = "UPG2RUN"
        /\ cmd.c2 = "UPG2RUN" => t[1] = Run + cmd.c3
        /\ cmd.c2 = "RUN2MOV" => t[1] = Move + cmd.c3
        /\ cmd.c2 = "MOV2UPG" => t[1] = Upgrade + cmd.c3
    <3>1. Run = 0 /\ Move = 1
      BY DEF Run, Move
    <3>2. InPlace => cmd.c2 = "UPG2RUN"
      BY <2>2, <2>3
    <3>3. /\ cmd.c2 = "UPG2RUN" => t[1] = cmd.c3 + Run
          /\ cmd.c2 = "RUN2MOV" => t[1] = cmd.c3 + Move
          /\ cmd.c2 = "MOV2UPG" => t[1] = cmd.c3 + upgr_slt
      BY <2>1 DEF ErasedSector
    <3> QED BY <2>2, <3>1, <3>2, <3>3
  <2>6. t[1] \in DOMAIN flash
    BY <2>3, <2>4, <2>5, TypeFlash
  <2>7. ~ InPlace => t[1] = Target(LastCmd) /\ LastCmd.c3 < N
    BY <2>2, <2>3, <2>5 DEF Target, Run, Move
  <2> QED BY <1>1, <2>1, <2>2, <2>3, <2>6, <2>7 DEF Plain
<1>2. CASE at = "copy"
  <2>1. t[1] = job.to /\ t[2] = Crypted(flash[job.from], job.key)
    BY <1>2 DEF Changing
  <2>2. job.to \in DOMAIN flash
    BY <1>2 DEF CmdInv, Jobs
  <2>3. t[2] \in Plain
    <3>1. flash[job.from] \in Plain
      BY <1>2 DEF JobInv, Plain
    <3> QED BY <2>1, <3>1, CryptedPlain
  <2> QED BY <1>2, <2>1, <2>2, <2>3 DEF JobInv
<1>3. CASE at = "unsign"
  <2>1. t[1] = Verify /\ t[2] = Blank
    BY <1>3 DEF Changing
  <2> QED BY <1>3, <2>1, TypeFlash DEF Plain, CmdInv
<1>4. CASE at = "sign"
  <2>1. t[1] = Verify /\ t[2] = Crc(RunContent)
    BY <1>4 DEF Changing
  <2>2. t[2].kind = "crc"
    BY <2>1 DEF Crc
  <2> QED BY <1>4, <2>1, <2>2, TypeFlash DEF CmdInv
<1>5. CASE at = "upload" /\ dfu.n < dfu.of.size
  <2>1. t[1] = Upgrade + dfu.n /\ t[2] = Sec(dfu.of, dfu.n, "sent")
    BY <1>5 DEF Changing
  <2>2. /\ dfu.of \in Images /\ dfu.n \in Int /\ 0 <= dfu.n /\ dfu.of.size <= N
        /\ N \in Int /\ 1 <= N /\ dfu.of.size \in Int
    BY <1>5, Constants DEF CmdInv
  <2>3. dfu.n \in 0..N - 1
    BY <1>5, <2>2
  <2>4. t[2] \in Plain
    BY <2>1, <2>2, <2>3, SecIs DEF Plain
  <2>5. t[1] \in DOMAIN flash /\ t[1] # Run /\ (~ InPlace => t[1] > N)
    BY <2>1, <2>2, <2>3, TypeFlash
  <2> QED BY <1>5, <2>4, <2>5 DEF CmdInv
<1> QED BY <1>1, <1>2, <1>3, <1>4, <1>5 DEF Changing

(* What a power failure leaves of the flash and of the log.                *)
LEMMA LossDoes ==
  ASSUME NEW m \in Images \cup {None}, Assumed, Base(m), PowerLoss
  PROVE  /\ at' = "off" /\ dfu' = None /\ NoSession /\ pending' = pending
         /\ DOMAIN flash' = DOMAIN flash /\ FlashOK(flash')
         /\ flash' = flash \/ \E t \in Changing, c \in Plain : Updated(flash, flash', t[1], c)
         /\ LastCmd' = LastCmd \/ (at = "wipe" /\ flash' = flash /\ LastCmd' = NoCmd)
         /\ LogInv' /\ losses' \in 0..MaxLosses
         /\ log' \in Seq({Torn} \cup Command) /\ Len(log') <= LogSize
<1> USE DEF Base
<1>1. /\ at' = "off" /\ dfu' = None /\ NoSession /\ pending' = pending
      /\ Continue => losses < MaxLosses
      /\ losses' = IF Continue THEN losses + 1 ELSE losses
  BY DEF PowerLoss
<1>2. /\ losses \in Int /\ 0 <= losses /\ losses <= MaxLosses
      /\ N \in Int /\ MaxLosses \in Nat /\ LogSize \in Nat
      /\ LastCmd.c2 \in C2 /\ LastCmd.c3 \in Int /\ 0 <= LastCmd.c3
  BY Commands, Constants
<1>3. losses' \in 0..MaxLosses
  BY <1>1, <1>2
<1>4. FlashOK(flash)
  BY TypeFlash
<1>5. log \in Seq({Torn} \cup Command) /\ Len(log) \in Nat /\ Len(log) <= LogSize
  BY DEF LogInv, Command, TypeOK
<1>6. /\ DOMAIN flash' = DOMAIN flash /\ FlashOK(flash')
      /\ flash' = flash \/ \E t \in Changing, c \in Plain : Updated(flash, flash', t[1], c)
  <2>1. CASE flash' = flash
    BY <1>4, <2>1
  <2>2. CASE \E t \in Changing : \E c \in Damaged(flash[t[1]], t[2]) :
               flash' = [flash EXCEPT ![t[1]] = c]
    <3>1. PICK t \in Changing : \E c \in Damaged(flash[t[1]], t[2]) :
                                   flash' = [flash EXCEPT ![t[1]] = c]
      BY <2>2
    <3>2. PICK c \in Damaged(flash[t[1]], t[2]) : flash' = [flash EXCEPT ![t[1]] = c]
      BY <3>1
    <3>3. t[1] \in DOMAIN flash /\ (t[2] \in Plain \/ t[2].kind = "crc")
      BY ChangingIs
    <3>4. flash[t[1]] \in Plain \/ flash[t[1]].kind = "crc"
      BY <1>4, <3>3 DEF FlashOK
    <3>5. c \in Plain
      BY <3>3, <3>4, DamagedPlain
    <3>6. PICK s \in {t[1]} : TRUE
      OBVIOUS
    <3>7. Updated(flash, [flash EXCEPT ![s] = c], s, c)
      BY <3>3, <3>6, UpdatedBy
    <3>8. Updated(flash, flash', s, c)
      BY <3>2, <3>6, <3>7
    <3>9. DOMAIN flash' = DOMAIN flash
      BY <3>8 DEF Updated
    <3>10. FlashOK(flash')
      BY <1>4, <3>3, <3>5, <3>6, <3>8, UpdatedOK
    <3> QED BY <3>5, <3>6, <3>8, <3>9, <3>10
  <2> QED BY <2>1, <2>2 DEF PowerLoss
<1>7. InPlace' = InPlace
  BY <1>6, SameLayout
<1>8. \/ log' = log
      \/ ~ InPlace /\ Len(log) < LogSize /\ log' = Append(log, Torn) /\ at = "log" /\ flash' = flash
      \/ at = "wipe" /\ log' = <<>> /\ flash' = flash
  <2>1. ASSUME at = "wipe", \E k \in {0} : log' = SubSeq(log, 1, k)
        PROVE  log' = <<>>
    BY <1>5, <2>1
  <2> QED BY <2>1 DEF PowerLoss, Assumed
<1>9. CASE log' = log
  <2>1. /\ LastCmd' = LastCmd /\ Continue' = Continue /\ Swapping' = Swapping
    BY <1>6, <1>9, SameLog
  <2>2. Pos(LastCmd)' = Pos(LastCmd) /\ (Continue => Limit' = Limit + 2) /\ Limit \in Int
    BY <1>1, <1>2, <2>1 DEF Pos, Limit
  <2>3. Continue => /\ Len(log') <= Pos(LastCmd) + losses' /\ LastCmd.c3 <= Limit'
                    /\ LastCmd.c3 + 2 <= Limit'
    <3>1. Continue => Pos(LastCmd) \in Int
      BY <1>2 DEF Pos, C2
    <3> QED BY <1>1, <1>2, <1>5, <1>9, <2>2, <3>1 DEF LogInv
  <2>4. LogInv'
    BY <1>7, <1>9, <2>1, <2>2, <2>3 DEF LogInv
  <2> QED BY <1>1, <1>3, <1>5, <1>6, <1>9, <2>1, <2>4
<1>10. CASE /\ ~ InPlace /\ Len(log) < LogSize /\ log' = Append(log, Torn)
            /\ at = "log" /\ flash' = flash
  <2>1. LastCmd' = LastCmd
    BY <1>5, <1>10, LastIs, LastAppend
  <2>2. Continue' = Continue /\ Swapping' = Swapping
    BY <1>7, <2>1 DEF Continue, Swapping
  <2>3. Pos(LastCmd)' = Pos(LastCmd) /\ (Continue => Limit' = Limit + 2) /\ Limit \in Int
    BY <1>1, <1>2, <2>1 DEF Pos, Limit
  <2>4. Len(log') = Len(log) + 1 /\ log' \in Seq({Torn} \cup Command)
    BY <1>5, <1>10
  <2>5. Continue => /\ Len(log') <= Pos(LastCmd) + losses' /\ LastCmd.c3 <= Limit'
                    /\ LastCmd.c3 + 2 <= Limit'
    <3>1. Continue => Pos(LastCmd) \in Int
      BY <1>2 DEF Pos, C2
    <3> QED BY <1>1, <1>2, <1>5, <2>3, <2>4, <3>1 DEF LogInv
  <2>6. LogInv'
    BY <1>7, <1>10, <2>1, <2>2, <2>3, <2>4, <2>5 DEF LogInv, Command
  <2>7. Len(log') <= LogSize
    BY <1>2, <1>5, <1>10, <2>4
  <2> QED BY <1>1, <1>3, <1>6, <2>1, <2>4, <2>6, <2>7
<1>11. CASE at = "wipe" /\ log' = <<>> /\ flash' = flash
  <2>1. LastCmd' = NoCmd
    BY <1>11, LastIs, LastEmpty
  <2>2. ~ Continue' /\ LastCmd'.c2 = "EMPTY"
    BY <2>1, CommandIs DEF Continue
  <2>3. LogInv'
    BY <1>11, <2>2 DEF LogInv
  <2>4. log' \in Seq({Torn} \cup Command) /\ Len(log') <= LogSize
    BY <1>2, <1>11
  <2> QED BY <1>1, <1>3, <1>6, <1>11, <2>1, <2>3, <2>4
<1> QED BY <1>8, <1>9, <1>10, <1>11

LEMMA PowerLossBase ==
  ASSUME NEW m \in Images \cup {None}, Assumed, Base(m), PowerLoss
  PROVE  Base(m)'
<1> USE DEF Base
<1>1. /\ at' = "off" /\ dfu' = None /\ NoSession /\ pending' = pending
      /\ DOMAIN flash' = DOMAIN flash /\ FlashOK(flash')
      /\ flash' = flash \/ \E t \in Changing, c \in Plain : Updated(flash, flash', t[1], c)
      /\ LastCmd' = LastCmd \/ (at = "wipe" /\ flash' = flash /\ LastCmd' = NoCmd)
      /\ LogInv' /\ losses' \in 0..MaxLosses
      /\ log' \in Seq({Torn} \cup Command) /\ Len(log') <= LogSize
  BY LossDoes
<1>2. InPlace' = InPlace /\ NoCmd.c2 = "EMPTY"
  BY <1>1, SameLayout, CommandIs
<1>3. pending' \in Images \cup {None}
  BY <1>1 DEF TypeOK
<1>4. CmdInv' /\ ~ AtWork' /\ JobInv' /\ Typed'
  BY <1>1, <1>3, SessionOver
<1>5. TypeOK'
  BY <1>1, <1>4, TypeLog
<1>6. (Swapping' => Swapping) /\ (Continue' => Continue /\ LastCmd' = LastCmd)
  BY <1>1, <1>2 DEF Swapping, Continue
<1>7. CASE flash' = flash
  <2>1. VerifyInv'
    BY <1>4, <1>6, <1>7, VerifyKept
  <2>2. Continue' => Comes(flash', N + 1, m, LastCmd')
    BY <1>6, <1>7 DEF ComeInv
  <2> QED BY <1>1, <1>4, <1>5, <2>1, <2>2 DEF ComeInv
<1>8. CASE flash' # flash
  <2>1. PICK t \in Changing, c \in Plain : Updated(flash, flash', t[1], c)
    BY <1>1, <1>8
  <2>2. PICK s \in {t[1]} : TRUE
    OBVIOUS
  <2>3. /\ s \in DOMAIN flash /\ Updated(flash, flash', s, c)
        /\ \/ at \in {"cmd", "copy"} /\ (~ InPlace => Swapping /\ s = Target(LastCmd))
           \/ at \in {"unsign", "sign"} /\ s = Verify /\ ~ Swapping
           \/ at = "upload" /\ ~ Swapping /\ s # Run /\ (~ InPlace => s > N)
    BY <2>1, <2>2, ChangingIs
  <2>4. LastCmd' = LastCmd
    BY <1>1, <1>8
  <2>5. Swapping' = Swapping /\ Continue' = Continue
    BY <1>2, <2>4 DEF Swapping, Continue
  <2>6. Run = 0 /\ Verify = N /\ N \in Int /\ 1 <= N /\ Run \in DOMAIN flash /\ Verify \in DOMAIN flash
    BY TypeFlash, Constants
  <2>7. c.kind # "crc"
    BY PlainIs
  <2>8. VerifyInv'
    <3>1. CASE InPlace
      BY <1>2, <3>1 DEF VerifyInv
    <3>2. CASE ~ InPlace /\ at \in {"cmd", "copy"}
      BY <2>3, <3>2, VerifyWork
    <3>3. CASE at \in {"unsign", "sign"}
      <4>1. flash'[Verify] = c
        BY <2>3, <3>3 DEF Updated
      <4> QED BY <2>7, <4>1, VerifyClear
    <3>4. CASE ~ InPlace /\ at = "upload"
      <4>1. s > N /\ s # Run /\ ~ Swapping
        BY <2>3, <3>4
      <4>2. Validated' = Validated
        BY <2>3, <4>1, RunKept
      <4>3. flash'[Verify] = flash[Verify]
        BY <2>3, <2>6, <4>1 DEF Updated
      <4> QED BY <1>2, <1>4, <2>5, <4>1, <4>2, <4>3 DEF VerifyInv, Verify
    <3> QED BY <2>3, <3>1, <3>2, <3>3, <3>4
  <2>9. ASSUME Continue
        PROVE  Comes(flash', N + 1, m, LastCmd)
    <3>1. ~ InPlace /\ Comes(flash, N + 1, m, LastCmd)
      BY <2>9 DEF Continue, ComeInv
    <3>2. m \in Images /\ m.size \in Int /\ m.size <= N
      BY <3>1, Constants DEF Comes
    <3>3. Run \in DOMAIN flash /\ \A i \in 0..m.size - 1 : N + 1 + i \in DOMAIN flash
      BY <2>6, <3>1, <3>2, TypeFlash
    <3>4. CASE Swapping /\ s = Target(LastCmd)
      <4>1. Spared(N + 1, m, LastCmd, s)
        BY <3>4, LastSpared
      <4> QED BY <2>3, <3>1, <3>3, <4>1, ComesKept
    <3>5. CASE ~ Swapping /\ s # Run
      <4>1. LastCmd.c2 = "FINALISE"
        BY <2>9, <3>5, Commands DEF Swapping, C2
      <4>2. \A i : InRunBy(LastCmd, i)
        BY <4>1 DEF InRunBy
      <4>3. flash'[Run] = flash[Run]
        BY <2>3, <2>6, <3>5 DEF Updated
      <4> QED BY <3>1, <4>2, <4>3 DEF Comes
    <3> QED BY <2>3, <2>6, <3>1, <3>4, <3>5
  <2>10. Continue' => Comes(flash', N + 1, m, LastCmd')
    BY <2>4, <2>5, <2>9
  <2> QED BY <1>1, <1>4, <1>5, <2>8, <2>10 DEF ComeInv
<1> QED BY <1>7, <1>8

-----------------------------------------------------------------------------
(* Every step.                                                             *)
LEMMA InitBase ==
  ASSUME Assumed, Init
  PROVE  \A m \in Images \cup {None} : Base(m)
<1>1. PICK w \in Factory \cup {None}, in_pl \in Layouts :
        flash = [s \in Address(in_pl) |->
                   IF w # None /\ s < w.size THEN Sec(w, s, RunForm(w))
                   ELSE IF w # None /\ s = Verify
                   THEN Crc([i \in 0..w.size - 1 |-> Sec(w, i, RunForm(w))])
                   ELSE Blank]
  BY DEF Init
<1>2. /\ log = <<>> /\ at = "off" /\ cmd = NoCmd /\ job = None
      /\ upgr_ok = FALSE /\ upgr_key = None /\ run_confirmed = FALSE
      /\ in_place = InPlace /\ upgr_slt = Upgrade
      /\ upg2run_done = FALSE /\ mov2upg_done = InPlace
      /\ dfu = None /\ pending = None /\ losses = 0
  BY DEF Init
<1>3. /\ NoCmd \in Command /\ NoCmd.c2 = "EMPTY" /\ NoCmd.c3 = 0
      /\ LastCmd = NoCmd
  BY <1>2, CommandIs, LastIs, LastEmpty
<1>4. ~ Continue /\ ~ Swapping /\ ~ AtWork
  BY <1>2, <1>3 DEF Continue, Swapping, AtWork
<1>5. N \in Int /\ 1 <= N /\ LogSize \in Nat /\ MaxLosses \in Nat
  BY Constants
<1>6. w # None => w \in Images /\ w.size \in Int /\ 1 <= w.size /\ w.size <= N
  BY ImagesAssumption, Constants
<1>7. DOMAIN flash = Address(in_pl) /\ Address(in_pl) \subseteq Nat
      /\ 0 \in Address(in_pl) /\ N \in Address(in_pl)
      /\ \A i \in 0..N - 1 : i \in Address(in_pl)
  BY <1>1, <1>5 DEF Address
<1>8. /\ \A s \in DOMAIN flash : w # None /\ s < w.size => flash[s] = Sec(w, s, RunForm(w))
      /\ \A s \in DOMAIN flash :
           ~ (w # None /\ s < w.size) /\ (w = None \/ s # Verify) => flash[s] = Blank
      /\ w # None => flash[Verify] = Crc([i \in 0..w.size - 1 |-> Sec(w, i, RunForm(w))])
  BY <1>1, <1>5, <1>6, <1>7 DEF Verify
<1>9. FlashOK(flash)
  <2>1. \A s \in DOMAIN flash : w # None /\ s < w.size => flash[s] \in Plain
    <3>1. \A s \in DOMAIN flash : w # None /\ s < w.size => s \in 0..N - 1
      BY <1>5, <1>6, <1>7
    <3>2. w # None => RunForm(w) \in {"sent", "plain", "broken"}
      BY FormIs
    <3> QED BY <1>6, <1>8, <3>1, <3>2, SecIs DEF Plain
  <2>2. \A s \in DOMAIN flash : s # Verify => flash[s] \in Plain
    BY <1>8, <2>1 DEF Plain
  <2>3. flash[Verify] \in Plain \/ flash[Verify].kind = "crc"
    <3>1. CASE w = None
      BY <1>7, <1>8, <3>1 DEF Plain, Verify
    <3>2. CASE w # None
      BY <1>8, <3>2 DEF Crc
    <3> QED BY <3>1, <3>2
  <2>4. DOMAIN flash \in {Address(b) : b \in BOOLEAN}
    BY <1>7, SlotAssumption
  <2> QED BY <2>2, <2>3, <2>4 DEF FlashOK
<1>10. TypeOK
  <2>1. DOMAIN flash \in {Address(b) : b \in Layouts}
    BY <1>7
  <2>2. \A s \in DOMAIN flash :
          \/ flash[s] \in {Blank, Torn} \cup ImageSec
          \/ s = Verify /\ flash[s].kind = "crc"
    BY <1>9 DEF FlashOK, Plain
  <2>3. \A k \in 1..Len(log) : log[k] \in {Torn} \cup [c2: C2, c3: 0..255]
    BY <1>2
  <2>4. Len(log) <= LogSize
    BY <1>2, <1>5
  <2>5. cmd \in [c2: C2, c3: 0..255]
    BY <1>2, <1>3 DEF Command
  <2>6. InPlace \in BOOLEAN /\ Upgrade \in {Move, Upgrade}
    BY DEF InPlace
  <2>7. 0 \in 0..MaxLosses
    BY <1>5
  <2>8. /\ at \in {"off", "swap", "wipe", "cmd", "copy", "log", "unsign", "sign",
                   "app", "loader", "upload", "dead"}
        /\ job = None /\ upgr_ok \in BOOLEAN /\ upgr_key \in Images \cup {None}
        /\ run_confirmed \in BOOLEAN /\ in_place \in BOOLEAN
        /\ upgr_slt \in {Move, Upgrade}
        /\ upg2run_done \in BOOLEAN /\ mov2upg_done \in BOOLEAN
        /\ dfu = None /\ pending \in Images \cup {None} /\ losses \in 0..MaxLosses
    BY <1>2, <2>6, <2>7
  <2> QED BY <2>1, <2>2, <2>3, <2>4, <2>5, <2>8 DEF TypeOK
<1>11. LogInv
  BY <1>2, <1>3, <1>4 DEF LogInv
<1>12. CmdInv
  BY <1>2, <1>3, <1>4 DEF CmdInv
<1>13. VerifyInv
  <2>1. flash[Verify].kind = "crc" => w # None
    BY <1>7, <1>8 DEF Blank, Verify
  <2>2. ASSUME w # None
        PROVE  Validated
    <3>1. flash[Run] = Sec(w, 0, RunForm(w))
      BY <1>6, <1>7, <1>8, <2>2 DEF Run
    <3>2. HasHdr(Run) /\ Hdr(Run) = w
      BY <1>6, <2>2, <3>1, HeaderAt
    <3>3. \A i \in 0..w.size - 1 : flash[Run + i] = Sec(w, i, RunForm(w))
      BY <1>5, <1>6, <1>7, <1>8, <2>2 DEF Run
    <3>4. RunContent = [i \in 0..w.size - 1 |-> Sec(w, i, RunForm(w))]
      BY <3>2, <3>3 DEF RunContent
    <3> QED BY <1>8, <2>2, <3>2, <3>4 DEF Validated
  <2> QED BY <1>4, <2>1, <2>2 DEF VerifyInv
<1>14. JobInv
  BY <1>2 DEF JobInv
<1> QED BY <1>4, <1>10, <1>11, <1>12, <1>13, <1>14 DEF Base, ComeInv

(* Every step but the start of a session keeps the image that comes.       *)
LEMMA KeptBase ==
  ASSUME NEW m \in Images \cup {None}, Assumed, Base(m), [Next]_vars, ~ SwapStart
  PROVE  Base(m)'
<1>1. CASE UNCHANGED vars
  <2>1. UNCHANGED <<flash, log, at, session, dfu, pending, losses>>
    BY <1>1 DEF vars
  <2>2. DOMAIN flash' = DOMAIN flash
    BY <2>1
  <2>3. /\ InPlace' = InPlace /\ Upgrade' = Upgrade /\ LastCmd' = LastCmd
        /\ Continue' = Continue /\ Swapping' = Swapping
    BY <2>1, <2>2, SameLog
  <2>4. AtWork' = AtWork /\ Copied' = Copied /\ Pos(cmd)' = Pos(cmd)
        /\ Pos(LastCmd)' = Pos(LastCmd) /\ Limit' = Limit /\ Undone' = Undone
        /\ Jobs' = Jobs /\ HasHdr(Run)' = HasHdr(Run) /\ Target(LastCmd)' = Target(LastCmd)
    BY <2>1, <2>3 DEF AtWork, Copied, Pos, Limit, Undone, Jobs, HasHdr, session, Run, Target
  <2>5. TypeOK'
    BY <2>1, <2>3 DEF Base, TypeOK, session, Move
  <2>6. LogInv'
    BY <2>1, <2>3, <2>4 DEF Base, LogInv, session
  <2>7. CmdInv'
    BY <2>1, <2>3, <2>4 DEF Base, CmdInv, session
  <2>8. VerifyInv'
    BY <2>1, <2>3, <2>4, VerifyKept DEF Base
  <2>9. JobInv'
    BY <2>1, <2>3, <2>4 DEF Base, JobInv, session
  <2>10. ComeInv(m)'
    BY <2>1, <2>3, <2>4 DEF Base, ComeInv, session
  <2> QED BY <2>5, <2>6, <2>7, <2>8, <2>9, <2>10 DEF Base
<1>2. CASE Boot \/ AppConfirm \/ AppLeaves \/ UploadStart \/ UploadDone \/ Reset
  BY <1>2, IdleBase
<1>4. CASE WipeLog \/ StartMove \/ Run2Mov \/ Upg2RunFirst \/ Upg2RunNext \/ Upg2RunSkip
  BY <1>4, WipeBase, StartMoveBase, Run2MovBase, Upg2RunFirstBase, Upg2RunNextBase,
     Upg2RunSkipBase
<1>5. CASE Mov2Upg \/ Mov2UpgSkip \/ Copy \/ Finalise \/ WriteLog
  BY <1>5, Mov2UpgBase, Mov2UpgSkipBase, CopyBase, FinaliseBase, WriteLogBase
<1>6. CASE EraseVerify \/ WriteVerify \/ UploadSector \/ PowerLoss
  BY <1>6, EraseVerifyBase, WriteVerifyBase, UploadBase, PowerLossBase
<1> QED BY <1>1, <1>2, <1>4, <1>5, <1>6 DEF Next, Step, Environment

(* Every step has an image that comes after it.                            *)
LEMMA StepBase ==
  ASSUME NEW m \in Images \cup {None}, Assumed, Base(m), [Next]_vars
  PROVE  \E w \in Images \cup {None} : Base(w)'
  BY KeptBase, SwapStartBase

(* IInv holds in every reachable state.                                    *)
THEOREM Invariance == Assumed /\ Spec => []IInv
<1> SUFFICES ASSUME Assumed
             PROVE  Spec => []IInv
  OBVIOUS
<1>1. Init => IInv
  BY InitBase DEF IInv
<1>2. IInv /\ [Next]_vars => IInv'
  BY StepBase DEF IInv
<1> QED BY <1>1, <1>2, PTL DEF Spec

(* Type correctness: the sectors, the log, the command and the run info of *)
(* the swapper stay in their ranges, cmd3 in its byte.                     *)
THEOREM TypeCorrect == Assumed /\ Spec => []TypeOK
<1>1. IInv => TypeOK
  BY DEF IInv, Base
<1> QED BY <1>1, Invariance, PTL

(* zb_img_move always knows how much to copy, also after a power failure.  *)
THEOREM LengthIsKnown == Assumed /\ Spec => []LengthKnown
<1> SUFFICES ASSUME Assumed
             PROVE  Spec => []LengthKnown
  OBVIOUS
<1>1. IInv => LengthKnown
  <2>1. ASSUME IInv, at = "cmd", cmd.c2 = "UPG2RUN", cmd.c3 > 0
        PROVE  HasHdr(Run)
    <3>1. PICK m \in Images \cup {None} : Base(m)
      BY <2>1 DEF IInv
    <3>2. Comes(flash, Upgrade, m, cmd) /\ m \in Images
      BY <2>1, <3>1, Working
    <3>3. InRunBy(cmd, 0)
      BY <2>1 DEF InRunBy
    <3> QED BY <3>2, <3>3, HeaderAt DEF Comes
  <2> QED BY <2>1 DEF LengthKnown
<1> QED BY <1>1, Invariance, PTL

-----------------------------------------------------------------------------
(* A device that has started an image keeps one to start.                  *)

(* What a step does to the sectors and to the last command in the log, but *)
(* for the write of a command.                                             *)
Exposed(s) == \/ ~ InPlace => Swapping /\ s = Target(LastCmd) /\ LastCmd.c3 < N
              \/ s = Verify /\ ~ Swapping /\ HasHdr(Run)
              \/ ~ Swapping /\ s # Run /\ (~ InPlace => s > N)

Written(x) == x \in Plain \/ (at = "sign" /\ x = Crc(RunContent))

Touched == \E s \in DOMAIN flash :
             Exposed(s) /\ \E x : Written(x) /\ Updated(flash, flash', s, x)

FlashStep ==
  /\ DOMAIN flash' = DOMAIN flash
  /\ flash' = flash \/ Touched
  /\ \/ LastCmd' = LastCmd
     \/ ~ Swapping /\ flash' = flash /\ LastCmd' = NoCmd

LEMMA MoveStep ==
  ASSUME NEW m \in Images \cup {None}, Assumed, Base(m),
         Run2Mov \/ Upg2RunFirst \/ Upg2RunNext \/ Mov2Upg
  PROVE  FlashStep
<1> USE DEF Base
<1>1. /\ at = "cmd" /\ cmd.c2 \in {"RUN2MOV", "UPG2RUN", "MOV2UPG"} /\ log' = log
  BY DEF Run2Mov, Upg2RunFirst, Upg2RunNext, Mov2Upg
<1>2. ~ InPlace => Swapping /\ cmd = LastCmd
  BY <1>1, Working
<1>3. InPlace => cmd.c2 = "UPG2RUN"
  BY <1>1, Working
<1>4. DOMAIN flash' = DOMAIN flash
      /\ \/ flash' = flash
         \/ \E s : ErasedOne(s) /\ (~ InPlace => s = Target(cmd) /\ cmd.c3 < N)
  <2>1. ~ InPlace => Upgrade = N + 1 /\ upgr_slt = Upgrade
    BY <1>1, TypeFlash, Working
  <2>2. N \in Int /\ 1 <= N /\ Move = 1 /\ Run = 0
    BY Constants DEF Run, Move
  <2>3. CASE Run2Mov
    <3>1. flash' = ErasedIn(Move, cmd.c3) /\ cmd.c2 = "RUN2MOV"
      BY <2>3 DEF Run2Mov
    <3>2. cmd.c3 \in Int /\ 0 <= cmd.c3 /\ cmd.c3 < N
      BY <1>1, <3>1, Commands DEF CmdInv
    <3>3. Move + cmd.c3 \in DOMAIN flash
      BY <3>2, TypeFlash
    <3>4. ErasedOne(Move + cmd.c3) /\ DOMAIN flash' = DOMAIN flash
      BY <3>1, <3>2, <3>3, ErasedFlash
    <3>5. Target(cmd) = Move + cmd.c3
      BY <2>2, <3>1, <3>2 DEF Target
    <3> QED BY <3>2, <3>4, <3>5
  <2>4. CASE Upg2RunFirst
    <3>1. cmd.c2 = "UPG2RUN" /\ cmd.c3 = 0 /\ ErasedOne(Run) /\ DOMAIN flash' = DOMAIN flash
      BY <2>4, FirstDoes
    <3>2. Target(cmd) = Run
      BY <3>1 DEF Target, Run
    <3> QED BY <2>2, <3>1, <3>2
  <2>5. CASE Upg2RunNext
    <3>1. /\ cmd.c2 = "UPG2RUN" /\ DOMAIN flash' = DOMAIN flash
          /\ cmd.c3 < N => ErasedOne(Run + cmd.c3)
          /\ ~ (cmd.c3 < N) => flash' = flash
      BY <2>5, NextDoes
    <3>2. cmd.c3 \in Int
      BY Commands
    <3>3. Target(cmd) = Run + cmd.c3
      BY <3>1, <3>2 DEF Target, Run
    <3> QED BY <3>1, <3>3
  <2>6. CASE Mov2Upg
    <3>1. /\ cmd.c2 = "MOV2UPG" /\ DOMAIN flash' = DOMAIN flash /\ ~ InPlace
          /\ cmd.c3 < N => ErasedOne(Upgrade + cmd.c3)
          /\ ~ (cmd.c3 < N) => flash' = flash
      BY <2>6, Mov2UpgDoes
    <3>2. cmd.c3 \in Int
      BY Commands
    <3>3. Target(cmd) = Upgrade + cmd.c3
      BY <2>1, <2>2, <3>1, <3>2 DEF Target
    <3> QED BY <3>1, <3>3
  <2> QED BY <2>3, <2>4, <2>5, <2>6
<1>5. LastCmd' = LastCmd
  BY <1>1, <1>4, SameLog
<1>6. flash' = flash \/ Touched
  <2>1. Written(Blank)
    BY PlainIs DEF Written, Plain
  <2> QED BY <1>2, <1>4, <2>1 DEF ErasedOne, Touched, Exposed
<1> QED BY <1>4, <1>5, <1>6 DEF FlashStep

(* What every step but WriteLog does.                                      *)
LEMMA FlashSteps ==
  ASSUME NEW m \in Images \cup {None}, Assumed, Base(m), [Next]_vars, ~ WriteLog
  PROVE  FlashStep
<1> USE DEF Base
<1>1. ASSUME flash' = flash, log' = log
      PROVE  FlashStep
  <2>1. DOMAIN flash' = DOMAIN flash
    BY <1>1
  <2>2. LastCmd' = LastCmd
    BY <1>1, <2>1, SameLog
  <2> QED BY <1>1, <2>1, <2>2 DEF FlashStep
<1>2. CASE WipeLog
  <2>1. at = "wipe" /\ flash' = flash /\ log' = <<>>
    BY <1>2 DEF WipeLog
  <2>2. ~ Swapping
    BY <2>1, Commands DEF CmdInv
  <2>3. LastCmd' = NoCmd
    BY <2>1, LastIs, LastEmpty
  <2> QED BY <2>1, <2>2, <2>3 DEF FlashStep
<1>3. CASE Copy
  <2>1. PICK x \in {Crypted(flash[job.from], job.key)}, s \in {job.to} : TRUE
    OBVIOUS
  <2>2. /\ s \in DOMAIN flash /\ Updated(flash, flash', s, x)
        /\ DOMAIN flash' = DOMAIN flash /\ Written(x)
    BY <1>3, <2>1, CopyDoes DEF Written
  <2>3. at = "copy" /\ log' = log
    BY <1>3 DEF Copy
  <2>4. LastCmd' = LastCmd
    BY <2>2, <2>3, SameLog
  <2>5. ~ InPlace => Swapping /\ s = Target(LastCmd) /\ LastCmd.c3 < N
    BY <2>1, <2>3 DEF JobInv
  <2> QED BY <2>2, <2>4, <2>5 DEF FlashStep, Touched, Exposed
<1>4. CASE EraseVerify \/ WriteVerify
  <2>1. PICK x : flash' = [flash EXCEPT ![Verify] = x] /\ Written(x)
    BY <1>4 DEF EraseVerify, WriteVerify, Written, Plain
  <2>2. Verify \in DOMAIN flash /\ log' = log
    BY <1>4, TypeFlash DEF EraseVerify, WriteVerify
  <2>3. Updated(flash, flash', Verify, x) /\ DOMAIN flash' = DOMAIN flash
    BY <2>1, <2>2, UpdatedBy
  <2>4. LastCmd' = LastCmd
    BY <2>2, <2>3, SameLog
  <2>5. Exposed(Verify) /\ Written(x)
    <3>1. at \in {"unsign", "sign"}
      BY <1>4 DEF EraseVerify, WriteVerify
    <3>2. ~ Swapping /\ HasHdr(Run)
      BY <3>1 DEF CmdInv
    <3> QED BY <2>1, <3>2 DEF Exposed
  <2>6. Touched
    BY <2>2, <2>3, <2>5 DEF Touched
  <2> QED BY <2>3, <2>4, <2>6 DEF FlashStep
<1>5. CASE UploadSector
  <2>1. PICK s \in {Upgrade + dfu.n}, x \in {Sec(dfu.of, dfu.n, "sent")} :
          flash' = [flash EXCEPT ![s] = x]
    BY <1>5 DEF UploadSector
  <2>2. at = "upload" /\ log' = log /\ dfu.n < dfu.of.size
    BY <1>5 DEF UploadSector
  <2>3. ~ Swapping /\ dfu \in [of : Images, n : 0..N]
    BY <2>2 DEF CmdInv
  <2>4. dfu.n \in 0..N - 1
    BY <2>2, <2>3, Constants
  <2>5. s \in DOMAIN flash /\ s # Run /\ (~ InPlace => s > N)
    BY <2>1, <2>4, TypeFlash, Constants
  <2>6. Updated(flash, flash', s, x) /\ DOMAIN flash' = DOMAIN flash
    BY <2>1, <2>5, UpdatedBy
  <2>7. LastCmd' = LastCmd
    BY <2>2, <2>6, SameLog
  <2>8. Written(x)
    <3>1. dfu.of \in Images
      BY <2>3
    <3> QED BY <2>1, <2>4, <3>1, SecIs DEF Written, Plain
  <2> QED BY <2>3, <2>5, <2>6, <2>7, <2>8 DEF FlashStep, Touched, Exposed
<1>6. CASE PowerLoss
  <2>1. /\ DOMAIN flash' = DOMAIN flash
        /\ flash' = flash \/ \E t \in Changing, c \in Plain : Updated(flash, flash', t[1], c)
        /\ LastCmd' = LastCmd \/ (at = "wipe" /\ flash' = flash /\ LastCmd' = NoCmd)
    BY <1>6, LossDoes
  <2>2. at = "wipe" => ~ Swapping
    BY Commands DEF CmdInv
  <2>3. ASSUME NEW t \in Changing, NEW c \in Plain, Updated(flash, flash', t[1], c)
        PROVE  Touched
    <3>1. PICK s \in {t[1]} : TRUE
      OBVIOUS
    <3>2. /\ s \in DOMAIN flash
          /\ \/ ~ InPlace => Swapping /\ s = Target(LastCmd) /\ LastCmd.c3 < N
             \/ s = Verify /\ ~ Swapping /\ HasHdr(Run)
             \/ ~ Swapping /\ s # Run /\ (~ InPlace => s > N)
      <4>1. at \in {"unsign", "sign"} => HasHdr(Run)
        BY DEF CmdInv
      <4> QED BY <3>1, <4>1, ChangingIs
    <3>3. Exposed(s) /\ Updated(flash, flash', s, c) /\ Written(c)
      BY <2>3, <3>1, <3>2 DEF Exposed, Written
    <3> QED BY <3>2, <3>3 DEF Touched
  <2> QED BY <2>1, <2>2, <2>3 DEF FlashStep
<1>7. CASE \/ UNCHANGED vars \/ Boot \/ SwapStart \/ StartMove \/ Upg2RunSkip
           \/ Mov2UpgSkip \/ Finalise \/ UploadDone \/ AppConfirm \/ AppLeaves
           \/ UploadStart \/ Reset
  BY <1>1, <1>7 DEF vars, Boot, SwapStart, StartMove, Upg2RunSkip, Mov2UpgSkip,
     Finalise, UploadDone, AppConfirm, AppLeaves, UploadStart, Reset
<1>8. CASE Run2Mov \/ Upg2RunFirst \/ Upg2RunNext \/ Mov2Upg
  BY <1>8, MoveStep
<1> QED BY <1>2, <1>3, <1>4, <1>5, <1>6, <1>7, <1>8 DEF Next, Step, Environment

-----------------------------------------------------------------------------
(* There is a first sector of an image to start, or a swap under way that  *)
(* brings one.                                                             *)
Alive == /\ ~ InPlace => HasHdr(Run) \/ Swapping
         /\ at # "dead"

LEMMA AliveStep ==
  ASSUME NEW m \in Images \cup {None}, Assumed, Base(m), [Next]_vars, Alive
  PROVE  Alive'
<1> USE DEF Base
<1>1. CASE WriteLog
  <2>1. /\ flash' = flash /\ InPlace' = InPlace /\ AtWork /\ at = "log"
        /\ ~ InPlace => LastCmd' = cmd
        /\ cmd.c2 # "EMPTY" /\ cmd.c2 \in C2
    BY <1>1, WriteDoes, Commands
  <2>2. HasHdr(Run)' = HasHdr(Run)
    BY <2>1 DEF HasHdr, Run
  <2>3. cmd.c2 \in {"FINALISE", "SWP_END"} => HasHdr(Run)
    <3>1. Comes(flash, Upgrade, m, cmd)
      BY <2>1 DEF ComeInv, Copied
    <3>2. cmd.c2 \in {"FINALISE", "SWP_END"} => InRunBy(cmd, 0)
      BY DEF InRunBy
    <3> QED BY <3>1, <3>2, HeaderAt DEF Comes
  <2>4. ~ InPlace' => HasHdr(Run)' \/ Swapping'
    BY <2>1, <2>2, <2>3 DEF Swapping, C2
  <2>5. at' # "dead"
    BY <1>1, <2>3 DEF WriteLog, JumpRun
  <2> QED BY <2>4, <2>5 DEF Alive
<1>2. CASE ~ WriteLog
  <2>1. FlashStep
    BY <1>2, FlashSteps
  <2>2. InPlace' = InPlace
    BY <2>1, SameLayout DEF FlashStep
  <2>3. LastCmd' = LastCmd => Swapping' = Swapping
    BY <2>2 DEF Swapping
  <2>4. Run = 0 /\ Verify = N /\ N \in Int /\ 1 <= N /\ Run \in DOMAIN flash
    BY TypeFlash, Constants
  <2>5. flash'[Run] = flash[Run] => HasHdr(Run)' = HasHdr(Run)
    BY DEF HasHdr, Run
  <2>6. ~ InPlace /\ ~ Swapping => flash'[Run] = flash[Run]
    BY <2>1, <2>4 DEF FlashStep, Touched, Exposed, Updated
  <2>7. ~ InPlace' => HasHdr(Run)' \/ Swapping'
    <3>1. CASE LastCmd' = LastCmd
      BY <2>2, <2>3, <2>5, <2>6, <3>1 DEF Alive
    <3>2. CASE ~ Swapping
      BY <2>2, <2>5, <2>6, <3>2 DEF Alive
    <3> QED BY <2>1, <3>1, <3>2 DEF FlashStep
  <2>8. at' # "dead"
    <3>1. CASE SwapStart
      <4>1. Swapping => Continue
        BY Commands
      <4> QED BY <3>1, <4>1 DEF SwapStart, JumpRun, Alive, Validated
    <3>2. CASE UNCHANGED vars \/ Boot \/ WipeLog \/ StartMove \/ Run2Mov \/ Upg2RunFirst
      BY <3>2 DEF vars, Boot, WipeLog, StartMove, Run2Mov, Upg2RunFirst, AfterUpg2Run,
         Goto, Alive
    <3>3. CASE Upg2RunNext \/ Upg2RunSkip \/ Mov2Upg \/ Mov2UpgSkip \/ Copy \/ Finalise
      BY <3>3 DEF Upg2RunNext, AfterUpg2Run, Upg2RunSkip, Mov2Upg, Mov2UpgSkip, Copy,
         Finalise, Goto
    <3>4. CASE EraseVerify \/ WriteVerify \/ UploadSector \/ UploadDone \/ PowerLoss
      BY <3>4 DEF EraseVerify, WriteVerify, UploadSector, UploadDone, PowerLoss
    <3>5. CASE AppConfirm \/ AppLeaves \/ UploadStart \/ Reset
      BY <3>5 DEF AppConfirm, AppLeaves, UploadStart, Reset
    <3> QED BY <1>2, <3>1, <3>2, <3>3, <3>4, <3>5 DEF Next, Step, Environment
  <2> QED BY <2>7, <2>8 DEF Alive
<1> QED BY <1>1, <1>2

(* A device that has started an image has one to start ever after: no      *)
(* order of steps and power failures leaves the swapper with nothing to    *)
(* jump to.                                                                *)
THEOREM StaysAliveHolds == Assumed /\ Spec => StaysAlive
<1> SUFFICES ASSUME Assumed
             PROVE  Spec => StaysAlive
  OBVIOUS
<1>1. IInv /\ at = "app" => Alive
  BY DEF IInv, Base, CmdInv, Alive
<1>2. IInv /\ Alive /\ [Next]_vars => Alive'
  BY AliveStep DEF IInv
<1>3. Alive => at # "dead"
  BY DEF Alive
<1>4. Spec => []IInv
  BY Invariance
<1> QED BY <1>1, <1>2, <1>3, <1>4, PTL DEF Spec, StaysAlive

-----------------------------------------------------------------------------
(* What is started, and what is signed, is whole.                          *)

(* The sectors of the image that comes that are in the run slot.           *)
LoggedArrived(m) == Continue => Arrived(flash, m, LastCmd)

(* A swap that goes on after a restart is at a point where the key is not  *)
(* needed, or is computed again.                                           *)
Resumes(m) == Continue /\ at \in {"off", "swap"} => Easy(m, LastCmd)

WorkArrived(m) ==
  AtWork => Arrived(Copied, m, cmd) /\ (upgr_ok \/ Easy(m, cmd))

StandsWhole == ~ InPlace /\ ~ Swapping /\ HasHdr(Run) => RunWhole

StartsWhole == at \in {"app", "unsign", "sign"} => RunWhole

SignedWhole ==
  flash[Verify].kind = "crc" => \E w \in Images : flash[Verify] = Full(w)

Whole3 == StandsWhole /\ StartsWhole /\ SignedWhole

Arrives(m) == LoggedArrived(m) /\ Resumes(m) /\ WorkArrived(m) /\ Whole3

-----------------------------------------------------------------------------
LEMMA ArrivedKept ==
  ASSUME NEW m \in Images, NEW f, NEW g, NEW s, NEW x, Updated(f, g, s, x), NEW c,
         \A i \in 0..m.size - 1 : Run + i \in DOMAIN f,
         \A i \in 0..m.size - 1 : InRunBy(c, i) => s # Run + i,
         Arrived(f, m, c)
  PROVE  Arrived(g, m, c)
  BY DEF Arrived, Updated

(* The sector a command writes is none that has arrived.                   *)
LEMMA TargetNew ==
  ASSUME NEW m \in Images, NEW c \in Command,
         c.c2 \in {"RUN2MOV", "UPG2RUN", "MOV2UPG"}
  PROVE  \A i \in 0..m.size - 1 : InRunBy(c, i) => Target(c) # Run + i
<1>1. c.c3 \in Int /\ 0 <= c.c3 /\ N \in Int /\ 1 <= N /\ Run = 0
      /\ m.size \in Int /\ m.size <= N
  <2>1. c.c3 \in 0..255
    BY CommandIs
  <2> QED BY <2>1, Constants DEF Run
<1>2. CASE c.c2 = "RUN2MOV"
  BY <1>2 DEF InRunBy
<1>3. CASE c.c2 = "UPG2RUN"
  BY <1>1, <1>3 DEF InRunBy, Target
<1>4. CASE c.c2 = "MOV2UPG"
  BY <1>1, <1>4 DEF InRunBy, Target
<1> QED BY <1>2, <1>3, <1>4

(* The run image is all there at the end of a swap.                        *)
LEMMA ArrivedWhole ==
  ASSUME TypeOK, NEW m, NEW u, NEW c, c.c2 \in {"FINALISE", "SWP_END"},
         Comes(flash, u, m, c), Arrived(flash, m, c)
  PROVE  HasHdr(Run) /\ Hdr(Run) = m /\ RunWhole
<1>1. \A i : InRunBy(c, i)
  BY DEF InRunBy
<1>2. m \in Images /\ flash[Run] = Sec(m, 0, RunForm(m))
  BY <1>1 DEF Comes
<1>3. HasHdr(Run) /\ Hdr(Run) = m
  BY <1>2, HeaderAt
<1> QED BY <1>1, <1>3 DEF Arrived, RunWhole, Holds

(* An image with a right CRC was whole when the CRC was written.           *)
LEMMA ValidatedWhole ==
  ASSUME TypeOK, SignedWhole, Validated
  PROVE  RunWhole
<1>1. HasHdr(Run) /\ flash[Verify] = Crc(RunContent)
  BY DEF Validated
<1>2. flash[Verify].kind = "crc" /\ flash[Verify].of = RunContent
  BY <1>1 DEF Crc
<1>3. PICK w \in Images : flash[Verify] = Full(w)
  BY <1>2 DEF SignedWhole
<1>4. flash[Verify].of = [i \in 0..w.size - 1 |-> Sec(w, i, RunForm(w))]
  BY <1>3 DEF Full, Crc
<1>5. [i \in 0..Hdr(Run).size - 1 |-> flash[Run + i]]
        = [i \in 0..w.size - 1 |-> Sec(w, i, RunForm(w))]
  BY <1>2, <1>4 DEF RunContent
<1>6. PICK m \in {Hdr(Run)} : TRUE
  OBVIOUS
<1>7. /\ m.size \in Int /\ 1 <= m.size /\ w.size \in Int /\ 1 <= w.size
  BY <1>1, <1>3, <1>6, TypeFlash, HeaderIs, Constants
<1>8. 0..m.size - 1 = 0..w.size - 1
      /\ \A i \in 0..m.size - 1 : flash[Run + i] = Sec(w, i, RunForm(w))
  <2> DEFINE F == [i \in 0..m.size - 1 |-> flash[Run + i]]
             G == [i \in 0..w.size - 1 |-> Sec(w, i, RunForm(w))]
  <2>1. F = G
    BY <1>5, <1>6
  <2>2. DOMAIN F = 0..m.size - 1 /\ \A i \in 0..m.size - 1 : F[i] = flash[Run + i]
    OBVIOUS
  <2>3. DOMAIN G = 0..w.size - 1 /\ \A i \in 0..w.size - 1 : G[i] = Sec(w, i, RunForm(w))
    OBVIOUS
  <2> HIDE DEF F, G
  <2> QED BY <2>1, <2>2, <2>3
<1>9. flash[Run] = Sec(w, 0, RunForm(w))
  BY <1>7, <1>8 DEF Run
<1>10. m = w
  BY <1>3, <1>6, <1>9, HeaderAt
<1> QED BY <1>6, <1>8, <1>10 DEF RunWhole, Holds

-----------------------------------------------------------------------------
(* What every step but the write of a command keeps.                       *)
LEMMA LoggedKept ==
  ASSUME NEW m \in Images \cup {None}, Assumed, Base(m), FlashStep, LoggedArrived(m)
  PROVE  LoggedArrived(m)'
<1> USE DEF Base
<1>1. InPlace' = InPlace /\ DOMAIN flash' = DOMAIN flash
  BY SameLayout DEF FlashStep
<1>2. SUFFICES ASSUME Continue'
               PROVE  Arrived(flash', m, LastCmd')
  BY DEF LoggedArrived
<1>3. LastCmd' = LastCmd /\ Continue /\ ~ InPlace
  BY <1>1, <1>2, CommandIs DEF FlashStep, Continue
<1>4. m \in Images /\ Arrived(flash, m, LastCmd)
  BY <1>3 DEF LoggedArrived, ComeInv, Comes
<1>5. CASE flash' = flash
  BY <1>3, <1>4, <1>5
<1>6. CASE Touched
  <2>1. PICK s \in DOMAIN flash : Exposed(s) /\ \E x : Updated(flash, flash', s, x)
    BY <1>6 DEF Touched
  <2>2. PICK x : Updated(flash, flash', s, x)
    BY <2>1
  <2>3. /\ m.size \in Int /\ 1 <= m.size /\ m.size <= N /\ N \in Int
        /\ Run = 0 /\ Verify = N
        /\ \A i \in 0..m.size - 1 : Run + i \in DOMAIN flash
    BY <1>4, TypeFlash, Constants
  <2>4. \A i \in 0..m.size - 1 : InRunBy(LastCmd, i) => s # Run + i
    <3>1. CASE Swapping /\ s = Target(LastCmd)
      <4>1. LastCmd \in Command /\ LastCmd.c2 \in {"RUN2MOV", "UPG2RUN", "MOV2UPG"}
        BY <3>1, Commands DEF Swapping
      <4> QED BY <1>4, <3>1, <4>1, TargetNew
    <3>2. CASE s = Verify \/ s > N
      BY <2>3, <3>2
    <3> QED BY <1>3, <2>1, <3>1, <3>2 DEF Exposed
  <2>5. Arrived(flash', m, LastCmd)
    BY <1>4, <2>2, <2>3, <2>4, ArrivedKept
  <2> QED BY <1>3, <2>5
<1> QED BY <1>5, <1>6 DEF FlashStep

LEMMA StandsKept ==
  ASSUME NEW m \in Images \cup {None}, Assumed, Base(m), FlashStep, StandsWhole
  PROVE  StandsWhole'
<1> USE DEF Base
<1>1. InPlace' = InPlace /\ DOMAIN flash' = DOMAIN flash
  BY SameLayout DEF FlashStep
<1>2. SUFFICES ASSUME ~ InPlace, ~ Swapping', HasHdr(Run)'
               PROVE  RunWhole'
  BY <1>1 DEF StandsWhole
<1>3. ~ Swapping
  BY <1>1, <1>2 DEF FlashStep, Swapping
<1>4. CASE flash' = flash
  BY <1>2, <1>3, <1>4 DEF StandsWhole, HasHdr, Hdr, RunWhole, Holds, Run
<1>5. CASE Touched
  <2>1. PICK s \in DOMAIN flash : Exposed(s) /\ \E x : Updated(flash, flash', s, x)
    BY <1>5 DEF Touched
  <2>2. PICK x : Updated(flash, flash', s, x)
    BY <2>1
  <2>3. s = Verify \/ s > N
    BY <1>2, <1>3, <2>1 DEF Exposed
  <2>4. Run = 0 /\ Verify = N /\ N \in Int /\ 1 <= N /\ Run \in DOMAIN flash
    BY TypeFlash, Constants
  <2>5. \A i \in 0..N - 1 : flash'[Run + i] = flash[Run + i]
    BY <2>2, <2>3, <2>4, TypeFlash DEF Updated
  <2>6. flash'[Run] = flash[Run]
    BY <2>2, <2>3, <2>4 DEF Updated
  <2>7. HasHdr(Run) /\ Hdr(Run)' = Hdr(Run)
    BY <1>2, <2>6 DEF HasHdr, Hdr, Run
  <2>8. Hdr(Run).size \in Int /\ Hdr(Run).size <= N
    BY <2>4, <2>7, HeaderIs
  <2>9. RunWhole
    BY <1>2, <1>3, <2>7 DEF StandsWhole
  <2> QED BY <2>4, <2>5, <2>7, <2>8, <2>9 DEF RunWhole, Holds, Run
<1> QED BY <1>4, <1>5 DEF FlashStep

LEMMA SignedKept ==
  ASSUME NEW m \in Images \cup {None}, Assumed, Base(m), FlashStep, SignedWhole, StartsWhole
  PROVE  SignedWhole'
<1> USE DEF Base
<1>1. CASE flash' = flash
  BY <1>1 DEF SignedWhole, Verify
<1>2. CASE Touched
  <2>1. PICK s \in DOMAIN flash : \E x : Written(x) /\ Updated(flash, flash', s, x)
    BY <1>2 DEF Touched
  <2>2. PICK x : Written(x) /\ Updated(flash, flash', s, x)
    BY <2>1
  <2>3. Verify \in DOMAIN flash
    BY TypeFlash
  <2>4. flash'[Verify] = flash[Verify] \/ flash'[Verify] = x
    BY <2>2, <2>3 DEF Updated
  <2>5. x.kind = "crc" => \E w \in Images : x = Full(w)
    <3>1. CASE x \in Plain
      BY <3>1, PlainIs
    <3>2. CASE at = "sign" /\ x = Crc(RunContent)
      <4>1. HasHdr(Run) /\ RunWhole
        BY <3>2 DEF CmdInv, StartsWhole
      <4>2. PICK w \in {Hdr(Run)} : TRUE
        OBVIOUS
      <4>3. w \in Images
        BY <4>1, <4>2, TypeFlash, HeaderIs
      <4>4. \A i \in 0..w.size - 1 : flash[Run + i] = Sec(w, i, RunForm(w))
        BY <4>1, <4>2 DEF RunWhole, Holds
      <4>5. RunContent = [i \in 0..w.size - 1 |-> Sec(w, i, RunForm(w))]
        BY <4>2, <4>4 DEF RunContent
      <4> QED BY <3>2, <4>3, <4>5 DEF Full
    <3> QED BY <2>2, <3>1, <3>2 DEF Written
  <2> QED BY <2>4, <2>5 DEF SignedWhole, Verify
<1> QED BY <1>1, <1>2 DEF FlashStep

-----------------------------------------------------------------------------
LEMMA ResumesKept ==
  ASSUME NEW m \in Images \cup {None}, Assumed, Base(m), FlashStep, Resumes(m),
         at' \in {"off", "swap"} => \/ at \in {"off", "swap"} \/ ~ Swapping \/ Restartable
  PROVE  Resumes(m)'
<1> USE DEF Base
<1>1. InPlace' = InPlace
  BY SameLayout DEF FlashStep
<1>2. SUFFICES ASSUME Continue', at' \in {"off", "swap"}
               PROVE  Easy(m, LastCmd')
  BY DEF Resumes
<1>3. LastCmd' = LastCmd /\ Continue /\ ~ InPlace
  BY <1>1, <1>2, CommandIs DEF FlashStep, Continue
<1>4. Comes(flash, N + 1, m, LastCmd) /\ LastCmd.c2 \in C2 /\ LastCmd.c3 \in Int
      /\ 0 <= LastCmd.c3
  BY <1>3, Commands DEF ComeInv
<1>5. CASE at \in {"off", "swap"}
  BY <1>3, <1>5 DEF Resumes
<1>6. CASE ~ Swapping
  BY <1>3, <1>4, <1>6 DEF Swapping, Continue, C2, Easy
<1>7. CASE Swapping /\ Restartable
  <2>1. InRunBy(LastCmd, 0) => Hdr(Run) = m
    BY <1>4, HeaderAt DEF Comes
  <2>2. LastCmd.c2 = "UPG2RUN" /\ LastCmd.c3 # 0 => InRunBy(LastCmd, 0)
    BY <1>4 DEF InRunBy
  <2>3. LastCmd.c2 = "MOV2UPG" => InRunBy(LastCmd, 0)
    BY <1>4 DEF InRunBy
  <2> QED BY <1>3, <1>7, <2>1, <2>2, <2>3 DEF Restartable, Easy
<1> QED BY <1>2, <1>5, <1>6, <1>7

LEMMA RunWholeSame ==
  ASSUME flash' = flash
  PROVE  RunWhole' = RunWhole /\ HasHdr(Run)' = HasHdr(Run) /\ Hdr(Run)' = Hdr(Run)
  BY DEF RunWhole, Holds, HasHdr, Hdr, Run

LEMMA RunWholeApart ==
  ASSUME TypeOK, HasHdr(Run), RunWhole, NEW x, Updated(flash, flash', Verify, x)
  PROVE  RunWhole'
<1>1. Run = 0 /\ Verify = N /\ N \in Int /\ 1 <= N /\ Run \in DOMAIN flash
  BY TypeFlash, Constants
<1>2. Hdr(Run).size \in Int /\ Hdr(Run).size <= N
  BY <1>1, HeaderIs
<1>3. \A i \in 0..N - 1 : flash'[Run + i] = flash[Run + i]
  BY <1>1, TypeFlash DEF Updated
<1>4. flash'[Run] = flash[Run]
  BY <1>1 DEF Updated
<1>5. Hdr(Run)' = Hdr(Run)
  BY <1>4 DEF Hdr, Run
<1> QED BY <1>1, <1>2, <1>3, <1>5 DEF RunWhole, Holds, Run

(* While it waits, or is interrupted, the processor does not swap.         *)
LEMMA NoWork ==
  ASSUME NEW m \in Images \cup {None}, Assumed, Base(m),
         \/ Boot \/ AppConfirm \/ AppLeaves \/ UploadStart \/ UploadDone \/ Reset
         \/ UploadSector \/ PowerLoss
  PROVE  ~ AtWork'
<1> USE DEF Base
<1>1. CASE PowerLoss
  BY <1>1 DEF PowerLoss, AtWork
<1>2. CASE \/ Boot \/ AppConfirm \/ AppLeaves \/ UploadStart \/ UploadDone \/ Reset
           \/ UploadSector
  <2>1. /\ at \in {"off", "app", "loader", "dead", "upload"} /\ cmd' = cmd
        /\ at' \in {"off", "app", "swap", "loader", "unsign", "upload"}
    BY <1>2 DEF Boot, AppConfirm, AppLeaves, UploadStart, UploadDone, Reset,
       UploadSector, session
  <2>2. ~ AtWork
    BY <2>1 DEF AtWork
  <2>3. cmd = NoCmd /\ NoCmd.c2 = "EMPTY"
    BY <2>2, CommandIs DEF CmdInv
  <2> QED BY <2>1, <2>3 DEF AtWork
<1> QED BY <1>1, <1>2

(* What is whole in the run slot and started, or about to be confirmed.    *)
LEMMA StartsNext ==
  ASSUME NEW m \in Images \cup {None}, Assumed, Base(m), [Next]_vars, ~ WriteLog,
         Arrives(m), FlashStep
  PROVE  StartsWhole'
<1> USE DEF Base
<1>1. SUFFICES ASSUME at' \in {"app", "unsign", "sign"}
               PROVE  RunWhole'
  BY DEF StartsWhole
<1>2. ASSUME flash' = flash, RunWhole
      PROVE  RunWhole'
  BY <1>2, RunWholeSame
<1>3. Validated => RunWhole
  BY ValidatedWhole DEF Arrives, Whole3
<1>4. ~ InPlace /\ ~ Swapping /\ HasHdr(Run) => RunWhole
  BY DEF Arrives, Whole3, StandsWhole
<1>5. at \in {"app", "unsign", "sign"} => RunWhole /\ HasHdr(Run)
  BY DEF Arrives, Whole3, StartsWhole, CmdInv
<1>6. CASE Boot \/ UploadDone \/ AppConfirm \/ UploadStart
  <2>1. flash' = flash
    BY <1>6 DEF Boot, UploadDone, AppConfirm, UploadStart
  <2>2. CASE Boot
    BY <1>1, <1>2, <1>3, <2>1, <2>2 DEF Boot
  <2>3. CASE UploadDone
    <3>1. at = "upload" /\ ~ InPlace
      BY <1>1, <2>3 DEF UploadDone
    <3>2. ~ Swapping /\ HasHdr(Run)
      BY <3>1 DEF CmdInv
    <3> QED BY <1>2, <1>4, <2>1, <3>1, <3>2
  <2>4. CASE AppConfirm \/ UploadStart
    <3>1. at = "app"
      BY <1>1, <2>4 DEF AppConfirm, UploadStart
    <3> QED BY <1>2, <1>5, <2>1, <3>1
  <2> QED BY <1>6, <2>2, <2>3, <2>4
<1>7. CASE SwapStart
  <2>1. flash' = flash
    BY <1>7 DEF SwapStart
  <2>2. Validated \/ (~ InPlace /\ ~ Continue /\ HasHdr(Run))
    BY <1>1, <1>7 DEF SwapStart, JumpRun
  <2>3. ~ Continue => ~ Swapping
    BY Commands
  <2> QED BY <1>2, <1>3, <1>4, <2>1, <2>2, <2>3
<1>8. CASE EraseVerify \/ WriteVerify
  <2>1. PICK x : flash' = [flash EXCEPT ![Verify] = x]
    BY <1>8 DEF EraseVerify, WriteVerify
  <2>2. at \in {"unsign", "sign"} /\ Verify \in DOMAIN flash
    BY <1>8, TypeFlash DEF EraseVerify, WriteVerify
  <2>3. Updated(flash, flash', Verify, x)
    BY <2>1, <2>2, UpdatedBy
  <2> QED BY <1>5, <2>2, <2>3, RunWholeApart
<1>9. CASE Finalise
  <2>1. at = "cmd" /\ cmd.c2 = "FINALISE" /\ flash' = flash
    BY <1>9 DEF Finalise
  <2>2. AtWork /\ Copied = flash
    BY <2>1 DEF AtWork, Copied
  <2>3. Comes(flash, Upgrade, m, cmd) /\ Arrived(flash, m, cmd)
    BY <2>2 DEF ComeInv, Arrives, WorkArrived
  <2>4. RunWhole
    BY <2>1, <2>3, ArrivedWhole
  <2> QED BY <1>2, <2>1, <2>4
<1>10. CASE UNCHANGED vars
  <2>1. flash' = flash /\ at' = at
    BY <1>10 DEF vars
  <2> QED BY <1>1, <1>2, <1>5, <2>1
<1>11. ASSUME AppLeaves \/ Reset \/ PowerLoss \/ UploadSector \/ WipeLog
              \/ StartMove \/ Run2Mov \/ Upg2RunFirst \/ Upg2RunNext \/ Upg2RunSkip
              \/ Mov2Upg \/ Mov2UpgSkip \/ Copy
       PROVE  FALSE
  <2>1. CASE AppLeaves \/ Reset \/ PowerLoss \/ UploadSector \/ WipeLog
    BY <1>1, <2>1 DEF AppLeaves, Reset, PowerLoss, UploadSector, WipeLog
  <2>2. CASE StartMove \/ Run2Mov \/ Upg2RunFirst \/ Upg2RunNext \/ Upg2RunSkip
    BY <1>1, <2>2 DEF StartMove, Run2Mov, Upg2RunFirst, Upg2RunNext, Upg2RunSkip,
       AfterUpg2Run, Goto
  <2>3. CASE Mov2Upg \/ Mov2UpgSkip \/ Copy
    BY <1>1, <2>3 DEF Mov2Upg, Mov2UpgSkip, Copy, Goto
  <2> QED BY <1>11, <2>1, <2>2, <2>3
<1> QED BY <1>6, <1>7, <1>8, <1>9, <1>10, <1>11 DEF Next, Step, Environment

-----------------------------------------------------------------------------
(* No sector of the image that comes is moved by the command.              *)
LEMMA WorkOn ==
  ASSUME NEW m \in Images \cup {None}, Assumed, Base(m), at = "cmd", WorkArrived(m),
         at' # "copy",
         \A i \in 0..m.size - 1 : InRunBy(cmd', i) => InRunBy(cmd, i),
         \/ flash' = flash
         \/ \E s : ErasedOne(s) /\ \A i \in 0..m.size - 1 : InRunBy(cmd, i) => s # Run + i,
         (upgr_ok \/ Easy(m, cmd)) => (upgr_ok' \/ Easy(m, cmd'))
  PROVE  WorkArrived(m)'
<1> USE DEF Base
<1>1. AtWork /\ m \in Images /\ Copied = flash
  BY Working DEF Copied
<1>2. Copied' = flash'
  BY DEF Copied
<1>3. Arrived(flash, m, cmd) /\ (upgr_ok \/ Easy(m, cmd))
  BY <1>1 DEF WorkArrived
<1>4. Arrived(flash', m, cmd)
  <2>1. CASE flash' = flash
    BY <1>3, <2>1
  <2>2. ASSUME NEW s, ErasedOne(s), \A i \in 0..m.size - 1 : InRunBy(cmd, i) => s # Run + i
        PROVE  Arrived(flash', m, cmd)
    <3>1. Updated(flash, flash', s, Blank)
      BY <2>2 DEF ErasedOne
    <3>2. \A i \in 0..m.size - 1 : Run + i \in DOMAIN flash
      BY <1>1, TypeFlash, Constants
    <3> QED BY <1>1, <1>3, <2>2, <3>1, <3>2, ArrivedKept
  <2> QED BY <2>1, <2>2
<1>5. Arrived(flash', m, cmd')
  BY <1>4 DEF Arrived
<1> QED BY <1>2, <1>3, <1>5 DEF WorkArrived

LEMMA SwapStartWhole ==
  ASSUME NEW m \in Images \cup {None}, Assumed, Base(m), SwapStart, Arrives(m),
         NEW w, w = m \/ ~ Continue'
  PROVE  LoggedArrived(w)' /\ Resumes(w)' /\ WorkArrived(w)'
<1> USE DEF Base
<1>1. at = "swap" /\ flash' = flash /\ log' = log /\ DOMAIN flash' = DOMAIN flash
  BY DEF SwapStart
<1>2. LastCmd' = LastCmd /\ Continue' = Continue
  BY <1>1, SameLog
<1>3. Continue => Arrived(flash, m, LastCmd) /\ Easy(m, LastCmd)
  BY <1>1 DEF Arrives, LoggedArrived, Resumes
<1>4. LoggedArrived(w)' /\ Resumes(w)'
  BY <1>1, <1>2, <1>3 DEF LoggedArrived, Resumes
<1>5. ASSUME AtWork'
      PROVE  Arrived(Copied', w, cmd') /\ (upgr_ok' \/ Easy(w, cmd'))
  <2>1. cmd = NoCmd /\ NoCmd.c2 = "EMPTY"
    BY <1>1, CommandIs DEF CmdInv, AtWork
  <2>2. /\ at' \in {"cmd", "wipe"}
        /\ \/ ~ Continue /\ cmd' = cmd
           \/ Continue /\ cmd' = LastCmd
    BY <1>5, <2>1 DEF SwapStart, JumpRun, NoSession, AtWork
  <2>3. Copied' = flash
    BY <1>1, <2>2 DEF Copied
  <2>4. CASE Continue
    BY <1>2, <1>3, <2>2, <2>3, <2>4
  <2>5. CASE ~ Continue
    BY <2>1, <2>2, <2>3, <2>5 DEF Arrived, InRunBy, Easy
  <2> QED BY <2>4, <2>5
<1> QED BY <1>4, <1>5 DEF WorkArrived

LEMMA PlainWork ==
  ASSUME NEW m \in Images \cup {None}, Assumed, Base(m), WorkArrived(m),
         StartMove \/ Upg2RunSkip \/ Mov2UpgSkip \/ Finalise
  PROVE  WorkArrived(m)'
<1> USE DEF Base
<1>1. at = "cmd" /\ flash' = flash /\ at' # "copy" /\ upgr_ok' = upgr_ok
  BY DEF StartMove, Upg2RunSkip, Mov2UpgSkip, Finalise, Goto
<1>2. /\ AtWork /\ m \in Images /\ m.size \in Int /\ 1 <= m.size /\ m.size <= N
      /\ cmd.c3 \in Int /\ 0 <= cmd.c3 /\ N + 2 <= 255
      /\ ~ InPlace => cmd.c3 <= Limit
      /\ InPlace => cmd.c3 <= N + 1
      /\ Limit <= 255 /\ Limit \in Int /\ in_place = InPlace /\ N \in Int
      /\ upg2run_done \in BOOLEAN /\ mov2upg_done \in BOOLEAN
  BY <1>1, Working
<1>3. upg2run_done => cmd.c3 >= m.size
  BY <1>2 DEF ComeInv
<1>4. /\ \A i \in 0..m.size - 1 : InRunBy(cmd', i) => InRunBy(cmd, i)
      /\ upgr_ok \/ Easy(m, cmd) => upgr_ok' \/ Easy(m, cmd')
  <2>1. CASE StartMove
    <3>1. cmd'.c2 = "RUN2MOV" \/ (cmd'.c2 = "UPG2RUN" /\ cmd'.c3 = 0)
      BY <2>1 DEF StartMove, Goto, Cmd
    <3> QED BY <3>1 DEF InRunBy, Easy
  <2>2. CASE Upg2RunSkip
    <3>1. cmd.c2 = "UPG2RUN" /\ upg2run_done /\ cmd.c3 <= 255
      BY <1>2, <2>2 DEF Upg2RunSkip
    <3>2. cmd'.c2 \in {"FINALISE", "MOV2UPG"} /\ cmd'.c3 = cmd.c3
      <4>1. PICK c2 \in {"FINALISE", "MOV2UPG"} : Goto("log", c2, cmd.c3)
        BY <2>2 DEF Upg2RunSkip
      <4>2. c2 \in C2
        BY DEF C2
      <4> QED BY <1>2, <3>1, <4>1, <4>2, GotoIs
    <3>3. \A i \in 0..m.size - 1 : InRunBy(cmd, i)
      BY <1>2, <1>3, <3>1 DEF InRunBy
    <3> QED BY <1>2, <1>3, <3>1, <3>2, <3>3 DEF Easy
  <2>3. CASE Mov2UpgSkip
    <3>1. cmd.c2 = "MOV2UPG"
      BY <2>3 DEF Mov2UpgSkip
    <3>2. CASE upg2run_done
      <4>1. cmd'.c2 = "FINALISE"
        BY <2>3, <3>2 DEF Mov2UpgSkip, Goto, Cmd
      <4>2. \A i \in 0..m.size - 1 : InRunBy(cmd, i)
        BY <1>2, <1>3, <3>1, <3>2 DEF InRunBy
      <4> QED BY <4>1, <4>2 DEF Easy
    <3>3. CASE ~ upg2run_done
      <4>1. cmd.c3 + 1 <= 255
        <5>1. ~ InPlace
          BY <1>1, <3>1, Working
        <5>2. cmd.c3 + Undone <= Limit
          BY <1>2, <3>1, <5>1 DEF CmdInv
        <5>3. Undone >= 1 /\ Undone \in Int
          BY <1>2, <3>3 DEF Undone
        <5> QED BY <1>2, <5>2, <5>3
      <4>2. Goto("log", "UPG2RUN", cmd.c3 + 1) /\ "UPG2RUN" \in C2
        BY <2>3, <3>3 DEF Mov2UpgSkip, C2
      <4>3. cmd'.c2 = "UPG2RUN" /\ cmd'.c3 = cmd.c3 + 1
        BY <1>2, <4>1, <4>2, GotoIs
      <4>4. \A i \in 0..m.size - 1 : InRunBy(cmd', i) => InRunBy(cmd, i)
        BY <1>2, <3>1, <4>3 DEF InRunBy
      <4>5. Easy(m, cmd) => Easy(m, cmd')
        BY <1>2, <3>1, <4>3 DEF Easy
      <4> QED BY <1>1, <4>4, <4>5
    <3> QED BY <1>2, <3>2, <3>3
  <2>4. CASE Finalise
    <3>1. cmd.c2 = "FINALISE" /\ cmd'.c2 = "SWP_END"
      BY <2>4 DEF Finalise, Goto, Cmd
    <3> QED BY <3>1 DEF InRunBy, Easy
  <2> QED BY <2>1, <2>2, <2>3, <2>4
<1> QED BY <1>1, <1>4, WorkOn

LEMMA Run2MovWork ==
  ASSUME NEW m \in Images \cup {None}, Assumed, Base(m), Run2Mov
  PROVE  WorkArrived(m)'
<1>1. cmd'.c2 = "RUN2MOV" \/ (cmd'.c2 = "UPG2RUN" /\ cmd'.c3 = 0)
  BY DEF Run2Mov, Goto, Cmd
<1> QED BY <1>1 DEF WorkArrived, Arrived, InRunBy, Easy

LEMMA FirstWork ==
  ASSUME NEW m \in Images \cup {None}, Assumed, Base(m), Upg2RunFirst
  PROVE  WorkArrived(m)'
<1>1. /\ upgr_ok' = TRUE /\ DOMAIN flash' = DOMAIN flash
      /\ InPlace => cmd'.c2 = "UPG2RUN" /\ cmd'.c3 = 1
      /\ ~ InPlace => cmd'.c2 = "MOV2UPG" /\ cmd'.c3 = 0
      /\ at' = "copy"
  BY FirstDoes
<1>2. AtWork' /\ Run = 0
  BY <1>1 DEF AtWork, Run
<1>3. Base(m)'
  BY Upg2RunFirstBase
<1>4. Comes(Copied', Upgrade', m, cmd')
  BY <1>2, <1>3 DEF Base, ComeInv
<1>5. InRunBy(cmd', 0) /\ \A i \in 0..m.size - 1 : InRunBy(cmd', i) => i = 0
  BY <1>1 DEF InRunBy
<1>6. Copied'[Run] = Sec(m, 0, RunForm(m))
  BY <1>4, <1>5 DEF Comes
<1>7. Arrived(Copied', m, cmd')
  BY <1>2, <1>5, <1>6 DEF Arrived
<1> QED BY <1>1, <1>7 DEF WorkArrived

LEMMA NextWork ==
  ASSUME NEW m \in Images \cup {None}, Assumed, Base(m), Upg2RunNext, WorkArrived(m)
  PROVE  WorkArrived(m)'
<1> USE DEF Base
<1>1. /\ at = "cmd" /\ cmd.c2 = "UPG2RUN" /\ cmd.c3 > 0 /\ upg2run_done = FALSE
      /\ cmd.c3 < N => ErasedOne(Run + cmd.c3)
      /\ ~ (cmd.c3 < N) => flash' = flash
      /\ DOMAIN flash' = DOMAIN flash
      /\ InPlace => cmd'.c2 = "UPG2RUN" /\ cmd'.c3 = cmd.c3 + 1
      /\ ~ InPlace => cmd'.c2 = "MOV2UPG" /\ cmd'.c3 = cmd.c3
      /\ upgr_ok' \in BOOLEAN /\ (upgr_ok => upgr_ok')
  BY NextDoes
<1>2. \/ /\ cmd.c3 < m.size
         /\ flash[Upgrade + cmd.c3] = Sec(m, cmd.c3, "sent")
         /\ job' = [from |-> Upgrade + cmd.c3, to |-> Run + cmd.c3,
                    key |-> IF upgr_ok /\ ~ m.enc THEN NoCrypt ELSE upgr_key]
         /\ at' = "copy"
      \/ cmd.c3 >= m.size /\ at' = "log"
  BY NextDoes
<1>3. /\ AtWork /\ m \in Images /\ m.size \in Int /\ 1 <= m.size /\ m.size <= N
      /\ cmd.c3 \in Int /\ 0 <= cmd.c3 /\ N \in Int
      /\ Upgrade = (IF InPlace THEN 1 ELSE N + 1) /\ FlashOK(flash)
  BY <1>1, Working
<1>4. Arrived(flash, m, cmd) /\ (upgr_ok \/ Easy(m, cmd))
  BY <1>1, <1>3 DEF WorkArrived, Copied
<1>5. /\ \A i \in 0..m.size - 1 : InRunBy(cmd, i) <=> i < cmd.c3
      /\ \A i \in 0..m.size - 1 : InRunBy(cmd', i) <=> i <= cmd.c3
  BY <1>1, <1>3 DEF InRunBy
<1>6. CASE at' = "copy"
  <2>1. /\ cmd.c3 < m.size /\ flash[Upgrade + cmd.c3] = Sec(m, cmd.c3, "sent")
        /\ job' = [from |-> Upgrade + cmd.c3, to |-> Run + cmd.c3,
                   key |-> IF upgr_ok /\ ~ m.enc THEN NoCrypt ELSE upgr_key]
    BY <1>2, <1>6
  <2>2. upgr_ok
    BY <1>1, <1>3, <1>4, <2>1 DEF Easy
  <2>3. PICK key \in {IF m.enc THEN m ELSE NoCrypt} : TRUE
    OBVIOUS
  <2>4. job'.key = key
    BY <1>3, <2>1, <2>2, <2>3 DEF ComeInv
  <2>5. PICK s \in {Run + cmd.c3}, r \in {Upgrade + cmd.c3} : TRUE
    OBVIOUS
  <2>6. cmd.c3 \in 0..N - 1 /\ cmd.c3 < N /\ cmd.c3 \in 0..m.size - 1
    BY <1>3, <2>1
  <2>7. /\ s \in DOMAIN flash /\ r \in DOMAIN flash /\ r # s
        /\ \A i \in 0..m.size - 1 : Run + i \in DOMAIN flash
    BY <1>3, <2>5, <2>6, TypeFlash
  <2>8. flash[r] = Sec(m, cmd.c3, "sent") /\ flash[r] \in Plain
    BY <1>3, <2>1, <2>5, <2>6, SecIs DEF Plain
  <2>9. job'.from = r /\ job'.to = s
    BY <2>1, <2>5
  <2>10. Updated(flash, flash', s, Blank)
    BY <1>1, <2>5, <2>6 DEF ErasedOne
  <2>11. Updated(flash, CopyOf(flash', job'), s, Crypted(flash[r], key))
    BY <1>3, <2>4, <2>7, <2>8, <2>9, <2>10, MoveIs
  <2>12. Crypted(flash[r], key) = Sec(m, cmd.c3, RunForm(m))
    BY <1>3, <2>3, <2>6, <2>8, CryptedSec
  <2>13. Copied' = CopyOf(flash', job')
    BY <1>6 DEF Copied
  <2>14. PICK g \in {Copied'} : TRUE
    OBVIOUS
  <2>15. Updated(flash, g, s, Sec(m, cmd.c3, RunForm(m)))
    BY <2>11, <2>12, <2>13, <2>14
  <2>16. \A i \in 0..m.size - 1 : i < cmd.c3 => g[Run + i] = Sec(m, i, RunForm(m))
    <3>1. \A i \in 0..m.size - 1 : i < cmd.c3 => flash[Run + i] = Sec(m, i, RunForm(m))
      BY <1>4, <1>5 DEF Arrived
    <3>2. \A i \in 0..m.size - 1 : i < cmd.c3 => Run + i # s
      BY <1>3, <2>5 DEF Run
    <3>3. \A i \in 0..m.size - 1 : i < cmd.c3 => g[Run + i] = flash[Run + i]
      BY <2>7, <2>15, <3>2 DEF Updated
    <3> QED BY <3>1, <3>3
  <2>17. g[Run + cmd.c3] = Sec(m, cmd.c3, RunForm(m))
    BY <2>5, <2>15 DEF Updated
  <2>18. \A i \in 0..m.size - 1 : i <= cmd.c3 => i < cmd.c3 \/ i = cmd.c3
    BY <1>3
  <2>19. Arrived(g, m, cmd')
    BY <1>5, <2>16, <2>17, <2>18 DEF Arrived
  <2> QED BY <1>1, <2>2, <2>14, <2>19 DEF WorkArrived
<1>7. CASE cmd.c3 >= m.size /\ at' = "log"
  <2>1. \A i \in 0..m.size - 1 : InRunBy(cmd, i) /\ Run + cmd.c3 # Run + i
    BY <1>3, <1>5, <1>7 DEF Run
  <2>2. Easy(m, cmd')
    BY <1>1, <1>3, <1>7 DEF Easy
  <2>3. cmd.c3 < N \/ ~ (cmd.c3 < N)
    OBVIOUS
  <2>4. \/ flash' = flash
        \/ \E s : ErasedOne(s) /\ \A i \in 0..m.size - 1 : InRunBy(cmd, i) => s # Run + i
    BY <1>1, <2>1, <2>3
  <2> QED BY <1>1, <1>7, <2>1, <2>2, <2>4, WorkOn
<1> QED BY <1>2, <1>6, <1>7

LEMMA MovedOne ==
  ASSUME NEW s, ErasedOne(s), job'.to = s
  PROVE  \E x : Updated(flash, CopyOf(flash', job'), s, x)
<1>1. s \in DOMAIN flash /\ Updated(flash, flash', s, Blank)
  BY DEF ErasedOne
<1>2. PICK x \in {Crypted(flash'[job'.from], job'.key)}, f \in {flash'} : TRUE
  OBVIOUS
<1>3. CopyOf(flash', job') = [f EXCEPT ![s] = x]
  BY <1>2 DEF CopyOf
<1>4. s \in DOMAIN f /\ Updated(flash, f, s, Blank)
  BY <1>1, <1>2 DEF Updated
<1>5. Updated(f, [f EXCEPT ![s] = x], s, x)
  BY <1>4, UpdatedBy
<1>6. Updated(flash, [f EXCEPT ![s] = x], s, x)
  BY <1>4, <1>5 DEF Updated
<1> QED BY <1>3, <1>6

LEMMA Mov2UpgWork ==
  ASSUME NEW m \in Images \cup {None}, Assumed, Base(m), Mov2Upg, WorkArrived(m)
  PROVE  WorkArrived(m)'
<1> USE DEF Base
<1>1. /\ at = "cmd" /\ cmd.c2 = "MOV2UPG" /\ ~ InPlace
      /\ cmd.c3 < N => ErasedOne(Upgrade + cmd.c3)
      /\ ~ (cmd.c3 < N) => flash' = flash
      /\ cmd'.c2 = "UPG2RUN" /\ cmd'.c3 = cmd.c3 + 1
      /\ upgr_ok' = upgr_ok
  BY Mov2UpgDoes
<1>2. at' = "log" \/ (at' = "copy" /\ cmd.c3 < N /\ job'.to = Upgrade + cmd.c3)
  <2>1. \/ at' = "log"
        \/ /\ at' = "copy" /\ cmd.c3 < N
           /\ \E k : job' = [from |-> Move + cmd.c3, to |-> Upgrade + cmd.c3, key |-> k]
    BY Mov2UpgDoes
  <2> QED BY <2>1
<1>3. /\ AtWork /\ m \in Images /\ m.size \in Int /\ 1 <= m.size /\ m.size <= N
      /\ cmd.c3 \in Int /\ 0 <= cmd.c3 /\ N \in Int /\ Upgrade = N + 1
  BY <1>1, Working
<1>4. Arrived(flash, m, cmd) /\ (upgr_ok \/ Easy(m, cmd))
  BY <1>1, <1>3 DEF WorkArrived, Copied
<1>5. \A i \in 0..m.size - 1 : InRunBy(cmd', i) <=> InRunBy(cmd, i)
  BY <1>1, <1>3 DEF InRunBy
<1>6. PICK s \in {Upgrade + cmd.c3} : TRUE
  OBVIOUS
<1>7. \A i \in 0..m.size - 1 : s # Run + i
  BY <1>3, <1>6 DEF Run
<1>8. Easy(m, cmd) => Easy(m, cmd')
  BY <1>1, <1>3 DEF Easy
<1>9. CASE at' = "log"
  <2>1. flash' = flash \/ ErasedOne(s)
    BY <1>1, <1>6
  <2> QED BY <1>1, <1>5, <1>7, <1>8, <1>9, <2>1, WorkOn
<1>10. CASE at' = "copy"
  <2>1. ErasedOne(s) /\ job'.to = s
    BY <1>1, <1>2, <1>6, <1>10
  <2>2. PICK g \in {CopyOf(flash', job')} : TRUE
    OBVIOUS
  <2>3. PICK x : Updated(flash, g, s, x)
    BY <2>1, <2>2, MovedOne
  <2>4. \A i \in 0..m.size - 1 : Run + i \in DOMAIN flash
    BY <1>3, TypeFlash
  <2>5. Arrived(g, m, cmd)
    BY <1>3, <1>4, <1>7, <2>3, <2>4, ArrivedKept
  <2>6. Arrived(g, m, cmd')
    BY <1>5, <2>5 DEF Arrived
  <2>7. Copied' = g
    BY <1>10, <2>2 DEF Copied
  <2> QED BY <1>1, <1>4, <1>8, <2>6, <2>7 DEF WorkArrived
<1> QED BY <1>2, <1>9, <1>10

LEMMA CopyWork ==
  ASSUME NEW m \in Images \cup {None}, Assumed, Base(m), Copy, WorkArrived(m)
  PROVE  WorkArrived(m)'
<1> USE DEF Base
<1>1. at = "copy" /\ at' = "log" /\ flash' = CopyOf(flash, job)
  BY CopyDoes
<1>2. cmd' = cmd /\ upgr_ok' = upgr_ok
  BY DEF Copy
<1>3. Copied' = Copied /\ AtWork
  BY <1>1 DEF Copied, AtWork
<1> QED BY <1>2, <1>3 DEF WorkArrived

LEMMA ConfirmWork ==
  ASSUME NEW m \in Images \cup {None}, Assumed, Base(m), WorkArrived(m),
         EraseVerify \/ WriteVerify
  PROVE  WorkArrived(m)'
<1> USE DEF Base
<1>1. at \in {"unsign", "sign"} /\ cmd' = cmd /\ upgr_ok' = upgr_ok /\ at' # "copy"
      /\ at' \notin {"wipe", "cmd", "copy"}
  BY DEF EraseVerify, WriteVerify, session
<1>2. SUFFICES ASSUME AtWork'
               PROVE  Arrived(Copied', m, cmd') /\ (upgr_ok' \/ Easy(m, cmd'))
  BY DEF WorkArrived
<1>3. AtWork
  <2>1. cmd.c2 = "SWP_END"
    <3>1. CASE at' = "log"
      BY <3>1 DEF EraseVerify, WriteVerify
    <3>2. CASE at' # "log"
      BY <1>1, <1>2, <3>2 DEF AtWork
    <3> QED BY <3>1, <3>2
  <2> QED BY <1>1, <2>1 DEF AtWork
<1>4. Arrived(flash, m, cmd) /\ (upgr_ok \/ Easy(m, cmd)) /\ m \in Images
  BY <1>1, <1>3 DEF WorkArrived, Copied, ComeInv, Comes
<1>5. PICK x : flash' = [flash EXCEPT ![Verify] = x]
  BY DEF EraseVerify, WriteVerify
<1>6. Updated(flash, flash', Verify, x)
  BY <1>5, TypeFlash, UpdatedBy
<1>7. \A i \in 0..m.size - 1 : Run + i \in DOMAIN flash /\ Verify # Run + i
  BY <1>4, TypeFlash, Constants
<1>8. Arrived(flash', m, cmd)
  BY <1>4, <1>6, <1>7, ArrivedKept
<1> QED BY <1>1, <1>4, <1>8 DEF Copied

LEMMA WipeWork ==
  ASSUME NEW m \in Images \cup {None}, Assumed, Base(m), WipeLog
  PROVE  WorkArrived(m)'
<1>1. at = "wipe" /\ cmd' = cmd
  BY DEF WipeLog, session
<1>2. cmd'.c2 = "EMPTY"
  BY <1>1, CommandIs DEF Base, CmdInv
<1> QED BY <1>2 DEF WorkArrived, Arrived, InRunBy, Easy

(* The write of a command.                                                 *)
LEMMA WriteLogWhole ==
  ASSUME NEW m \in Images \cup {None}, Assumed, Base(m), WriteLog, Arrives(m)
  PROVE  Arrives(m)'
<1> USE DEF Base
<1>1. /\ at = "log" /\ AtWork /\ flash' = flash
      /\ InPlace' = InPlace
      /\ InPlace => LastCmd' = NoCmd /\ LastCmd = NoCmd
      /\ ~ InPlace => LastCmd' = cmd
      /\ cmd.c2 # "EMPTY" /\ cmd.c2 \in C2
  BY WriteDoes, Commands
<1>2. Copied = flash
  BY <1>1 DEF Copied
<1>3. /\ Arrived(flash, m, cmd) /\ (upgr_ok \/ Easy(m, cmd))
      /\ Comes(flash, Upgrade, m, cmd)
  BY <1>1, <1>2 DEF Arrives, WorkArrived, ComeInv
<1>4. cmd.c2 \in {"FINALISE", "SWP_END"} => RunWhole
  BY <1>3, ArrivedWhole
<1>5. LoggedArrived(m)'
  <2>1. Continue' => ~ InPlace
    BY <1>1 DEF Continue
  <2> QED BY <1>1, <1>3, <2>1 DEF LoggedArrived
<1>6. StandsWhole'
  <2>1. ~ InPlace /\ ~ Swapping' => cmd.c2 \in {"FINALISE", "SWP_END"}
    BY <1>1 DEF Swapping, C2
  <2> QED BY <1>1, <1>4, <2>1, RunWholeSame DEF StandsWhole
<1>7. SignedWhole'
  BY <1>1 DEF Arrives, Whole3, SignedWhole, Verify
<1>8. CASE cmd.c2 = "SWP_END"
  <2>1. at' \in {"app", "dead"}
    BY <1>8 DEF WriteLog, JumpRun
  <2>2. StartsWhole'
    BY <1>1, <1>4, <1>8, RunWholeSame DEF StartsWhole
  <2>3. Resumes(m)'
    BY <2>1 DEF Resumes
  <2>4. ~ AtWork'
    BY <2>1 DEF AtWork
  <2> QED BY <1>5, <1>6, <1>7, <2>2, <2>3, <2>4 DEF Arrives, Whole3, WorkArrived
<1>9. CASE cmd.c2 # "SWP_END"
  <2>1. at' = "cmd" /\ cmd' = cmd /\ upgr_ok' = upgr_ok
    BY <1>9 DEF WriteLog, session
  <2>2. Copied' = flash
    BY <1>1, <2>1 DEF Copied
  <2>3. WorkArrived(m)'
    BY <1>3, <2>1, <2>2 DEF WorkArrived
  <2>4. StartsWhole' /\ Resumes(m)'
    BY <2>1 DEF StartsWhole, Resumes
  <2> QED BY <1>5, <1>6, <1>7, <2>3, <2>4 DEF Arrives, Whole3
<1> QED BY <1>8, <1>9

-----------------------------------------------------------------------------
LEMMA InitArrives ==
  ASSUME Assumed, Init, NEW m \in Images \cup {None}
  PROVE  Arrives(m)
<1>1. Base(m)
  BY InitBase
<1>2. at = "off" /\ log = <<>> /\ cmd = NoCmd
  BY DEF Init
<1>3. LastCmd = NoCmd /\ NoCmd.c2 = "EMPTY"
  BY <1>2, LastIs, LastEmpty, CommandIs
<1>4. ~ Continue /\ ~ AtWork /\ ~ Swapping
  BY <1>2, <1>3 DEF Continue, AtWork, Swapping
<1>5. PICK w \in Factory \cup {None}, in_pl \in Layouts :
        flash = [s \in Address(in_pl) |->
                   IF w # None /\ s < w.size THEN Sec(w, s, RunForm(w))
                   ELSE IF w # None /\ s = Verify
                   THEN Crc([i \in 0..w.size - 1 |-> Sec(w, i, RunForm(w))])
                   ELSE Blank]
  BY DEF Init
<1>6. w # None => w \in Images /\ w.size \in Int /\ 1 <= w.size /\ w.size <= N
  BY ImagesAssumption, Constants
<1>7. /\ DOMAIN flash = Address(in_pl) /\ N \in Int /\ 1 <= N /\ Run = 0 /\ Verify = N
      /\ \A i \in 0..N : i \in Address(in_pl)
  BY <1>5, Constants DEF Address, Run, Verify
<1>8. /\ \A s \in 0..N : w # None /\ s < w.size => flash[s] = Sec(w, s, RunForm(w))
      /\ \A s \in 0..N : w = None => flash[s] = Blank
      /\ w # None => flash[Verify] = Full(w)
  BY <1>5, <1>6, <1>7 DEF Full
<1>9. SignedWhole
  <2>1. Blank.kind # "crc"
    BY DEF Blank
  <2> QED BY <1>6, <1>7, <1>8, <2>1 DEF SignedWhole
<1>10. HasHdr(Run) => RunWhole
  <2>1. HasHdr(Run) => w # None
    BY <1>7, <1>8 DEF HasHdr, Blank
  <2>2. ASSUME w # None
        PROVE  RunWhole
    <3>1. flash[Run] = Sec(w, 0, RunForm(w))
      BY <1>6, <1>7, <1>8, <2>2
    <3>2. Hdr(Run) = w
      BY <1>6, <2>2, <3>1, HeaderAt
    <3>3. \A i \in 0..w.size - 1 : flash[Run + i] = Sec(w, i, RunForm(w))
      BY <1>6, <1>7, <1>8, <2>2
    <3> QED BY <3>2, <3>3 DEF RunWhole, Holds
  <2> QED BY <2>1, <2>2
<1> QED BY <1>2, <1>4, <1>9, <1>10 DEF Arrives, LoggedArrived, Resumes, WorkArrived,
    Whole3, StandsWhole, StartsWhole

LEMMA StepWork ==
  ASSUME NEW m \in Images \cup {None}, Assumed, Base(m), [Next]_vars, ~ WriteLog,
         ~ SwapStart, WorkArrived(m)
  PROVE  WorkArrived(m)'
<1>1. CASE UNCHANGED vars
  BY <1>1 DEF vars, session, WorkArrived, AtWork, Copied
<1>2. CASE \/ Boot \/ AppConfirm \/ AppLeaves \/ UploadStart \/ UploadDone \/ Reset
           \/ UploadSector \/ PowerLoss
  BY <1>2, NoWork DEF WorkArrived
<1>3. CASE \/ WipeLog \/ StartMove \/ Run2Mov \/ Upg2RunFirst \/ Upg2RunNext
           \/ Upg2RunSkip
  BY <1>3, WipeWork, PlainWork, Run2MovWork, FirstWork, NextWork
<1>4. CASE \/ Mov2Upg \/ Mov2UpgSkip \/ Copy \/ Finalise \/ EraseVerify \/ WriteVerify
  BY <1>4, Mov2UpgWork, PlainWork, CopyWork, ConfirmWork
<1> QED BY <1>1, <1>2, <1>3, <1>4 DEF Next, Step, Environment

(* Every step but a power failure in the dangerous part of a swap keeps    *)
(* WInv, with the same image unless a session accepts a new one.           *)
LEMMA StepArrives ==
  ASSUME NEW m \in Images \cup {None}, Assumed, Base(m), [Next]_vars, Arrives(m),
         [PowerLoss => Restartable]_vars
  PROVE  \E w \in Images \cup {None} :
            /\ Base(w)' /\ Arrives(w)'
            /\ \/ w = m /\ (SwapStart => Continue' \/ ~ AtWork')
               \/ SwapStart /\ ~ Continue' /\ w = Hdr(Upgrade)
<1>1. CASE WriteLog
  <2>1. Base(m)' /\ Arrives(m)'
    BY <1>1, WriteLogBase, WriteLogWhole
  <2>2. ~ SwapStart
    BY <1>1 DEF WriteLog, SwapStart
  <2> QED BY <2>1, <2>2
<1>2. CASE ~ WriteLog
  <2>1. FlashStep
    BY <1>2, FlashSteps
  <2>2. Whole3'
    BY <1>2, <2>1, StandsKept, StartsNext, SignedKept DEF Arrives, Whole3
  <2>3. CASE SwapStart
    <3>1. PICK w \in Images \cup {None} :
            /\ Base(w)'
            /\ \/ w = m /\ (Continue' \/ ~ AtWork')
               \/ ~ Continue' /\ w = Hdr(Upgrade)
      BY <2>3, SwapStartBase
    <3>2. LoggedArrived(w)' /\ Resumes(w)' /\ WorkArrived(w)'
      BY <2>3, <3>1, SwapStartWhole
    <3>3. Arrives(w)'
      BY <2>2, <3>2 DEF Arrives
    <3> QED BY <2>3, <3>1, <3>3
  <2>4. CASE ~ SwapStart
    <3>1. LoggedArrived(m)'
      BY <2>1, LoggedKept DEF Arrives
    <3>2. WorkArrived(m)'
      BY <1>2, <2>4, StepWork DEF Arrives
    <3>3. at' \in {"off", "swap"} => \/ at \in {"off", "swap"} \/ ~ Swapping \/ Restartable
      <4>1. CASE Boot \/ UNCHANGED vars \/ PowerLoss
        BY <4>1 DEF Boot, vars
      <4>2. CASE AppLeaves \/ Reset
        <5>1. at \in {"app", "loader", "dead"}
          BY <4>2 DEF AppLeaves, Reset
        <5> QED BY <5>1 DEF Base, CmdInv
      <4>3. CASE \/ AppConfirm \/ UploadStart \/ UploadDone \/ UploadSector \/ WipeLog
                 \/ StartMove \/ Run2Mov \/ Upg2RunFirst
        BY <4>3 DEF AppConfirm, UploadStart, UploadDone, UploadSector, WipeLog,
           StartMove, Run2Mov, Upg2RunFirst, AfterUpg2Run, Goto
      <4>4. CASE \/ Upg2RunNext \/ Upg2RunSkip \/ Mov2Upg \/ Mov2UpgSkip \/ Copy
                 \/ Finalise \/ EraseVerify \/ WriteVerify
        BY <4>4 DEF Upg2RunNext, AfterUpg2Run, Upg2RunSkip, Mov2Upg, Mov2UpgSkip,
           Copy, Finalise, EraseVerify, WriteVerify, Goto
      <4> QED BY <1>2, <2>4, <4>1, <4>2, <4>3, <4>4 DEF Next, Step, Environment
    <3>4. Resumes(m)'
      BY <2>1, <3>3, ResumesKept DEF Arrives
    <3>6. Base(m)'
      BY <2>4, <1>2, KeptBase
    <3>7. Arrives(m)'
      BY <2>2, <3>1, <3>2, <3>4 DEF Arrives
    <3> QED BY <2>4, <3>6, <3>7
  <2> QED BY <2>3, <2>4
<1> QED BY <1>1, <1>2

-----------------------------------------------------------------------------
(* Power does not fail between the first sector of the image that comes    *)
(* and its last one.                                                       *)
Careful == [][PowerLoss => Restartable]_vars

WInv == \E m \in Images \cup {None} : Base(m) /\ Arrives(m)

(* WInv holds in every reachable state of a device whose power fails only  *)
(* where a swap can be restarted.                                          *)
THEOREM WholeInvariance == Assumed /\ Spec /\ Careful => []WInv
<1> SUFFICES ASSUME Assumed
             PROVE  Spec /\ Careful => []WInv
  OBVIOUS
<1>1. Init => WInv
  <2>1. None \in Images \cup {None}
    OBVIOUS
  <2> QED BY <2>1, InitBase, InitArrives DEF WInv
<1>2. WInv /\ [Next]_vars /\ [PowerLoss => Restartable]_vars => WInv'
  <2> SUFFICES ASSUME WInv, [Next]_vars, [PowerLoss => Restartable]_vars
               PROVE  WInv'
    OBVIOUS
  <2> QED BY StepArrives DEF WInv
<1> QED BY <1>1, <1>2, PTL DEF Spec, Careful

(* Whatever the swapper or the first stage loader starts is whole.         *)
THEOREM RunsWholeHolds == Assumed /\ Spec /\ Careful => []RunsWhole
<1>1. WInv => RunsWhole
  BY DEF WInv, Base, CmdInv, Arrives, Whole3, StartsWhole, RunWhole, RunsWhole
<1> QED BY <1>1, WholeInvariance, PTL

(* The crc of the verify sector, which lets the first stage loader start   *)
(* the run slot without the swapper, is only ever valid for a whole image  *)
(* (zb_img_confirm, zb_img_validate).                                      *)
THEOREM SignsWholeHolds == Assumed /\ Spec /\ Careful => []SignsWhole
<1>1. WInv => SignsWhole
  <2>1. ASSUME WInv, Validated
        PROVE  RunWhole
    BY <2>1, ValidatedWhole DEF WInv, Base, Arrives, Whole3
  <2> QED BY <2>1 DEF RunWhole, SignsWhole
<1> QED BY <1>1, WholeInvariance, PTL

-----------------------------------------------------------------------------
(* The image that goes, and the refinement of ImageSwap.                   *)

(* The sector that holds sector i of the image that goes.                  *)
Place(c, i) == IF UpBy(c, i) THEN N + 1 + i
               ELSE IF MovBy(c, i) THEN Move + i
               ELSE Run + i

FormAt(g, c, i) == IF UpBy(c, i) THEN "sent" ELSE RunForm(g)

GoesAt(f, g, c) ==
  IF g = None
    THEN c.c2 # "RUN2MOV" /\ ~ Header(f, Place(c, 0))
    ELSE /\ g \in Images
         /\ \A i \in 0..g.size - 1 : f[Place(c, i)] = Sec(g, i, FormAt(g, c, i))

(* The first command is being logged, or a swap goes on.                   *)
Moving == /\ ~ InPlace /\ AtWork /\ at # "wipe" /\ cmd.c2 # "EMPTY"
          /\ Swapping \/ log = <<>>

LoggedGoes(g) == Swapping => GoesAt(flash, g, LastCmd)

WorkGoes(g) == Moving => GoesAt(Copied, g, cmd)

(* What is known when nothing of the image that goes is left to be moved.  *)
GoneOver(g) ==
  ~ InPlace /\ AtWork /\ mov2upg_done =>
    /\ cmd.c2 \notin {"EMPTY", "RUN2MOV"} /\ cmd.c3 >= 1
    /\ g # None => cmd.c3 >= g.size

NoOldImage == ~ InPlace /\ ~ Swapping /\ ~ HasHdr(Run) => ~ HasHdr(Move)

FirstCommand ==
  ~ InPlace /\ at = "log" /\ log = <<>> =>
    \/ cmd.c2 = "RUN2MOV"
    \/ cmd.c2 = "UPG2RUN" /\ cmd.c3 = 0 /\ ~ HasHdr(Run)

Departs(g) == LoggedGoes(g) /\ WorkGoes(g) /\ GoneOver(g) /\ NoOldImage /\ FirstCommand

Newer(m) == AtWork /\ ~ Continue /\ ~ InPlace => DepOk(m)

GInv == \E m \in Images \cup {None}, g \in Images \cup {None} :
          Base(m) /\ Arrives(m) /\ Departs(g) /\ Newer(m)

-----------------------------------------------------------------------------
(* The sector that holds sector i of the image that goes, by arithmetic.   *)
LEMMA PlaceIs ==
  ASSUME NEW c \in Command, NEW i \in 0..N - 1
  PROVE  /\ c.c2 = "RUN2MOV" => Place(c, i) = (IF i > c.c3 THEN 1 + i ELSE i)
         /\ c.c2 \in {"UPG2RUN", "MOV2UPG"} =>
              Place(c, i) = (IF i < c.c3 THEN N + 1 + i ELSE 1 + i)
         /\ c.c2 \in {"FINALISE", "SWP_END"} => Place(c, i) = N + 1 + i
         /\ ~ InPlace /\ TypeOK => Place(c, i) \in DOMAIN flash
<1>1. i \in Int /\ c.c3 \in Int /\ N \in Int /\ 0 <= i /\ i < N /\ 1 <= N
  <2>1. c.c3 \in 0..255
    BY CommandIs
  <2> QED BY <2>1, Constants
<1>2. c.c2 = "RUN2MOV" => Place(c, i) = (IF i > c.c3 THEN 1 + i ELSE i)
  BY <1>1 DEF Place, UpBy, MovBy, Move, Run
<1>3. c.c2 \in {"UPG2RUN", "MOV2UPG"} =>
              Place(c, i) = (IF i < c.c3 THEN N + 1 + i ELSE 1 + i)
  BY <1>1 DEF Place, UpBy, MovBy, Move, Run
<1>4. c.c2 \in {"FINALISE", "SWP_END"} => Place(c, i) = N + 1 + i
  BY <1>1 DEF Place, UpBy
<1>5. Place(c, i) \in {i, 1 + i, N + 1 + i}
  BY <1>1 DEF Place, Move, Run
<1>6. ~ InPlace /\ TypeOK => Place(c, i) \in DOMAIN flash
  <2>1. ASSUME ~ InPlace, TypeOK
        PROVE  DOMAIN flash = 0..2 * N
    BY <2>1, TypeFlash DEF Size
  <2> QED BY <1>1, <1>5, <2>1
<1> QED BY <1>2, <1>3, <1>4, <1>6

(* The sector a command writes holds none of the image that goes.          *)
LEMMA TargetClear ==
  ASSUME NEW c \in Command, c.c2 \in {"RUN2MOV", "UPG2RUN", "MOV2UPG"}, c.c3 < N,
         NEW i \in 0..N - 1
  PROVE  Target(c) # Place(c, i)
<1>1. i \in Int /\ c.c3 \in Int /\ 0 <= c.c3 /\ N \in Int /\ 0 <= i /\ i < N /\ 1 <= N
  <2>1. c.c3 \in 0..255
    BY CommandIs
  <2> QED BY <2>1, Constants
<1>2. Target(c) = c.c3 + (IF c.c2 = "RUN2MOV" THEN 1
                          ELSE IF c.c2 = "UPG2RUN" THEN 0 ELSE N + 1)
  BY DEF Target, Move, Run
<1>3. CASE c.c2 = "RUN2MOV"
  <2>1. Target(c) = c.c3 + 1
    BY <1>2, <1>3
  <2> QED BY <1>1, <1>3, <2>1, PlaceIs
<1>4. CASE c.c2 = "UPG2RUN"
  <2>1. Target(c) = c.c3
    BY <1>1, <1>2, <1>4
  <2> QED BY <1>1, <1>4, <2>1, PlaceIs
<1>5. CASE c.c2 = "MOV2UPG"
  <2>1. Target(c) = c.c3 + N + 1
    BY <1>1, <1>2, <1>5
  <2> QED BY <1>1, <1>5, <2>1, PlaceIs
<1> QED BY <1>3, <1>4, <1>5

LEMMA GoesKept ==
  ASSUME NEW f, NEW h, NEW s, NEW x, Updated(f, h, s, x), NEW c, NEW g,
         \A i \in 0..N - 1 : Place(c, i) \in DOMAIN f /\ s # Place(c, i),
         GoesAt(f, g, c)
  PROVE  GoesAt(h, g, c)
<1>1. \A i \in 0..N - 1 : h[Place(c, i)] = f[Place(c, i)]
  BY DEF Updated
<1>2. CASE g = None
  <2>1. 0 \in 0..N - 1
    BY Constants
  <2> QED BY <1>1, <1>2, <2>1 DEF GoesAt, Header
<1>3. CASE g # None
  <2>1. g \in Images /\ g.size \in Int /\ g.size <= N
    BY <1>3, Constants DEF GoesAt
  <2>2. \A i \in 0..g.size - 1 : i \in 0..N - 1
    BY <2>1, Constants
  <2>3. \A i \in 0..g.size - 1 : h[Place(c, i)] = f[Place(c, i)]
    BY <1>1, <2>2
  <2> QED BY <1>3, <2>1, <2>3 DEF GoesAt
<1> QED BY <1>2, <1>3

(* Two commands between which no sector of the image that goes is moved.   *)
LEMMA GoesOn ==
  ASSUME NEW f, NEW g, NEW c, NEW d, GoesAt(f, g, c),
         g = None => d.c2 # "RUN2MOV" /\ ~ Header(f, Place(d, 0)),
         g # None => \A i \in 0..g.size - 1 :
                       Place(d, i) = Place(c, i) /\ (UpBy(d, i) <=> UpBy(c, i))
  PROVE  GoesAt(f, g, d)
<1>1. CASE g = None
  BY <1>1 DEF GoesAt
<1>2. CASE g # None
  BY <1>2 DEF GoesAt, FormAt
<1> QED BY <1>1, <1>2

LEMMA LoggedGoesKept ==
  ASSUME NEW m \in Images \cup {None}, Assumed, Base(m), NEW g \in Images \cup {None},
         FlashStep, LoggedGoes(g)
  PROVE  LoggedGoes(g)'
<1> USE DEF Base
<1>1. InPlace' = InPlace
  BY SameLayout DEF FlashStep
<1>2. SUFFICES ASSUME Swapping'
               PROVE  GoesAt(flash', g, LastCmd')
  BY DEF LoggedGoes
<1>3. LastCmd' = LastCmd /\ Swapping /\ ~ InPlace
  BY <1>1, <1>2, CommandIs DEF FlashStep, Swapping
<1>4. LastCmd \in Command /\ LastCmd.c2 \in {"RUN2MOV", "UPG2RUN", "MOV2UPG"}
  BY <1>3, Commands DEF Swapping
<1>5. GoesAt(flash, g, LastCmd)
  BY <1>3 DEF LoggedGoes
<1>6. CASE flash' = flash
  BY <1>3, <1>5, <1>6
<1>7. CASE Touched
  <2>1. PICK s \in DOMAIN flash : Exposed(s) /\ \E x : Updated(flash, flash', s, x)
    BY <1>7 DEF Touched
  <2>2. PICK x : Updated(flash, flash', s, x)
    BY <2>1
  <2>3. s = Target(LastCmd) /\ LastCmd.c3 < N
    BY <1>3, <2>1 DEF Exposed
  <2>4. \A i \in 0..N - 1 : Place(LastCmd, i) \in DOMAIN flash
    BY <1>3, <1>4, PlaceIs
  <2>5. \A i \in 0..N - 1 : s # Place(LastCmd, i)
    BY <1>4, <2>3, TargetClear
  <2>6. GoesAt(flash', g, LastCmd)
    BY <1>5, <2>2, <2>4, <2>5, GoesKept
  <2> QED BY <1>3, <2>6
<1> QED BY <1>6, <1>7 DEF FlashStep

(* Without an image in the run slot there is none in the move slot.        *)
LEMMA NoOldKept ==
  ASSUME NEW m \in Images \cup {None}, Assumed, Base(m), FlashStep, NoOldImage
  PROVE  NoOldImage'
<1> USE DEF Base
<1>1. InPlace' = InPlace
  BY SameLayout DEF FlashStep
<1>2. SUFFICES ASSUME ~ InPlace, ~ Swapping', ~ HasHdr(Run)'
               PROVE  ~ HasHdr(Move)'
  BY <1>1 DEF NoOldImage
<1>3. ~ Swapping
  BY <1>1, <1>2 DEF FlashStep, Swapping
<1>4. Run = 0 /\ Move = 1 /\ Verify = N /\ N \in Int /\ 1 <= N
      /\ Run \in DOMAIN flash /\ Move \in DOMAIN flash
  BY TypeFlash, Constants
<1>5. CASE flash' = flash
  BY <1>2, <1>3, <1>5 DEF NoOldImage, HasHdr, Run, Move
<1>6. CASE Touched
  <2>1. PICK s \in DOMAIN flash : Exposed(s) /\ \E x : Updated(flash, flash', s, x)
    BY <1>6 DEF Touched
  <2>2. PICK x : Updated(flash, flash', s, x)
    BY <2>1
  <2>3. (s = Verify /\ HasHdr(Run)) \/ s > N
    BY <1>2, <1>3, <2>1 DEF Exposed
  <2>4. flash'[Run] = flash[Run]
    BY <1>4, <2>2, <2>3 DEF Updated
  <2>5. ~ HasHdr(Run)
    BY <1>2, <2>4 DEF HasHdr, Run
  <2>6. flash'[Move] = flash[Move]
    BY <1>4, <2>2, <2>3, <2>5 DEF Updated
  <2>7. ~ HasHdr(Move)
    BY <1>2, <1>3, <2>5 DEF NoOldImage
  <2> QED BY <2>6, <2>7 DEF HasHdr, Move
<1> QED BY <1>5, <1>6 DEF FlashStep

-----------------------------------------------------------------------------
(* While a command is executed that moves a sector, a swap goes on.        *)
LEMMA MovesSwap ==
  ASSUME NEW m \in Images \cup {None}, Assumed, Base(m), ~ InPlace, at = "cmd",
         cmd.c2 \in {"RUN2MOV", "UPG2RUN", "MOV2UPG"}
  PROVE  Swapping /\ cmd = LastCmd /\ AtWork /\ Moving /\ log # <<>> /\ Continue
<1>1. cmd = LastCmd /\ AtWork
  BY Working
<1>2. Swapping /\ Continue
  BY <1>1 DEF Swapping, Continue
<1>3. log # <<>>
  BY <1>1, LastIs, LastEmpty, CommandIs
<1> QED BY <1>1, <1>2, <1>3 DEF Moving

(* The move of one sector: it is where the next command looks for it.      *)
LEMMA GoesMoved ==
  ASSUME NEW f, NEW h, NEW s, NEW x, Updated(f, h, s, x),
         NEW c \in Command, NEW d, NEW g \in Images, NEW k \in 0..N - 1,
         GoesAt(f, g, c),
         \A i \in 0..N - 1 : Place(c, i) \in DOMAIN f /\ s # Place(c, i),
         \A i \in 0..N - 1 : i # k =>
           Place(d, i) = Place(c, i) /\ (UpBy(d, i) <=> UpBy(c, i)),
         k < g.size => Place(d, k) = s /\ x = Sec(g, k, FormAt(g, d, k))
  PROVE  GoesAt(h, g, d)
<1>1. g # None /\ g.size \in Int /\ g.size <= N /\ N \in Int
  BY Constants
<1>2. \A i \in 0..g.size - 1 : i \in 0..N - 1 /\ i < g.size
  BY <1>1
<1>3. \A i \in 0..g.size - 1 : f[Place(c, i)] = Sec(g, i, FormAt(g, c, i))
  BY <1>1 DEF GoesAt
<1>4. ASSUME NEW i \in 0..g.size - 1
      PROVE  h[Place(d, i)] = Sec(g, i, FormAt(g, d, i))
  <2>1. CASE i = k
    <3>1. Place(d, i) = s /\ x = Sec(g, i, FormAt(g, d, i))
      BY <1>2, <2>1
    <3> QED BY <3>1 DEF Updated
  <2>2. CASE i # k
    <3>1. Place(d, i) = Place(c, i) /\ FormAt(g, d, i) = FormAt(g, c, i)
      BY <1>2, <2>2 DEF FormAt
    <3>2. h[Place(c, i)] = f[Place(c, i)]
      BY <1>2 DEF Updated
    <3> QED BY <1>3, <3>1, <3>2
  <2> QED BY <2>1, <2>2
<1> QED BY <1>1, <1>4 DEF GoesAt

(* A command that moves a sector of the image that comes, or none.         *)
LEMMA WorkGoesOn ==
  ASSUME NEW m \in Images \cup {None}, Assumed, Base(m), NEW g \in Images \cup {None},
         ~ InPlace, at = "cmd", cmd.c2 \in {"RUN2MOV", "UPG2RUN", "MOV2UPG"},
         WorkGoes(g),
         \/ Copied' = flash
         \/ cmd.c3 < N /\ \E x : Updated(flash, Copied', Target(cmd), x),
         g = None => cmd'.c2 # "RUN2MOV" /\ Place(cmd', 0) = Place(cmd, 0),
         g # None => \A i \in 0..g.size - 1 :
                       Place(cmd', i) = Place(cmd, i) /\ (UpBy(cmd', i) <=> UpBy(cmd, i))
  PROVE  WorkGoes(g)'
<1> USE DEF Base
<1>1. Copied = flash /\ GoesAt(flash, g, cmd)
  BY MovesSwap DEF WorkGoes, Copied
<1>2. cmd \in Command
  BY Commands
<1>3. GoesAt(Copied', g, cmd)
  <2>1. CASE Copied' = flash
    BY <1>1, <2>1
  <2>2. CASE cmd.c3 < N /\ \E x : Updated(flash, Copied', Target(cmd), x)
    <3>1. PICK s \in {Target(cmd)}, h \in {Copied'} : TRUE
      OBVIOUS
    <3>2. PICK x : Updated(flash, h, s, x)
      BY <2>2, <3>1
    <3>3. \A i \in 0..N - 1 : Place(cmd, i) \in DOMAIN flash /\ s # Place(cmd, i)
      <4>1. \A i \in 0..N - 1 : Place(cmd, i) \in DOMAIN flash
        BY <1>2, PlaceIs
      <4>2. \A i \in 0..N - 1 : s # Place(cmd, i)
        BY <1>2, <2>2, <3>1, TargetClear
      <4> QED BY <4>1, <4>2
    <3>4. GoesAt(h, g, cmd)
      BY <1>1, <3>2, <3>3, GoesKept
    <3> QED BY <3>1, <3>4
  <2> QED BY <2>1, <2>2
<1>4. PICK h \in {Copied'}, d \in {cmd'}, c \in {cmd} : TRUE
  OBVIOUS
<1>5. g = None => ~ Header(h, Place(c, 0))
  BY <1>3, <1>4 DEF GoesAt
<1>6. /\ GoesAt(h, g, c)
      /\ g = None => d.c2 # "RUN2MOV" /\ ~ Header(h, Place(d, 0))
      /\ g # None => \A i \in 0..g.size - 1 :
                       Place(d, i) = Place(c, i) /\ (UpBy(d, i) <=> UpBy(c, i))
  BY <1>3, <1>4, <1>5
<1>7. GoesAt(h, g, d)
  BY <1>6, GoesOn
<1> QED BY <1>4, <1>7 DEF WorkGoes

(* What is kept besides where the sectors are.                             *)
LEMMA MovesKeep ==
  ASSUME NEW m \in Images \cup {None}, Assumed, Base(m), ~ InPlace, at = "cmd",
         cmd.c2 \in {"RUN2MOV", "UPG2RUN", "MOV2UPG"},
         log' = log, DOMAIN flash' = DOMAIN flash
  PROVE  FirstCommand' /\ Newer(m)'
<1>1. log # <<>> /\ Continue
  BY MovesSwap
<1>2. Continue'
  BY <1>1, SameLog
<1> QED BY <1>1, <1>2 DEF FirstCommand, Newer

(* One sector of the old image to the move slot.                           *)
LEMMA Run2MovGoes ==
  ASSUME NEW m \in Images \cup {None}, Assumed, Base(m), NEW g \in Images \cup {None},
         ~ InPlace, Run2Mov, WorkGoes(g), GoneOver(g)
  PROVE  WorkGoes(g)' /\ GoneOver(g)' /\ FirstCommand' /\ Newer(m)'
<1> USE DEF Base
<1>1. /\ at = "cmd" /\ cmd.c2 = "RUN2MOV"
      /\ flash' = ErasedIn(Move, cmd.c3)
      /\ job' = [from |-> Run + cmd.c3, to |-> Move + cmd.c3, key |-> NoCrypt]
      /\ IF cmd.c3 = 0 THEN Goto("copy", "UPG2RUN", 0)
                       ELSE Goto("copy", "RUN2MOV", cmd.c3 - 1)
      /\ log' = log /\ mov2upg_done' = mov2upg_done
  BY DEF Run2Mov, CopyJob
<1>2. /\ cmd \in Command /\ cmd.c3 \in Int /\ 0 <= cmd.c3 /\ cmd.c3 < N
      /\ N \in Int /\ 1 <= N /\ N <= 255 /\ FlashOK(flash)
  BY <1>1, Commands, Constants, TypeFlash DEF CmdInv
<1>3. PICK k \in 0..N - 1 : k = cmd.c3
  BY <1>2
<1>4. PICK s \in {Move + k}, r \in {Run + k} : TRUE
  OBVIOUS
<1>5. /\ s = k + 1 /\ r = k /\ s \in DOMAIN flash /\ r \in DOMAIN flash /\ s # r
      /\ s = Target(cmd)
  <2>1. Move + k \in DOMAIN flash /\ Run + k \in DOMAIN flash
    BY TypeFlash
  <2> QED BY <1>1, <1>3, <1>4, <2>1 DEF Run, Move, Target
<1>6. ErasedOne(s) /\ DOMAIN flash' = DOMAIN flash
  BY <1>1, <1>2, <1>3, <1>4, <1>5, ErasedFlash
<1>7. /\ at' = "copy" /\ cmd' \in Command
      /\ \/ k = 0 /\ cmd'.c2 = "UPG2RUN" /\ cmd'.c3 = 0
         \/ k # 0 /\ cmd'.c2 = "RUN2MOV" /\ cmd'.c3 = k - 1
  <2>1. "RUN2MOV" \in C2 /\ "UPG2RUN" \in C2
    BY DEF C2
  <2>2. CASE k = 0
    BY <1>1, <1>3, <2>1, <2>2, GotoIs
  <2>3. CASE k # 0
    <3>1. k - 1 \in Int /\ 0 <= k - 1 /\ k - 1 <= 255
      BY <1>2, <2>3
    <3> QED BY <1>1, <1>3, <2>1, <2>3, <3>1, GotoIs
  <2> QED BY <2>2, <2>3
<1>8. GoesAt(flash, g, cmd)
  BY <1>1, MovesSwap DEF WorkGoes, Copied
<1>9. g \in Images /\ g # None
  BY <1>1, <1>8 DEF GoesAt
<1>10. GoesAt(Copied', g, cmd')
  <2>1. flash[r] \in Plain
    BY <1>2, <1>3, <1>5 DEF FlashOK, Verify
  <2>2. job'.from = r /\ job'.to = s /\ job'.key = NoCrypt
    BY <1>1, <1>3, <1>4
  <2>3. PICK h \in {CopyOf(flash', job')}, d \in {cmd'} : TRUE
    OBVIOUS
  <2>4. Updated(flash, h, s, Crypted(flash[r], NoCrypt))
    BY <1>2, <1>5, <1>6, <2>1, <2>2, <2>3, MoveIs DEF ErasedOne
  <2>5. \A i \in 0..N - 1 : Place(cmd, i) \in DOMAIN flash /\ s # Place(cmd, i)
    <3>1. \A i \in 0..N - 1 : Place(cmd, i) \in DOMAIN flash
      BY <1>2, PlaceIs
    <3>2. \A i \in 0..N - 1 : s # Place(cmd, i)
      BY <1>1, <1>2, <1>5, TargetClear
    <3> QED BY <3>1, <3>2
  <2>6. \A i \in 0..N - 1 : /\ Place(cmd, i) = (IF i > k THEN 1 + i ELSE i)
                            /\ ~ UpBy(cmd, i) /\ ~ UpBy(d, i)
                            /\ Place(d, i) = (IF i > k - 1 THEN 1 + i ELSE i)
    <3>1. d \in Command
      BY <1>7, <2>3
    <3>2. TAKE i \in 0..N - 1
    <3>3. Place(cmd, i) = (IF i > k THEN 1 + i ELSE i) /\ ~ UpBy(cmd, i)
      BY <1>1, <1>2, <1>3, PlaceIs DEF UpBy
    <3>4. CASE k = 0
      BY <1>7, <2>3, <3>1, <3>3, <3>4, PlaceIs DEF UpBy
    <3>5. CASE k # 0
      BY <1>7, <2>3, <3>1, <3>3, <3>5, PlaceIs DEF UpBy
    <3> QED BY <3>4, <3>5
  <2>7. \A i \in 0..N - 1 : i # k =>
           Place(d, i) = Place(cmd, i) /\ (UpBy(d, i) <=> UpBy(cmd, i))
    BY <1>2, <2>6
  <2>8. k < g.size => Place(d, k) = s
                      /\ Crypted(flash[r], NoCrypt) = Sec(g, k, FormAt(g, d, k))
    <3> HAVE k < g.size
    <3>1. k \in 0..g.size - 1
      BY <1>9, Constants
    <3>2. Place(cmd, k) = r /\ Place(d, k) = s
      BY <1>2, <1>5, <2>6
    <3>3. flash[r] = Sec(g, k, RunForm(g))
      BY <1>8, <1>9, <2>6, <3>1, <3>2 DEF GoesAt, FormAt
    <3>4. Crypted(flash[r], NoCrypt) = Sec(g, k, RunForm(g))
      BY <1>9, <3>3, CryptedSec
    <3> QED BY <2>6, <3>2, <3>4 DEF FormAt
  <2>9. GoesAt(h, g, d)
    BY <1>2, <1>8, <1>9, <2>4, <2>5, <2>7, <2>8, GoesMoved
  <2> QED BY <1>7, <2>3, <2>9 DEF Copied
<1>11. ~ mov2upg_done
  <2>1. AtWork
    BY <1>1 DEF AtWork
  <2>2. mov2upg_done \in BOOLEAN
    BY DEF TypeOK
  <2> QED BY <1>1, <2>1, <2>2 DEF GoneOver
<1> QED BY <1>1, <1>6, <1>10, <1>11, MovesKeep DEF WorkGoes, GoneOver

(* A sector of the image that comes, to the run slot.                      *)
LEMMA Upg2RunGoes ==
  ASSUME NEW m \in Images \cup {None}, Assumed, Base(m), NEW g \in Images \cup {None},
         ~ InPlace, Upg2RunFirst \/ Upg2RunNext \/ Upg2RunSkip, WorkGoes(g), GoneOver(g)
  PROVE  WorkGoes(g)' /\ GoneOver(g)' /\ FirstCommand' /\ Newer(m)'
<1> USE DEF Base
<1>1. at = "cmd" /\ cmd.c2 = "UPG2RUN"
  BY DEF Upg2RunFirst, Upg2RunNext, Upg2RunSkip
<1>2. /\ cmd \in Command /\ cmd.c3 \in Int /\ 0 <= cmd.c3 /\ cmd.c3 <= 255
      /\ N \in Int /\ 1 <= N /\ AtWork /\ in_place = InPlace
  BY <1>1, Commands, Constants, Working
<1>3. /\ cmd' \in Command /\ cmd'.c2 = "MOV2UPG" /\ cmd'.c3 = cmd.c3
      /\ mov2upg_done' = mov2upg_done /\ log' = log /\ DOMAIN flash' = DOMAIN flash
      /\ \/ at' = "log" /\ flash' = flash
         \/ at' \in {"log", "copy"} /\ ErasedOne(Run + cmd.c3) /\ cmd.c3 < N
      /\ at' = "copy" => job'.to = Run + cmd.c3
  <2>1. CASE Upg2RunFirst
    <3>1. /\ cmd.c3 = 0 /\ ErasedOne(Run) /\ DOMAIN flash' = DOMAIN flash
          /\ job' = [from |-> Upgrade, to |-> Run, key |-> IF m.enc THEN m ELSE NoCrypt]
          /\ at' = "copy" /\ cmd' \in Command /\ cmd'.c2 = "MOV2UPG" /\ cmd'.c3 = 0
          /\ log' = log /\ mov2upg_done' = mov2upg_done
      BY <2>1, FirstDoes
    <3>2. job'.to = Run /\ Run + cmd.c3 = Run /\ cmd.c3 < N
      BY <1>2, <3>1 DEF Run
    <3> QED BY <3>1, <3>2
  <2>2. CASE Upg2RunNext
    <3>1. /\ cmd.c3 < N => ErasedOne(Run + cmd.c3)
          /\ ~ (cmd.c3 < N) => flash' = flash
          /\ DOMAIN flash' = DOMAIN flash
          /\ cmd' \in Command /\ cmd'.c2 = "MOV2UPG" /\ cmd'.c3 = cmd.c3
          /\ log' = log /\ mov2upg_done' = mov2upg_done
      BY <2>2, NextDoes
    <3>2. \/ /\ cmd.c3 < m.size
             /\ job' = [from |-> Upgrade + cmd.c3, to |-> Run + cmd.c3,
                        key |-> IF upgr_ok /\ ~ m.enc THEN NoCrypt ELSE upgr_key]
             /\ at' = "copy"
          \/ at' = "log"
      BY <2>2, NextDoes
    <3>3. m.size \in Int /\ m.size <= N
      BY <1>1, Working
    <3>4. at' = "copy" => cmd.c3 < N /\ job'.to = Run + cmd.c3
      BY <1>2, <3>2, <3>3
    <3> QED BY <3>1, <3>2, <3>4
  <2>3. CASE Upg2RunSkip
    <3>1. Goto("log", "MOV2UPG", cmd.c3) /\ flash' = flash /\ log' = log
          /\ mov2upg_done' = mov2upg_done
      BY <1>2, <2>3 DEF Upg2RunSkip
    <3>2. "MOV2UPG" \in C2
      BY DEF C2
    <3>3. at' = "log" /\ cmd' \in Command /\ cmd'.c2 = "MOV2UPG" /\ cmd'.c3 = cmd.c3
      BY <1>2, <3>1, <3>2, GotoIs
    <3> QED BY <3>1, <3>3
  <2> QED BY <2>1, <2>2, <2>3
<1>4. \A i \in 0..N - 1 : Place(cmd', i) = Place(cmd, i) /\ (UpBy(cmd', i) <=> UpBy(cmd, i))
  <2>1. TAKE i \in 0..N - 1
  <2>2. UpBy(cmd', i) <=> UpBy(cmd, i)
    BY <1>1, <1>3 DEF UpBy
  <2>3. Place(cmd, i) = (IF i < cmd.c3 THEN N + 1 + i ELSE 1 + i)
    BY <1>1, <1>2, PlaceIs
  <2>4. Place(cmd', i) = (IF i < cmd'.c3 THEN N + 1 + i ELSE 1 + i)
    BY <1>3, PlaceIs
  <2> QED BY <1>3, <2>2, <2>3, <2>4
<1>5. Target(cmd) = Run + cmd.c3
  BY <1>1, <1>2 DEF Target, Run
<1>6. \/ Copied' = flash
      \/ cmd.c3 < N /\ \E x : Updated(flash, Copied', Target(cmd), x)
  <2>1. CASE at' = "copy"
    <3>1. ErasedOne(Run + cmd.c3) /\ cmd.c3 < N /\ job'.to = Run + cmd.c3
      BY <1>3, <2>1
    <3>2. Copied' = CopyOf(flash', job')
      BY <2>1 DEF Copied
    <3> QED BY <1>5, <3>1, <3>2, MovedOne
  <2>2. CASE at' = "log"
    <3>1. Copied' = flash'
      BY <2>2 DEF Copied
    <3> QED BY <1>3, <1>5, <3>1 DEF ErasedOne
  <2> QED BY <1>3, <2>1, <2>2
<1>7. WorkGoes(g)'
  <2>1. g = None => cmd'.c2 # "RUN2MOV" /\ Place(cmd', 0) = Place(cmd, 0)
    BY <1>2, <1>3, <1>4
  <2>2. g # None => \A i \in 0..g.size - 1 :
                       Place(cmd', i) = Place(cmd, i) /\ (UpBy(cmd', i) <=> UpBy(cmd, i))
    <3> HAVE g # None
    <3>1. \A i \in 0..g.size - 1 : i \in 0..N - 1
      BY Constants
    <3> QED BY <1>4, <3>1
  <2> QED BY <1>1, <1>6, <2>1, <2>2, WorkGoesOn
<1>8. GoneOver(g)'
  BY <1>1, <1>2, <1>3 DEF GoneOver
<1> QED BY <1>1, <1>3, <1>7, <1>8, MovesKeep

(* Nothing of the image that goes is left to be moved.                     *)
LEMMA Mov2UpgSkipGoes ==
  ASSUME NEW m \in Images \cup {None}, Assumed, Base(m), NEW g \in Images \cup {None},
         ~ InPlace, Mov2UpgSkip, WorkGoes(g), GoneOver(g)
  PROVE  WorkGoes(g)' /\ GoneOver(g)' /\ FirstCommand' /\ Newer(m)'
<1> USE DEF Base
<1>1. /\ at = "cmd" /\ cmd.c2 = "MOV2UPG" /\ mov2upg_done /\ at' = "log"
      /\ flash' = flash /\ log' = log /\ mov2upg_done' = mov2upg_done
  BY DEF Mov2UpgSkip, Goto
<1>2. /\ cmd \in Command /\ cmd.c3 \in Int /\ 0 <= cmd.c3 /\ cmd.c3 <= 255
      /\ N \in Int /\ 1 <= N /\ AtWork /\ Limit \in Int /\ Limit <= 255
      /\ upg2run_done \in BOOLEAN
  BY <1>1, Commands, Constants, Working
<1>3. cmd.c3 >= 1 /\ (g # None => cmd.c3 >= g.size)
  BY <1>1, <1>2 DEF GoneOver
<1>4. /\ cmd' \in Command
      /\ \/ cmd'.c2 = "FINALISE" /\ cmd'.c3 = cmd.c3
         \/ cmd'.c2 = "UPG2RUN" /\ cmd'.c3 = cmd.c3 + 1
  <2>1. "FINALISE" \in C2 /\ "UPG2RUN" \in C2
    BY DEF C2
  <2>2. CASE upg2run_done
    <3>1. Goto("log", "FINALISE", cmd.c3)
      BY <2>2 DEF Mov2UpgSkip
    <3> QED BY <1>2, <2>1, <3>1, GotoIs
  <2>3. CASE ~ upg2run_done
    <3>1. Goto("log", "UPG2RUN", cmd.c3 + 1)
      BY <2>3 DEF Mov2UpgSkip
    <3>2. cmd.c3 + Undone <= Limit
      BY <1>1, <1>2 DEF CmdInv
    <3>3. Undone >= 1 /\ Undone \in Int
      BY <1>1, <1>2, <2>3 DEF Undone
    <3>4. cmd.c3 + 1 \in Int /\ 0 <= cmd.c3 + 1 /\ cmd.c3 + 1 <= 255
      BY <1>2, <3>2, <3>3
    <3> QED BY <2>1, <3>1, <3>4, GotoIs
  <2> QED BY <1>2, <2>2, <2>3
<1>5. \A i \in 0..N - 1 : i < cmd.c3 =>
        /\ Place(cmd', i) = Place(cmd, i) /\ UpBy(cmd', i) /\ UpBy(cmd, i)
  <2>1. TAKE i \in 0..N - 1
  <2>2. HAVE i < cmd.c3
  <2>3. UpBy(cmd, i) /\ UpBy(cmd', i)
    BY <1>1, <1>2, <1>4, <2>2 DEF UpBy
  <2> QED BY <2>3 DEF Place
<1>6. WorkGoes(g)'
  <2>1. g = None => cmd'.c2 # "RUN2MOV" /\ Place(cmd', 0) = Place(cmd, 0)
    BY <1>2, <1>3, <1>4, <1>5
  <2>2. g # None => \A i \in 0..g.size - 1 :
                       Place(cmd', i) = Place(cmd, i) /\ (UpBy(cmd', i) <=> UpBy(cmd, i))
    <3> HAVE g # None
    <3>1. \A i \in 0..g.size - 1 : i \in 0..N - 1 /\ i < cmd.c3
      BY <1>2, <1>3, Constants
    <3> QED BY <1>5, <3>1
  <2>3. Copied' = flash
    BY <1>1 DEF Copied
  <2> QED BY <1>1, <2>1, <2>2, <2>3, WorkGoesOn
<1>7. GoneOver(g)'
  <2>1. g # None => g.size \in Int
    BY Constants
  <2> QED BY <1>2, <1>3, <1>4, <2>1 DEF GoneOver
<1> QED BY <1>1, <1>6, <1>7, MovesKeep

(* A sector of the image that goes, to the upgrade slot, or the end of it. *)
LEMMA Mov2UpgGoes ==
  ASSUME NEW m \in Images \cup {None}, Assumed, Base(m), NEW g \in Images \cup {None},
         ~ InPlace, Mov2Upg, WorkGoes(g), GoneOver(g)
  PROVE  WorkGoes(g)' /\ GoneOver(g)' /\ FirstCommand' /\ Newer(m)'
<1> USE DEF Base
<1>1. /\ at = "cmd" /\ cmd.c2 = "MOV2UPG" /\ mov2upg_done = FALSE
      /\ cmd.c3 < N => ErasedOne(Upgrade + cmd.c3)
      /\ ~ (cmd.c3 < N) => flash' = flash
      /\ DOMAIN flash' = DOMAIN flash /\ log' = log
      /\ cmd' \in Command /\ cmd'.c2 = "UPG2RUN" /\ cmd'.c3 = cmd.c3 + 1
  BY Mov2UpgDoes
<1>2. \/ /\ HasHdr(OldHeader) /\ cmd.c3 < Hdr(OldHeader).size
         /\ cmd.c3 < N
         /\ job' = [from |-> Move + cmd.c3, to |-> Upgrade + cmd.c3,
                    key |-> IF Hdr(OldHeader).enc THEN Hdr(OldHeader) ELSE NoCrypt]
         /\ at' = "copy" /\ mov2upg_done' = FALSE
      \/ /\ ~ (HasHdr(OldHeader) /\ cmd.c3 < Hdr(OldHeader).size)
         /\ at' = "log" /\ mov2upg_done' = TRUE
  BY Mov2UpgDoes
<1>3. /\ cmd \in Command /\ cmd.c3 \in Int /\ 0 <= cmd.c3
      /\ N \in Int /\ 1 <= N /\ AtWork /\ Upgrade = N + 1 /\ FlashOK(flash)
  BY <1>1, Commands, Constants, Working, TypeFlash
<1>4. GoesAt(flash, g, cmd)
  BY <1>1, MovesSwap DEF WorkGoes, Copied
<1>5. Target(cmd) = Upgrade + cmd.c3
  BY <1>1, <1>3 DEF Target
<1>6. \A i \in 0..N - 1 :
        /\ Place(cmd, i) = (IF i < cmd.c3 THEN N + 1 + i ELSE 1 + i)
        /\ Place(cmd', i) = (IF i < cmd.c3 + 1 THEN N + 1 + i ELSE 1 + i)
        /\ UpBy(cmd, i) <=> i < cmd.c3
        /\ UpBy(cmd', i) <=> i < cmd.c3 + 1
  <2>1. TAKE i \in 0..N - 1
  <2>2. Place(cmd, i) = (IF i < cmd.c3 THEN N + 1 + i ELSE 1 + i)
    BY <1>1, <1>3, PlaceIs
  <2>3. Place(cmd', i) = (IF i < cmd.c3 + 1 THEN N + 1 + i ELSE 1 + i)
    BY <1>1, PlaceIs
  <2>4. (UpBy(cmd, i) <=> i < cmd.c3) /\ (UpBy(cmd', i) <=> i < cmd.c3 + 1)
    BY <1>1 DEF UpBy
  <2> QED BY <2>2, <2>3, <2>4
<1>7. OldHeader = Place(cmd, 0)
  BY <1>3, <1>6 DEF OldHeader, Move
<1>8. g # None => HasHdr(OldHeader) /\ Hdr(OldHeader) = g
  <2> HAVE g # None
  <2>1. 0 \in 0..g.size - 1 /\ g \in Images
    BY Constants
  <2>2. PICK fm : flash[OldHeader] = Sec(g, 0, fm)
    BY <1>4, <1>7, <2>1 DEF GoesAt
  <2> QED BY <2>1, <2>2, HeaderAt
<1>9. g = None => ~ HasHdr(OldHeader)
  BY <1>4, <1>7 DEF GoesAt, Header, HasHdr
<1>10. CASE at' = "copy"
  <2>1. PICK k \in 0..N - 1, s \in {Upgrade + cmd.c3}, r \in {Move + cmd.c3} : k = cmd.c3
    BY <1>2, <1>3, <1>10
  <2>2. g \in Images /\ g # None /\ k < g.size /\ Hdr(OldHeader) = g
    BY <1>2, <1>8, <1>9, <1>10, <2>1
  <2>3. PICK key \in {IF g.enc THEN g ELSE NoCrypt} : TRUE
    OBVIOUS
  <2>4. job'.from = r /\ job'.to = s /\ job'.key = key
    BY <1>2, <1>10, <2>1, <2>2, <2>3
  <2>5. /\ s = N + 1 + k /\ r = 1 + k /\ r # s /\ r \in DOMAIN flash /\ s \in DOMAIN flash
    <3>1. s = Upgrade + k /\ r = Move + k /\ Move = 1
      BY <2>1 DEF Move
    <3>2. Upgrade + k \in DOMAIN flash /\ Move + k \in DOMAIN flash
      BY TypeFlash
    <3>3. s = N + 1 + k /\ r = 1 + k
      BY <1>3, <3>1
    <3> QED BY <1>3, <3>1, <3>2, <3>3
  <2>6. ErasedOne(s)
    BY <1>1, <1>3, <2>1
  <2>7. k \in 0..g.size - 1
    BY <2>1, <2>2, Constants
  <2>8. flash[r] = Sec(g, k, RunForm(g))
    <3>1. Place(cmd, k) = r /\ ~ UpBy(cmd, k)
      BY <1>3, <1>6, <2>1, <2>5
    <3> QED BY <1>4, <2>2, <2>7, <3>1 DEF GoesAt, FormAt
  <2>9. flash[r] \in Plain
    BY <1>3, <2>2, <2>8, SecIs, FormIs DEF Plain
  <2>10. PICK h \in {CopyOf(flash', job')}, d \in {cmd'} : TRUE
    OBVIOUS
  <2>11. Updated(flash, h, s, Crypted(flash[r], key))
    BY <1>3, <2>4, <2>5, <2>6, <2>9, <2>10, MoveIs DEF ErasedOne
  <2>12. Crypted(flash[r], key) = Sec(g, k, "sent")
    BY <2>2, <2>3, <2>8, CryptedSec
  <2>13. \A i \in 0..N - 1 : Place(cmd, i) \in DOMAIN flash /\ s # Place(cmd, i)
    <3>1. \A i \in 0..N - 1 : Place(cmd, i) \in DOMAIN flash
      BY <1>3, PlaceIs
    <3>2. \A i \in 0..N - 1 : s # Place(cmd, i)
      BY <1>3, <1>6, <2>1, <2>5
    <3> QED BY <3>1, <3>2
  <2>14. \A i \in 0..N - 1 : i # k =>
           Place(d, i) = Place(cmd, i) /\ (UpBy(d, i) <=> UpBy(cmd, i))
    BY <1>3, <1>6, <2>1, <2>10
  <2>15. k < g.size => Place(d, k) = s
                       /\ Crypted(flash[r], key) = Sec(g, k, FormAt(g, d, k))
    BY <1>3, <1>6, <2>1, <2>5, <2>10, <2>12 DEF FormAt
  <2>16. GoesAt(h, g, d)
    BY <1>3, <1>4, <2>2, <2>11, <2>13, <2>14, <2>15, GoesMoved
  <2>17. WorkGoes(g)'
    BY <1>10, <2>10, <2>16 DEF WorkGoes, Copied
  <2>18. mov2upg_done' = FALSE
    BY <1>2, <1>10
  <2> QED BY <1>1, <2>17, <2>18, MovesKeep DEF GoneOver
<1>11. CASE at' = "log"
  <2>1. g # None => cmd.c3 >= g.size /\ g.size \in Int /\ g.size <= N
    BY <1>2, <1>3, <1>8, <1>11, Constants
  <2>2. Copied' = flash'
    BY <1>11 DEF Copied
  <2>3. WorkGoes(g)'
    <3>1. CASE g # None
      <4>1. \/ Copied' = flash
            \/ cmd.c3 < N /\ \E x : Updated(flash, Copied', Target(cmd), x)
        BY <1>1, <1>5, <2>2 DEF ErasedOne
      <4>2. \A i \in 0..g.size - 1 :
               Place(cmd', i) = Place(cmd, i) /\ (UpBy(cmd', i) <=> UpBy(cmd, i))
        <5>1. \A i \in 0..g.size - 1 : i \in 0..N - 1 /\ i < cmd.c3 /\ i < cmd.c3 + 1
          BY <1>3, <2>1, <3>1
        <5> QED BY <1>6, <5>1
      <4> QED BY <1>1, <3>1, <4>1, <4>2, WorkGoesOn
    <3>2. CASE g = None
      <4>1. Place(cmd', 0) = N + 1
        BY <1>3, <1>6
      <4>2. ~ Header(flash', N + 1)
        <5>1. CASE cmd.c3 = 0
          <6>1. Updated(flash, flash', N + 1, Blank)
            <7>1. Upgrade + cmd.c3 = N + 1
              BY <1>3, <5>1
            <7> QED BY <1>1, <1>3, <5>1, <7>1 DEF ErasedOne
          <6> QED BY <6>1 DEF Updated, Header, Blank
        <5>2. CASE cmd.c3 # 0
          <6>1. Place(cmd, 0) = N + 1
            BY <1>3, <1>6, <5>2
          <6>2. ~ Header(flash, N + 1)
            BY <1>4, <3>2, <6>1 DEF GoesAt
          <6>3. CASE cmd.c3 < N
            <7>1. PICK s \in {Upgrade + cmd.c3} : Updated(flash, flash', s, Blank)
              BY <1>1, <6>3 DEF ErasedOne
            <7>2. s # N + 1
              BY <1>3, <5>2, <7>1
            <7>3. N + 1 \in DOMAIN flash
              BY DEF InPlace
            <7> QED BY <6>2, <7>1, <7>2, <7>3 DEF Updated, Header
          <6>4. CASE ~ (cmd.c3 < N)
            BY <1>1, <6>2, <6>4
          <6> QED BY <6>3, <6>4
        <5> QED BY <5>1, <5>2
      <4>3. GoesAt(Copied', g, cmd')
        BY <1>1, <2>2, <3>2, <4>1, <4>2 DEF GoesAt
      <4> QED BY <4>3 DEF WorkGoes
    <3> QED BY <3>1, <3>2
  <2>4. GoneOver(g)'
    BY <1>1, <1>3, <2>1 DEF GoneOver
  <2> QED BY <1>1, <2>3, <2>4, MovesKeep
<1> QED BY <1>2, <1>10, <1>11

(* The old image, if there is one, is the one that goes from now on.       *)
LEMMA StartMoveGoes ==
  ASSUME NEW m \in Images \cup {None}, Assumed, Base(m), NEW g \in Images \cup {None},
         ~ InPlace, StartMove, GoneOver(g), StandsWhole, NoOldImage, Newer(m)
  PROVE  \E w \in Images \cup {None} :
            WorkGoes(w)' /\ GoneOver(w)' /\ FirstCommand' /\ Newer(m)' /\ ~ Swapping
<1> USE DEF Base
<1>1. /\ at = "cmd" /\ cmd.c2 = "EMPTY" /\ at' = "log" /\ flash' = flash /\ log' = log
      /\ mov2upg_done' = mov2upg_done
  BY DEF StartMove, Goto
<1>2. /\ cmd = LastCmd /\ AtWork /\ in_place = InPlace /\ N \in Int /\ 1 <= N /\ N <= 255
      /\ log = <<>> /\ cmd = NoCmd
  BY <1>1, Working, Constants DEF CmdInv
<1>3. ~ Continue /\ ~ Swapping
  BY <1>1, <1>2 DEF Continue, Swapping
<1>4. Newer(m)'
  <2>1. DepOk(m)
    BY <1>2, <1>3 DEF Newer
  <2>2. DepOk(m)'
    BY <1>1, <2>1 DEF DepOk, HasHdr, Hdr, Run
  <2> QED BY <2>2 DEF Newer
<1>5. mov2upg_done = FALSE
  <2>1. mov2upg_done \in BOOLEAN
    BY DEF TypeOK
  <2> QED BY <1>1, <1>2, <2>1 DEF GoneOver
<1>6. \A w : GoneOver(w)'
  BY <1>1, <1>5 DEF GoneOver
<1>7. Copied' = flash /\ "RUN2MOV" \in C2 /\ "UPG2RUN" \in C2
  BY <1>1 DEF Copied, C2
<1>8. CASE HasHdr(Run)
  <2>1. PICK w \in {Hdr(Run)} : TRUE
    OBVIOUS
  <2>2. w \in Images /\ w # None /\ w.size \in Int /\ 1 <= w.size /\ w.size <= N
    BY <1>8, <2>1, TypeFlash, HeaderIs, Constants
  <2>3. Goto("log", "RUN2MOV", w.size - 1)
    BY <1>2, <1>8, <2>1 DEF StartMove
  <2>4. cmd' \in Command /\ cmd'.c2 = "RUN2MOV" /\ cmd'.c3 = w.size - 1
    <3>1. w.size - 1 \in Int /\ 0 <= w.size - 1 /\ w.size - 1 <= 255
      BY <1>2, <2>2
    <3> QED BY <1>7, <2>3, <3>1, GotoIs
  <2>5. \A i \in 0..w.size - 1 : flash[Run + i] = Sec(w, i, RunForm(w))
    BY <1>3, <1>8, <2>1 DEF StandsWhole, RunWhole, Holds
  <2>6. \A i \in 0..w.size - 1 : Place(cmd', i) = Run + i /\ FormAt(w, cmd', i) = RunForm(w)
    <3>1. TAKE i \in 0..w.size - 1
    <3>2. i \in 0..N - 1 /\ ~ (i > w.size - 1)
      BY <1>2, <2>2
    <3>3. Place(cmd', i) = i /\ ~ UpBy(cmd', i)
      BY <2>4, <3>2, PlaceIs DEF UpBy
    <3> QED BY <3>3 DEF FormAt, Run
  <2>7. GoesAt(Copied', w, cmd')
    BY <1>7, <2>2, <2>5, <2>6 DEF GoesAt
  <2> QED BY <1>3, <1>4, <1>6, <2>2, <2>4, <2>7 DEF WorkGoes, FirstCommand
<1>9. CASE ~ HasHdr(Run)
  <2>1. Goto("log", "UPG2RUN", 0)
    BY <1>9 DEF StartMove
  <2>2. cmd' \in Command /\ cmd'.c2 = "UPG2RUN" /\ cmd'.c3 = 0
    BY <1>7, <2>1, GotoIs
  <2>3. Place(cmd', 0) = Move
    <3>1. 0 \in 0..N - 1
      BY <1>2
    <3> QED BY <2>2, <3>1, PlaceIs DEF Move
  <2>4. ~ HasHdr(Move)
    BY <1>3, <1>9 DEF NoOldImage
  <2>5. GoesAt(Copied', None, cmd')
    BY <1>7, <2>2, <2>3, <2>4 DEF GoesAt, Header, HasHdr
  <2>6. FirstCommand'
    <3>1. ~ HasHdr(Run)'
      BY <1>1, <1>9 DEF HasHdr, Run
    <3> QED BY <2>2, <3>1 DEF FirstCommand
  <2> QED BY <1>3, <1>4, <1>6, <2>5, <2>6 DEF WorkGoes
<1> QED BY <1>8, <1>9

(* The end of a swap, and what the swapper does to VERIFY.                 *)
LEMMA EndGoes ==
  ASSUME NEW m \in Images \cup {None}, Assumed, Base(m), NEW g \in Images \cup {None},
         ~ InPlace, Finalise \/ EraseVerify \/ WriteVerify, GoneOver(g)
  PROVE  WorkGoes(g)' /\ GoneOver(g)' /\ FirstCommand' /\ Newer(m)'
<1> USE DEF Base
<1>1. mov2upg_done' = mov2upg_done /\ cmd'.c3 = cmd.c3
  <2>1. CASE Finalise
    <3>1. Goto("unsign", "SWP_END", cmd.c3) \/ Goto("log", "SWP_END", cmd.c3)
      BY <2>1 DEF Finalise
    <3>2. "SWP_END" \in C2 /\ cmd.c3 \in Int /\ 0 <= cmd.c3 /\ cmd.c3 <= 255
      BY Commands DEF C2
    <3>3. cmd'.c3 = cmd.c3
      BY <3>1, <3>2, GotoIs
    <3> QED BY <2>1, <3>3 DEF Finalise
  <2>2. CASE EraseVerify \/ WriteVerify
    BY <2>2 DEF EraseVerify, WriteVerify, session
  <2> QED BY <2>1, <2>2
<1>2. ASSUME AtWork'
      PROVE  AtWork /\ cmd'.c2 = "SWP_END" /\ cmd.c2 # "EMPTY" /\ cmd.c2 # "RUN2MOV"
             /\ LastCmd.c2 = "FINALISE"
  <2>1. CASE Finalise
    <3>1. at = "cmd" /\ cmd.c2 = "FINALISE" /\ cmd'.c2 = "SWP_END"
      BY <2>1 DEF Finalise, Goto, Cmd
    <3>2. cmd = LastCmd /\ AtWork
      BY <3>1, Working
    <3> QED BY <3>1, <3>2
  <2>2. CASE EraseVerify \/ WriteVerify
    <3>1. /\ at \in {"unsign", "sign"} /\ cmd' = cmd /\ at' \in {"upload", "sign", "log", "app"}
          /\ at' = "log" => cmd.c2 = "SWP_END"
      BY <2>2 DEF EraseVerify, WriteVerify, session
    <3>2. cmd.c2 = "SWP_END"
      BY <1>2, <3>1 DEF AtWork
    <3>3. AtWork
      BY <3>1, <3>2 DEF AtWork
    <3>4. LastCmd.c2 = "FINALISE"
      BY <3>1, <3>2, <3>3 DEF CmdInv
    <3> QED BY <3>1, <3>2, <3>3, <3>4
  <2> QED BY <2>1, <2>2
<1>3. ASSUME AtWork'
      PROVE  ~ Swapping' /\ Continue' /\ log' # <<>>
  <2>1. log' = log /\ DOMAIN flash' = DOMAIN flash
    BY DEF Finalise, EraseVerify, WriteVerify
  <2>2. LastCmd' = LastCmd /\ InPlace' = InPlace
    BY <2>1, SameLog
  <2>3. LastCmd' # NoCmd
    BY <1>2, <1>3, <2>2, CommandIs
  <2>4. log' # <<>>
    BY <2>3, LastIs, LastEmpty
  <2> QED BY <1>2, <1>3, <2>2, <2>4 DEF Swapping, Continue
<1>4. ~ Moving'
  BY <1>3 DEF Moving
<1>5. FirstCommand'
  <2>1. at' = "log" => AtWork'
    BY DEF AtWork
  <2> QED BY <1>3, <2>1 DEF FirstCommand
<1>6. GoneOver(g)'
  BY <1>1, <1>2 DEF GoneOver
<1> QED BY <1>3, <1>4, <1>5, <1>6 DEF WorkGoes, Newer

-----------------------------------------------------------------------------
(* A swap that goes on looks for the image where the log says it is; a new *)
(* one has passed the check of its dependencies.                           *)
LEMMA SwapStartGoes ==
  ASSUME NEW m \in Images \cup {None}, Assumed, Base(m), NEW g \in Images \cup {None},
         ~ InPlace, SwapStart, LoggedGoes(g), NEW w,
         \/ w = m /\ (Continue' \/ ~ AtWork')
         \/ ~ Continue' /\ w = Hdr(Upgrade)
  PROVE  WorkGoes(g)' /\ GoneOver(g)' /\ FirstCommand' /\ Newer(w)'
<1> USE DEF Base
<1>1. at = "swap" /\ flash' = flash /\ log' = log /\ DOMAIN flash' = DOMAIN flash
  BY DEF SwapStart
<1>2. /\ LastCmd' = LastCmd /\ Continue' = Continue /\ Swapping' = Swapping
      /\ InPlace' = InPlace
  BY <1>1, SameLog
<1>3. cmd = NoCmd /\ NoCmd.c2 = "EMPTY" /\ mov2upg_done = FALSE
  BY <1>1, CommandIs DEF CmdInv, AtWork
<1>4. AtWork' =>
        /\ at' \in {"cmd", "wipe"} /\ mov2upg_done' = FALSE
        /\ \/ ~ Continue /\ cmd' = cmd
           \/ Continue /\ cmd' = LastCmd
  BY <1>3 DEF SwapStart, JumpRun, NoSession, AtWork
<1>5. at' # "log"
  BY DEF SwapStart, JumpRun
<1>6. WorkGoes(g)'
  <2> SUFFICES ASSUME Moving'
               PROVE  GoesAt(Copied', g, cmd')
    BY DEF WorkGoes
  <2>1. AtWork' /\ cmd'.c2 # "EMPTY"
    BY DEF Moving
  <2>2. Continue /\ cmd' = LastCmd /\ at' \in {"cmd", "wipe"}
    BY <1>3, <1>4, <2>1
  <2>3. log # <<>>
    BY <1>3, <2>1, <2>2, LastIs, LastEmpty
  <2>4. Swapping
    BY <1>1, <1>2, <2>3 DEF Moving
  <2>5. Copied' = flash
    BY <1>1, <2>2 DEF Copied
  <2> QED BY <2>2, <2>4, <2>5 DEF LoggedGoes
<1>7. Newer(w)'
  <2> SUFFICES ASSUME AtWork', ~ Continue'
               PROVE  DepOk(w)'
    BY DEF Newer
  <2>1. ~ Continue
    BY <1>2
  <2>2. at' \in {"cmd", "wipe"}
    BY <1>4
  <2>3. \E others \in OtherDeps : UpgradeValid(others)
    BY <1>1, <2>1, <2>2 DEF SwapStart, JumpRun
  <2>4. DepOk(Hdr(Upgrade))
    BY <2>3 DEF UpgradeValid
  <2>5. w = Hdr(Upgrade)
    OBVIOUS
  <2>6. DepOk(w)
    BY <2>4, <2>5
  <2> QED BY <1>1, <2>6 DEF DepOk, HasHdr, Hdr, Run
<1> QED BY <1>4, <1>5, <1>6, <1>7 DEF GoneOver, FirstCommand

(* The write of a command: from now on the sectors are looked for where it *)
(* says they are.                                                          *)
LEMMA WriteLogGoes ==
  ASSUME NEW m \in Images \cup {None}, Assumed, Base(m), NEW g \in Images \cup {None},
         ~ InPlace, WriteLog, Arrives(m), Departs(g), Newer(m)
  PROVE  Departs(g)' /\ Newer(m)'
<1> USE DEF Base
<1>1. /\ at = "log" /\ AtWork /\ flash' = flash /\ InPlace' = InPlace
      /\ LastCmd' = cmd /\ cmd.c2 # "EMPTY" /\ cmd.c2 \in C2
      /\ LastCmd.c2 = "FINALISE" <=> cmd.c2 = "SWP_END"
  BY WriteDoes, Commands
<1>2. Copied = flash
  BY <1>1 DEF Copied
<1>3. Swapping' => Moving
  <2> HAVE Swapping'
  <2>1. cmd.c2 # "SWP_END"
    BY <1>1 DEF Swapping
  <2>2. Continue \/ log = <<>>
    BY <1>1 DEF CmdInv
  <2>3. Continue => Swapping
    BY <1>1, <2>1, Commands DEF Swapping, C2
  <2> QED BY <1>1, <2>2, <2>3 DEF Moving
<1>4. LoggedGoes(g)'
  BY <1>1, <1>2, <1>3 DEF Departs, WorkGoes, LoggedGoes
<1>5. cmd.c2 \in {"FINALISE", "SWP_END"} => HasHdr(Run)
  <2>1. Arrived(flash, m, cmd) /\ Comes(flash, Upgrade, m, cmd) /\ TypeOK
    BY <1>1, <1>2 DEF Arrives, WorkArrived, ComeInv
  <2> QED BY <2>1, ArrivedWhole
<1>6. NoOldImage'
  <2>1. ~ Swapping' => cmd.c2 \in {"FINALISE", "SWP_END"}
    BY <1>1 DEF Swapping, C2
  <2>2. HasHdr(Run)' = HasHdr(Run)
    BY <1>1, RunWholeSame
  <2> QED BY <1>5, <2>1, <2>2 DEF NoOldImage
<1>7. AtWork' => /\ cmd' = cmd /\ at' = "cmd" /\ cmd.c2 # "SWP_END"
                 /\ mov2upg_done' = mov2upg_done
  <2>1. CASE cmd.c2 = "SWP_END"
    BY <2>1 DEF WriteLog, JumpRun, AtWork
  <2>2. CASE cmd.c2 # "SWP_END"
    BY <2>2 DEF WriteLog, session
  <2> QED BY <2>1, <2>2
<1>8. WorkGoes(g)'
  <2> SUFFICES ASSUME Moving'
               PROVE  GoesAt(Copied', g, cmd')
    BY DEF WorkGoes
  <2>1. AtWork' /\ (Swapping' \/ log' = <<>>)
    BY DEF Moving
  <2>2. log' # <<>>
    <3>1. LastCmd' # NoCmd
      BY <1>1, CommandIs
    <3> QED BY <3>1, LastIs, LastEmpty
  <2>3. Copied' = flash
    BY <1>1, <1>7, <2>1 DEF Copied
  <2>4. GoesAt(flash, g, cmd)
    BY <1>2, <1>3, <2>1, <2>2 DEF Departs, WorkGoes
  <2> QED BY <1>7, <2>1, <2>3, <2>4
<1>9. GoneOver(g)'
  BY <1>1, <1>7 DEF Departs, GoneOver
<1>10. at' # "log"
  BY DEF WriteLog, JumpRun
<1>11. Newer(m)'
  <2>1. AtWork' => Continue'
    BY <1>1, <1>7 DEF Continue
  <2> QED BY <2>1 DEF Newer
<1> QED BY <1>4, <1>6, <1>8, <1>9, <1>10, <1>11 DEF Departs, FirstCommand

LEMMA CopyGoes ==
  ASSUME NEW m \in Images \cup {None}, Assumed, Base(m), NEW g \in Images \cup {None},
         ~ InPlace, Copy, WorkGoes(g), GoneOver(g)
  PROVE  WorkGoes(g)' /\ GoneOver(g)' /\ FirstCommand' /\ Newer(m)'
<1> USE DEF Base
<1>1. /\ at = "copy" /\ at' = "log" /\ flash' = CopyOf(flash, job)
      /\ DOMAIN flash' = DOMAIN flash
  BY CopyDoes
<1>2. cmd' = cmd /\ log' = log /\ mov2upg_done' = mov2upg_done
  BY DEF Copy
<1>3. Swapping
  BY <1>1 DEF JobInv
<1>4. Swapping' = Swapping /\ Continue' = Continue /\ InPlace' = InPlace
  BY <1>1, <1>2, SameLog
<1>5. Copied' = Copied /\ AtWork
  BY <1>1 DEF Copied, AtWork
<1>6. log # <<>> /\ Continue
  <2>1. LastCmd # NoCmd
    BY <1>3, CommandIs DEF Swapping
  <2> QED BY <1>3, <2>1, LastIs, LastEmpty, Commands
<1>7. WorkGoes(g)'
  <2>1. Moving' => Moving
    BY <1>1, <1>2, <1>3, <1>4, <1>5 DEF Moving
  <2> QED BY <1>2, <1>5, <2>1 DEF WorkGoes
<1>8. GoneOver(g)'
  BY <1>2, <1>4, <1>5 DEF GoneOver
<1> QED BY <1>2, <1>4, <1>6, <1>7, <1>8 DEF FirstCommand, Newer

LEMMA WipeGoes ==
  ASSUME NEW m \in Images \cup {None}, Assumed, Base(m), NEW g, ~ InPlace, WipeLog, Newer(m)
  PROVE  WorkGoes(g)' /\ GoneOver(g)' /\ FirstCommand' /\ Newer(m)'
<1> USE DEF Base
<1>1. /\ at = "wipe" /\ at' = "cmd" /\ flash' = flash /\ cmd' = cmd
      /\ mov2upg_done' = mov2upg_done
  BY DEF WipeLog, session
<1>2. ~ Continue /\ cmd = NoCmd /\ mov2upg_done = FALSE /\ AtWork
  BY <1>1 DEF CmdInv, AtWork
<1>3. ~ Moving'
  BY <1>1, <1>2, CommandIs DEF Moving
<1>4. DepOk(m)'
  <2>1. DepOk(m)
    BY <1>2 DEF Newer
  <2> QED BY <1>1, <2>1 DEF DepOk, HasHdr, Hdr, Run
<1> QED BY <1>1, <1>2, <1>3, <1>4 DEF WorkGoes, GoneOver, FirstCommand, Newer

(* One step: while a swap goes on the image that goes stays the same.      *)
LEMMA StepDeparts ==
  ASSUME NEW m \in Images \cup {None}, NEW g \in Images \cup {None}, Assumed, Base(m),
         [Next]_vars, Arrives(m), Departs(g), Newer(m), NEW w,
         \/ w = m /\ (SwapStart => Continue' \/ ~ AtWork')
         \/ SwapStart /\ ~ Continue' /\ w = Hdr(Upgrade)
  PROVE  \E v \in Images \cup {None} :
            Departs(v)' /\ Newer(w)' /\ (Swapping \/ WriteLog => v = g)
<1>1. CASE InPlace
  <2>1. InPlace'
    <3>1. CASE WriteLog
      BY <1>1, <3>1, WriteDoes
    <3>2. CASE ~ WriteLog
      <4>1. FlashStep
        BY <3>2, FlashSteps
      <4> QED BY <1>1, <4>1, SameLayout DEF FlashStep
    <3> QED BY <3>1, <3>2
  <2>2. Departs(g)' /\ Newer(w)'
    BY <2>1 DEF Departs, LoggedGoes, Swapping, WorkGoes, Moving, GoneOver, NoOldImage,
       FirstCommand, Newer
  <2> QED BY <2>2
<1>2. CASE ~ InPlace /\ WriteLog
  <2>1. Departs(g)' /\ Newer(m)'
    BY <1>2, WriteLogGoes
  <2>2. ~ SwapStart
    BY <1>2 DEF WriteLog, SwapStart
  <2> QED BY <2>1, <2>2
<1>3. CASE ~ InPlace /\ ~ WriteLog
  <2>1. FlashStep
    BY <1>3, FlashSteps
  <2>2. NoOldImage'
    BY <2>1, NoOldKept DEF Departs
  <2>3. LoggedGoes(g)'
    BY <2>1, LoggedGoesKept DEF Departs
  <2>4. ASSUME WorkGoes(g)' /\ GoneOver(g)' /\ FirstCommand' /\ Newer(w)'
        PROVE  \E v \in Images \cup {None} :
                  Departs(v)' /\ Newer(w)' /\ (Swapping \/ WriteLog => v = g)
    BY <2>2, <2>3, <2>4 DEF Departs
  <2>5. WorkGoes(g) /\ GoneOver(g)
    BY DEF Departs
  <2>6. CASE SwapStart
    <3>1. \/ w = m /\ (Continue' \/ ~ AtWork')
          \/ ~ Continue' /\ w = Hdr(Upgrade)
      BY <2>6
    <3>2. WorkGoes(g)' /\ GoneOver(g)' /\ FirstCommand' /\ Newer(w)'
      BY <1>3, <2>6, <3>1, SwapStartGoes DEF Departs
    <3> QED BY <2>4, <3>2
  <2>7. CASE StartMove
    <3>1. w = m
      BY <2>7 DEF StartMove, SwapStart
    <3>2. PICK v \in Images \cup {None} :
             WorkGoes(v)' /\ GoneOver(v)' /\ FirstCommand' /\ Newer(m)' /\ ~ Swapping
      BY <1>3, <2>7, StartMoveGoes DEF Departs, Arrives, Whole3
    <3>3. ~ Swapping'
      BY <2>1, <3>2, SameLayout, CommandIs DEF FlashStep, Swapping
    <3>4. Departs(v)'
      BY <2>2, <3>2, <3>3 DEF Departs, LoggedGoes
    <3> QED BY <1>3, <3>1, <3>2, <3>4
  <2>8. CASE Run2Mov \/ Upg2RunFirst \/ Upg2RunNext \/ Upg2RunSkip \/ Mov2Upg \/ Mov2UpgSkip
    <3>1. w = m
      BY <2>8 DEF Run2Mov, Upg2RunFirst, Upg2RunNext, Upg2RunSkip, Mov2Upg,
         Mov2UpgSkip, SwapStart
    <3> QED BY <1>3, <2>4, <2>5, <2>8, <3>1, Run2MovGoes, Upg2RunGoes, Mov2UpgGoes,
            Mov2UpgSkipGoes
  <2>9. CASE Copy \/ WipeLog \/ Finalise \/ EraseVerify \/ WriteVerify
    <3>1. w = m
      BY <2>9 DEF Copy, WipeLog, Finalise, EraseVerify, WriteVerify, SwapStart
    <3> QED BY <1>3, <2>4, <2>5, <2>9, <3>1, CopyGoes, WipeGoes, EndGoes
  <2>10. CASE \/ Boot \/ AppConfirm \/ AppLeaves \/ UploadStart \/ UploadDone \/ Reset
              \/ UploadSector \/ PowerLoss
    <3>1. ~ AtWork'
      BY <2>10, NoWork
    <3>2. ~ (at' = "log") /\ ~ Moving'
      BY <3>1 DEF AtWork, Moving
    <3> QED BY <2>4, <3>1, <3>2 DEF WorkGoes, GoneOver, FirstCommand, Newer
  <2>11. CASE UNCHANGED vars /\ ~ SwapStart
    <3>1. UNCHANGED <<flash, log, at, cmd, job, mov2upg_done>>
      BY <2>11 DEF vars, session
    <3>2. /\ WorkGoes(g)' = WorkGoes(g) /\ GoneOver(g)' = GoneOver(g)
          /\ FirstCommand' = FirstCommand /\ Newer(m)' = Newer(m)
      BY <3>1 DEF WorkGoes, Moving, GoneOver, FirstCommand, Newer, AtWork, Copied,
         Swapping, LastCmd, Continue, InPlace, DepOk, HasHdr, Hdr, Run
    <3>3. w = m
      BY <2>11
    <3> QED BY <2>4, <2>5, <3>2, <3>3 DEF Departs
  <2> QED BY <1>3, <2>6, <2>7, <2>8, <2>9, <2>10, <2>11 DEF Next, Step, Environment
<1> QED BY <1>1, <1>2, <1>3

-----------------------------------------------------------------------------
(* The abstract variables.                                                 *)
LEMMA WholeIs ==
  ASSUME NEW S, S \subseteq Images
  PROVE  /\ TheImage(S) \in Images \cup {None}
         /\ S = {} => TheImage(S) = None
         /\ \A m : S = {m} => TheImage(S) = m
  BY DEF TheImage

(* While a swap goes on the two images are known by their sectors.         *)
LEMMA SwappingIs ==
  ASSUME NEW m \in Images \cup {None}, NEW g \in Images \cup {None},
         TypeOK, LogInv, ComeInv(m), LoggedArrived(m), LoggedGoes(g), Swapping
  PROVE  Installed = m /\ Spare = g /\ m \in Images
<1>1. /\ Continue /\ LastCmd \in Command /\ LastCmd.c2 \in {"RUN2MOV", "UPG2RUN", "MOV2UPG"}
      /\ LastCmd.c3 \in Int /\ 0 <= LastCmd.c3 /\ ~ InPlace /\ Upgrade = N + 1
      /\ N \in Int /\ 1 <= N
  BY Commands, TypeFlash, Constants DEF Swapping
<1>2. /\ m \in Images /\ Comes(flash, N + 1, m, LastCmd) /\ Arrived(flash, m, LastCmd)
      /\ GoesAt(flash, g, LastCmd)
  BY <1>1 DEF ComeInv, Comes, LoggedArrived, LoggedGoes
<1>3. \A i : InRun(i) <=> InRunBy(LastCmd, i)
  BY <1>1 DEF InRun, InRunBy
<1>4. \A w \in Images : w.size \in Int /\ 1 <= w.size /\ w.size <= N /\ 0 \in 0..w.size - 1
  BY Constants
<1>5. Installed = m
  <2> DEFINE S == {w \in Images : \A i \in 0..w.size - 1 : Coming(w, i)}
  <2>1. m \in S
    <3>1. ASSUME NEW i \in 0..m.size - 1
          PROVE  Coming(m, i)
      <4>1. CASE InRun(i)
        BY <1>2, <1>3, <4>1 DEF Arrived, Coming
      <4>2. CASE ~ InRun(i)
        BY <1>1, <1>2, <1>3, <4>2 DEF Comes, Coming
      <4> QED BY <4>1, <4>2
    <3> QED BY <1>2, <3>1
  <2>2. ASSUME NEW w \in S
        PROVE  w = m
    <3>1. Coming(w, 0) /\ Coming(m, 0)
      BY <1>2, <1>4, <2>1
    <3>2. \E s, fm, fn : flash[s] = Sec(w, 0, fm) /\ flash[s] = Sec(m, 0, fn)
      BY <3>1 DEF Coming
    <3> QED BY <3>2 DEF Sec
  <2>3. S = {m}
    BY <2>1, <2>2
  <2>4. TheImage(S) = m
    <3> HIDE DEF S
    <3>1. S \subseteq Images
      BY DEF S
    <3> QED BY <2>3, <3>1, WholeIs
  <2> QED BY <1>1, <2>4 DEF Installed, Whole
<1>6. \A w \in Images, i \in 0..N - 1 :
        Going(w, i) <=> flash[Place(LastCmd, i)] = Sec(w, i, FormAt(w, LastCmd, i))
  <2>1. TAKE w \in Images, i \in 0..N - 1
  <2>2. CASE LastCmd.c2 = "RUN2MOV"
    <3>1. ~ InUpgrade(i) /\ (InMove(i) <=> i > LastCmd.c3) /\ ~ UpBy(LastCmd, i)
      BY <2>2 DEF InUpgrade, InMove, UpBy
    <3>2. Place(LastCmd, i) = (IF i > LastCmd.c3 THEN Move + i ELSE Run + i)
      BY <2>2, <3>1 DEF Place, MovBy
    <3> QED BY <3>1, <3>2 DEF Going, FormAt
  <2>3. CASE LastCmd.c2 \in {"UPG2RUN", "MOV2UPG"}
    <3>1. /\ InUpgrade(i) <=> i < LastCmd.c3
          /\ InMove(i) <=> i >= LastCmd.c3
          /\ UpBy(LastCmd, i) <=> i < LastCmd.c3
      BY <1>1, <2>3 DEF InUpgrade, InMove, UpBy
    <3>2. Place(LastCmd, i) = (IF i < LastCmd.c3 THEN Upgrade + i ELSE Move + i)
      BY <1>1, <2>3, <3>1 DEF Place, MovBy
    <3>3. i < LastCmd.c3 \/ i >= LastCmd.c3
      BY <1>1
    <3> QED BY <1>1, <3>1, <3>2, <3>3 DEF Going, FormAt
  <2> QED BY <1>1, <2>2, <2>3
<1>7. Spare = g
  <2> DEFINE S == {w \in Images : \A i \in 0..w.size - 1 : Going(w, i)}
  <2>1. \A w \in Images : \A i \in 0..w.size - 1 : i \in 0..N - 1
    BY <1>1, <1>4
  <2>2. ASSUME NEW w \in S
        PROVE  flash[Place(LastCmd, 0)] = Sec(w, 0, FormAt(w, LastCmd, 0))
    BY <1>4, <1>6, <2>1
  <2>3. CASE g = None
    <3>1. ~ Header(flash, Place(LastCmd, 0))
      BY <1>2, <2>3 DEF GoesAt
    <3>2. S = {}
      <4>1. ASSUME NEW w \in S
            PROVE  FALSE
        <5>1. flash[Place(LastCmd, 0)] = Sec(w, 0, FormAt(w, LastCmd, 0))
          BY <2>2
        <5> HIDE DEF S
        <5>2. Header(flash, Place(LastCmd, 0))
          BY <5>1 DEF Header, Sec
        <5> QED BY <3>1, <5>2
      <4> HIDE DEF S
      <4> QED BY <4>1
    <3>3. TheImage(S) = None
      BY <3>2, WholeIs
    <3> QED BY <1>1, <2>3, <3>3 DEF Spare, Whole
  <2>4. CASE g # None
    <3>1. g \in Images /\ \A i \in 0..g.size - 1 :
             flash[Place(LastCmd, i)] = Sec(g, i, FormAt(g, LastCmd, i))
      BY <1>2, <2>4 DEF GoesAt
    <3>2. g \in S
      BY <1>6, <2>1, <3>1
    <3>3. ASSUME NEW w \in S
          PROVE  w = g
      <4>1. Sec(w, 0, FormAt(w, LastCmd, 0)) = Sec(g, 0, FormAt(g, LastCmd, 0))
        BY <1>4, <2>2, <3>1
      <4> QED BY <4>1 DEF Sec
    <3>4. S = {g} /\ S \subseteq Images
      BY <3>2, <3>3
    <3>5. TheImage(S) = g
      <4> HIDE DEF S
      <4> QED BY <3>4, WholeIs
    <3> QED BY <1>1, <3>5 DEF Spare, Whole
  <2> QED BY <2>3, <2>4
<1> QED BY <1>2, <1>5, <1>7

(* Between swaps the image in the run slot is whole.                       *)
LEMMA StandingIs ==
  ASSUME TypeOK, StandsWhole, ~ InPlace, ~ Swapping
  PROVE  Installed = (IF HasHdr(Run) THEN Hdr(Run) ELSE None)
         /\ Installed \in Images \cup {None}
<1> DEFINE S == {w \in Images : \A i \in 0..w.size - 1 : InRunSlot(w, i)}
<1>1. Installed = TheImage(S)
  BY DEF Installed, Whole
<1>2. \A w \in S : flash[Run] = Sec(w, 0, RunForm(w))
  <2>1. TAKE w \in S
  <2>2. 0 \in 0..w.size - 1 /\ Run + 0 = Run
    BY Constants DEF Run
  <2> QED BY <2>2 DEF InRunSlot
<1>3. CASE HasHdr(Run)
  <2>1. PICK g \in {Hdr(Run)} : TRUE
    OBVIOUS
  <2>2. g \in Images
    BY <1>3, <2>1, TypeFlash, HeaderIs
  <2>3. g \in S
    BY <1>3, <2>1, <2>2 DEF StandsWhole, RunWhole, Holds, InRunSlot
  <2>4. ASSUME NEW w \in S
        PROVE  w = g
    <3>1. flash[Run] = Sec(w, 0, RunForm(w))
      BY <1>2
    <3> HIDE DEF S
    <3>2. flash[Run].of = w
      BY <3>1 DEF Sec
    <3> QED BY <2>1, <3>2 DEF Hdr
  <2>5. S = {g} /\ S \subseteq Images
    BY <2>3, <2>4
  <2>6. TheImage(S) = g
    <3> HIDE DEF S
    <3> QED BY <2>5, WholeIs
  <2> QED BY <1>1, <1>3, <2>1, <2>2, <2>6
<1>4. CASE ~ HasHdr(Run)
  <2>1. S = {}
    <3>1. ASSUME NEW w \in S
          PROVE  FALSE
      <4>1. flash[Run] = Sec(w, 0, RunForm(w))
        BY <1>2
      <4> HIDE DEF S
      <4>2. flash[Run].kind = "image" /\ flash[Run].n = 0
        BY <4>1 DEF Sec
      <4> QED BY <1>4, <4>2 DEF HasHdr
    <3> HIDE DEF S
    <3> QED BY <3>1
  <2>2. TheImage(S) = None
    BY <2>1, WholeIs
  <2> QED BY <1>1, <1>4, <2>2
<1> QED BY <1>3, <1>4

LEMMA SpareIs ==
  ASSUME ~ InPlace, ~ Swapping
  PROVE  Spare = TheImage({w \in Images : \A i \in 0..w.size - 1 : InUpgradeSlot(w, i)})
         /\ Spare \in Images \cup {None}
<1>1. Spare = TheImage({w \in Images : \A i \in 0..w.size - 1 : InUpgradeSlot(w, i)})
  BY DEF Spare, Whole
<1> QED BY <1>1, WholeIs

(* What a state tells of the two images.                                   *)
Known(m, g) ==
  /\ InPlace => Installed = None /\ Spare = None
  /\ Swapping => Installed = m /\ Spare = g /\ m \in Images
  /\ ~ InPlace /\ ~ Swapping => Installed = (IF HasHdr(Run) THEN Hdr(Run) ELSE None)
  /\ Installed \in Images \cup {None} /\ Spare \in Images \cup {None}

AllKnown == \A m \in Images \cup {None}, g \in Images \cup {None} :
              Base(m) /\ Arrives(m) /\ Departs(g) => Known(m, g)

(* The invariant determines both images of the refinement.                 *)
LEMMA KnownNow == AllKnown
<1> SUFFICES ASSUME NEW m \in Images \cup {None}, NEW g \in Images \cup {None},
                    Base(m), Arrives(m), Departs(g)
             PROVE  Known(m, g)
  BY DEF AllKnown
<1> USE DEF Base
<1>1. CASE InPlace
  BY <1>1 DEF Known, Installed, Spare, Swapping
<1>2. CASE Swapping
  <2>1. Installed = m /\ Spare = g /\ m \in Images
    BY <1>2, SwappingIs DEF Arrives, Departs
  <2> QED BY <1>2, <2>1 DEF Known, Swapping
<1>3. CASE ~ InPlace /\ ~ Swapping
  <2>1. Installed = (IF HasHdr(Run) THEN Hdr(Run) ELSE None)
        /\ Installed \in Images \cup {None}
    BY <1>3, StandingIs DEF Arrives, Whole3
  <2>2. Spare \in Images \cup {None}
    BY <1>3, SpareIs
  <2> QED BY <1>3, <2>1, <2>2 DEF Known
<1> QED BY <1>1, <1>2, <1>3

(* The same of the next state.                                             *)
LEMMA KnownNext == AllKnown'
<1>1. AllKnown
  BY KnownNow
<1> QED BY <1>1, PTL

(* The image in the upgrade slot when no swap goes on.                     *)
LEMMA SpareWhole ==
  ASSUME NEW f, NEW u, NEW g \in Images \cup {None},
         g = None => ~ Header(f, u + 0),
         g # None => \A i \in 0..g.size - 1 : f[u + i] = Sec(g, i, "sent")
  PROVE  TheImage({w \in Images : \A i \in 0..w.size - 1 : f[u + i] = Sec(w, i, "sent")}) = g
<1> DEFINE S == {w \in Images : \A i \in 0..w.size - 1 : f[u + i] = Sec(w, i, "sent")}
<1>1. \A w \in Images : 0 \in 0..w.size - 1
  BY Constants
<1>2. ASSUME NEW w \in S
      PROVE  f[u + 0] = Sec(w, 0, "sent")
  BY <1>1
<1>3. CASE g = None
  <2>1. ASSUME NEW w \in S
        PROVE  FALSE
    <3>1. f[u + 0] = Sec(w, 0, "sent")
      BY <1>2
    <3> HIDE DEF S
    <3> QED BY <1>3, <3>1 DEF Header, Sec
  <2>2. S = {}
    <3> HIDE DEF S
    <3> QED BY <2>1
  <2> QED BY <1>3, <2>2, WholeIs
<1>4. CASE g # None
  <2>1. g \in S
    BY <1>4
  <2>2. ASSUME NEW w \in S
        PROVE  w = g
    <3>1. f[u + 0] = Sec(w, 0, "sent") /\ f[u + 0] = Sec(g, 0, "sent")
      BY <1>2, <2>1
    <3> HIDE DEF S
    <3> QED BY <3>1 DEF Sec
  <2>3. S = {g} /\ S \subseteq Images
    BY <2>1, <2>2
  <2>4. TheImage(S) = g
    <3> HIDE DEF S
    <3> QED BY <2>3, WholeIs
  <2> QED BY <2>4
<1> QED BY <1>3, <1>4

(* The last command of a swap: the images have changed places.             *)
LEMMA EndImages ==
  ASSUME NEW m \in Images \cup {None}, NEW g \in Images \cup {None}, Assumed, Base(m),
         Arrives(m), Departs(g), WriteLog, Swapping, ~ Swapping', Known(m, g)'
  PROVE  Installed' = m /\ Spare' = g
<1> USE DEF Base
<1>1. /\ at = "log" /\ AtWork /\ flash' = flash /\ ~ InPlace /\ InPlace' = InPlace
      /\ LastCmd' = cmd /\ cmd.c2 # "EMPTY" /\ cmd.c2 \in C2 /\ cmd \in Command
      /\ LastCmd.c2 = "FINALISE" <=> cmd.c2 = "SWP_END"
      /\ Upgrade' = N + 1
  BY WriteDoes, Commands, TypeFlash DEF Swapping
<1>2. cmd.c2 = "FINALISE"
  BY <1>1 DEF Swapping, C2
<1>3. Copied = flash /\ Moving
  BY <1>1 DEF Copied, Moving
<1>4. HasHdr(Run) /\ Hdr(Run) = m
  <2>1. Arrived(flash, m, cmd) /\ Comes(flash, Upgrade, m, cmd)
    BY <1>1, <1>3 DEF Arrives, WorkArrived, ComeInv
  <2> QED BY <1>2, <2>1, ArrivedWhole
<1>5. Installed' = m
  <2>1. HasHdr(Run)' /\ Hdr(Run)' = m
    BY <1>1, <1>4, RunWholeSame
  <2> QED BY <1>1, <2>1 DEF Known
<1>6. GoesAt(flash, g, cmd)
  BY <1>3 DEF Departs, WorkGoes
<1>7. \A i \in 0..N - 1 : Place(cmd, i) = N + 1 + i /\ UpBy(cmd, i)
  BY <1>1, <1>2, PlaceIs DEF UpBy
<1>8. 0 \in 0..N - 1 /\ \A w \in Images : \A i \in 0..w.size - 1 : i \in 0..N - 1
  BY Constants
<1>9. /\ g = None => ~ Header(flash, (N + 1) + 0)
      /\ g # None => \A i \in 0..g.size - 1 : flash[(N + 1) + i] = Sec(g, i, "sent")
  BY <1>6, <1>7, <1>8 DEF GoesAt, FormAt
<1>10. TheImage({w \in Images : \A i \in 0..w.size - 1 : flash[(N + 1) + i] = Sec(w, i, "sent")}) = g
  BY <1>9, SpareWhole
<1>11. Spare' = g
  BY <1>1, <1>10 DEF Spare, Whole, InUpgradeSlot
<1> QED BY <1>5, <1>11

(* The first command of a swap: from now on they have.                     *)
LEMMA FirstImages ==
  ASSUME NEW m \in Images \cup {None}, NEW g \in Images \cup {None}, Assumed, Base(m),
         Arrives(m), Departs(g), Newer(m), WriteLog, ~ Swapping, Swapping',
         Known(m, g), Known(m, g)'
  PROVE  Device!Swap
<1> USE DEF Base
<1>1. /\ at = "log" /\ AtWork /\ flash' = flash /\ InPlace' = InPlace /\ ~ InPlace
      /\ LastCmd' = cmd /\ cmd.c2 \in {"RUN2MOV", "UPG2RUN", "MOV2UPG"}
      /\ cmd.c2 \in C2 /\ cmd \in Command /\ cmd.c3 \in Int /\ 0 <= cmd.c3
      /\ LastCmd.c2 = "FINALISE" <=> cmd.c2 = "SWP_END"
      /\ Upgrade = N + 1 /\ N \in Int /\ 1 <= N
  <2>1. /\ at = "log" /\ AtWork /\ flash' = flash /\ InPlace' = InPlace
        /\ InPlace => LastCmd' = NoCmd
        /\ ~ InPlace => LastCmd' = cmd /\ (LastCmd.c2 = "FINALISE" <=> cmd.c2 = "SWP_END")
    BY WriteDoes
  <2>2. ~ InPlace
    BY <2>1 DEF Swapping
  <2>3. cmd.c2 \in {"RUN2MOV", "UPG2RUN", "MOV2UPG"}
    BY <2>1, <2>2 DEF Swapping
  <2> QED BY <2>1, <2>2, <2>3, Commands, TypeFlash, Constants
<1>2. ~ Continue /\ log = <<>>
  <2>1. Continue \/ log = <<>>
    BY <1>1 DEF CmdInv
  <2>2. ~ Continue
    <3>1. Continue => LastCmd.c2 = "FINALISE"
      BY <1>1, Commands DEF Swapping, C2
    <3> QED BY <1>1, <3>1
  <2> QED BY <2>1, <2>2
<1>3. \/ cmd.c2 = "RUN2MOV"
      \/ cmd.c2 = "UPG2RUN" /\ cmd.c3 = 0 /\ ~ HasHdr(Run)
  BY <1>1, <1>2 DEF Departs, FirstCommand
<1>4. Copied = flash /\ Moving
  BY <1>1, <1>2 DEF Copied, Moving
<1>5. m \in Images /\ Installed' = m /\ Spare' = g
  BY DEF Known
<1>6. Comes(flash, Upgrade, m, cmd) /\ GoesAt(flash, g, cmd)
  BY <1>1, <1>4 DEF ComeInv, Departs, WorkGoes
<1>7. m # None /\ m.size \in Int /\ 1 <= m.size /\ m.size <= N
  BY <1>5, Constants
<1>8. Spare = m
  <2>1. \A i \in 0..m.size - 1 : flash[(N + 1) + i] = Sec(m, i, "sent")
    <3>1. \A i \in 0..m.size - 1 : ~ InRunBy(cmd, i)
      BY <1>1, <1>3, <1>7 DEF InRunBy
    <3> QED BY <1>1, <1>6, <3>1 DEF Comes
  <2>2. /\ m = None => ~ Header(flash, (N + 1) + 0)
        /\ m # None => \A i \in 0..m.size - 1 : flash[(N + 1) + i] = Sec(m, i, "sent")
    BY <1>7, <2>1
  <2>3. TheImage({w \in Images : \A i \in 0..w.size - 1 : flash[(N + 1) + i] = Sec(w, i, "sent")}) = m
    BY <2>2, SpareWhole
  <2> QED BY <1>1, <2>3, SpareIs DEF InUpgradeSlot
<1>9. Installed = g
  <2>1. Installed = (IF HasHdr(Run) THEN Hdr(Run) ELSE None)
    BY <1>1 DEF Known
  <2>2. 0 \in 0..N - 1
    BY <1>1
  <2>3. CASE cmd.c2 = "RUN2MOV"
    <3>1. Place(cmd, 0) = Run
      BY <1>1, <2>2, <2>3, PlaceIs DEF Run
    <3>2. g \in Images /\ \A i \in 0..g.size - 1 : flash[Place(cmd, i)] = Sec(g, i, FormAt(g, cmd, i))
      BY <1>6, <2>3 DEF GoesAt
    <3>3. 0 \in 0..g.size - 1
      BY <3>2, Constants
    <3>4. flash[Run] = Sec(g, 0, FormAt(g, cmd, 0))
      BY <3>1, <3>2, <3>3
    <3> QED BY <2>1, <3>2, <3>4, HeaderAt
  <2>4. CASE cmd.c2 = "UPG2RUN" /\ cmd.c3 = 0 /\ ~ HasHdr(Run)
    <3>1. Place(cmd, 0) = Move
      BY <1>1, <2>2, <2>4, PlaceIs DEF Move
    <3>2. ~ HasHdr(Move)
      BY <1>1, <2>4 DEF Departs, NoOldImage
    <3>3. g = None
      <4>1. ASSUME g # None
            PROVE  FALSE
        <5>1. g \in Images /\ 0 \in 0..g.size - 1
          BY <4>1, Constants
        <5>2. PICK fm : flash[Move] = Sec(g, 0, fm)
          BY <1>6, <3>1, <4>1, <5>1 DEF GoesAt
        <5> QED BY <3>2, <5>1, <5>2, HeaderAt
      <4> QED BY <4>1
    <3> QED BY <2>1, <2>4, <3>3
  <2> QED BY <1>3, <2>3, <2>4
<1>10. Installed # None => ~ Device!Lower(Spare, Installed)
  <2> HAVE Installed # None
  <2>1. HasHdr(Run) /\ Installed = Hdr(Run)
    BY <1>1 DEF Known
  <2>2. DepOk(m)
    BY <1>1, <1>2 DEF Newer
  <2>3. Installed.major <= m.major /\ Installed.minor <= m.minor
    BY <2>1, <2>2 DEF DepOk
  <2>4. Installed \in Images
    BY DEF Known
  <2>5. PICK o \in Images : o = Installed
    BY <2>4
  <2>6. /\ m.major \in Int /\ m.minor \in Int /\ o.major \in Int /\ o.minor \in Int
    BY <1>5, ImagesAssumption
  <2>7. ~ Device!Lower(m, o)
    BY <2>3, <2>5, <2>6 DEF Device!Lower
  <2> QED BY <1>8, <2>5, <2>7
<1> QED BY <1>5, <1>7, <1>8, <1>9, <1>10 DEF Device!Swap

(* Every step, as the device in ImageSwap sees it.                         *)
LEMMA StepImages ==
  ASSUME NEW m \in Images \cup {None}, NEW g \in Images \cup {None}, Assumed, Base(m),
         [Next]_vars, Arrives(m), Departs(g), Newer(m),
         NEW w \in Images \cup {None}, NEW v \in Images \cup {None},
         Base(w)', Arrives(w)', Departs(v)',
         w = m \/ (SwapStart /\ ~ Continue'), Swapping \/ WriteLog => v = g
  PROVE  /\ Swapping => Spare' = Spare
         /\ [Device!Next]_(Device!vars)
<1>1. Known(m, g) /\ Known(w, v)'
  <2>1. Known(m, g)
    BY KnownNow DEF AllKnown
  <2>2. AllKnown'
    BY KnownNext
  <2>3. Known(w, v)'
    BY <2>2 DEF AllKnown
  <2> QED BY <2>1, <2>3
<1>2. ~ WriteLog => FlashStep
  BY FlashSteps
<1>3. InPlace' = InPlace
  <2>1. WriteLog => InPlace' = InPlace
    BY WriteDoes
  <2>2. FlashStep => InPlace' = InPlace
    BY SameLayout DEF FlashStep
  <2> QED BY <1>2, <2>1, <2>2
<1>4. Swapping' => Continue'
  BY DEF Swapping, Continue
<1>5. WriteLog => ~ SwapStart
  BY DEF WriteLog, SwapStart
<1>6. Swapping => ~ InPlace
  BY DEF Swapping
<1>7. Swapping' => ~ InPlace
  BY <1>3 DEF Swapping
<1>8. CASE InPlace
  <2>1. Installed' = Installed /\ Spare' = Spare
    BY <1>1, <1>3, <1>8 DEF Known
  <2> QED BY <2>1 DEF Device!vars
<1>9. CASE Swapping /\ Swapping'
  <2>1. w = m /\ v = g
    BY <1>4, <1>9
  <2>2. Installed' = Installed /\ Spare' = Spare
    BY <1>1, <1>9, <2>1 DEF Known
  <2> QED BY <2>2 DEF Device!vars
<1>10. CASE Swapping /\ ~ Swapping'
  <2>1. WriteLog
    <3>1. FlashStep => LastCmd' = LastCmd
      BY <1>10 DEF FlashStep
    <3> QED BY <1>2, <1>3, <1>10, <3>1 DEF Swapping
  <2>2. w = m /\ v = g
    BY <1>5, <1>10, <2>1
  <2>3. Known(m, g)'
    BY <1>1, <2>2
  <2>4. Installed' = m /\ Spare' = g
    BY <1>10, <2>1, <2>3, EndImages
  <2>5. Installed' = Installed /\ Spare' = Spare
    BY <1>1, <1>10, <2>4 DEF Known
  <2> QED BY <2>5 DEF Device!vars
<1>11. CASE ~ Swapping /\ Swapping'
  <2>1. WriteLog
    <3>1. FlashStep => LastCmd' \in {LastCmd, NoCmd}
      BY DEF FlashStep
    <3> QED BY <1>2, <1>3, <1>11, <3>1, CommandIs DEF Swapping
  <2>2. w = m /\ v = g
    BY <1>5, <2>1
  <2>3. Known(m, g)'
    BY <1>1, <2>2
  <2>4. Device!Swap
    BY <1>1, <1>11, <2>1, <2>3, FirstImages
  <2> QED BY <1>11, <2>4 DEF Device!Next
<1>12. CASE ~ InPlace /\ ~ Swapping /\ ~ Swapping'
  <2>1. flash'[Run] = flash[Run]
    <3>1. CASE WriteLog
      BY <3>1, WriteDoes
    <3>2. CASE ~ WriteLog
      <4>1. FlashStep
        BY <1>2, <3>2
      <4>2. CASE Touched
        <5>1. PICK s \in DOMAIN flash : Exposed(s) /\ \E x : Updated(flash, flash', s, x)
          BY <4>2 DEF Touched
        <5>2. PICK x : Updated(flash, flash', s, x)
          BY <5>1
        <5>3. s = Verify \/ s > N
          BY <1>12, <5>1 DEF Exposed
        <5>4. Run = 0 /\ Verify = N /\ N \in Int /\ 1 <= N /\ Run \in DOMAIN flash
          BY TypeFlash, Constants DEF Base
        <5> QED BY <5>2, <5>3, <5>4 DEF Updated
      <4> QED BY <4>1, <4>2 DEF FlashStep
    <3> QED BY <3>1, <3>2
  <2>2. HasHdr(Run)' = HasHdr(Run) /\ Hdr(Run)' = Hdr(Run)
    BY <2>1 DEF HasHdr, Hdr, Run
  <2>3. Installed' = Installed
    BY <1>1, <1>3, <1>12, <2>2 DEF Known
  <2>4. Spare' \in Images \cup {None}
    BY <1>1 DEF Known
  <2>5. Device!Receive
    BY <2>3, <2>4 DEF Device!Receive
  <2> QED BY <1>12, <2>5 DEF Device!Next
<1> QED BY <1>6, <1>7, <1>8, <1>9, <1>10, <1>11, <1>12

-----------------------------------------------------------------------------
(* When the device is delivered the upgrade slot is blank.                 *)
LEMMA InitImages ==
  ASSUME Assumed, Init
  PROVE  GInv /\ Device!Init
<1>1. Base(None) /\ Arrives(None)
  <2>1. None \in Images \cup {None}
    OBVIOUS
  <2> QED BY <2>1, InitBase, InitArrives
<1>2. at = "off" /\ log = <<>> /\ cmd = NoCmd
  BY DEF Init
<1>3. ~ Continue /\ ~ AtWork /\ ~ Swapping
  <2>1. LastCmd = NoCmd /\ NoCmd.c2 = "EMPTY"
    BY <1>2, LastIs, LastEmpty, CommandIs
  <2> QED BY <1>2, <2>1 DEF Continue, AtWork, Swapping
<1>4. PICK w \in Factory \cup {None}, in_pl \in Layouts :
        flash = [s \in Address(in_pl) |->
                   IF w # None /\ s < w.size THEN Sec(w, s, RunForm(w))
                   ELSE IF w # None /\ s = Verify
                   THEN Crc([i \in 0..w.size - 1 |-> Sec(w, i, RunForm(w))])
                   ELSE Blank]
  BY DEF Init
<1>5. /\ w # None => w.size \in Int /\ 1 <= w.size /\ w.size <= N
      /\ DOMAIN flash = Address(in_pl) /\ N \in Int /\ 1 <= N
      /\ Run = 0 /\ Move = 1 /\ Verify = N
      /\ Run \in DOMAIN flash /\ Move \in DOMAIN flash
  BY <1>1, <1>4, ImagesAssumption, Constants, TypeFlash DEF Base
<1>6. ~ HasHdr(Run) => ~ HasHdr(Move)
  <2>1. w # None => flash[Run] = Sec(w, Run, RunForm(w))
    BY <1>4, <1>5
  <2>2. w # None => HasHdr(Run)
    BY <1>5, <2>1 DEF HasHdr, Sec
  <2>3. w = None => flash[Move] = Blank
    BY <1>4, <1>5
  <2> QED BY <2>2, <2>3 DEF HasHdr, Blank
<1>7. Departs(None) /\ Newer(None)
  BY <1>2, <1>3, <1>6 DEF Departs, LoggedGoes, WorkGoes, Moving, GoneOver, NoOldImage,
     FirstCommand, Newer
<1>8. GInv
  <2>1. None \in Images \cup {None}
    OBVIOUS
  <2> QED BY <1>1, <1>7, <2>1 DEF GInv
<1>9. Known(None, None)
  BY <1>1, <1>7, KnownNow DEF AllKnown
<1>10. Spare = None
  <2>1. CASE InPlace
    BY <1>9, <2>1 DEF Known
  <2>2. CASE ~ InPlace
    <3>1. N + 1 \in DOMAIN flash
      BY <2>2 DEF InPlace
    <3>2. flash[N + 1] = Blank
      BY <1>4, <1>5, <3>1
    <3>3. ~ Header(flash, (N + 1) + 0)
      BY <1>5, <3>2 DEF Header, Blank
    <3>4. /\ None = None => ~ Header(flash, (N + 1) + 0)
          /\ None # None => \A i \in 0..None.size - 1 : flash[(N + 1) + i] = Sec(None, i, "sent")
      BY <3>3
    <3>5. TheImage({x \in Images : \A i \in 0..x.size - 1 : flash[(N + 1) + i] = Sec(x, i, "sent")}) = None
      BY <3>4, SpareWhole
    <3>6. Upgrade = N + 1
      BY <2>2 DEF Upgrade
    <3> QED BY <1>3, <2>2, <3>5, <3>6, SpareIs DEF InUpgradeSlot
  <2> QED BY <2>1, <2>2
<1>11. Installed \in Images \cup {None}
  BY <1>9 DEF Known
<1> QED BY <1>8, <1>10, <1>11 DEF Device!Init

ImagesNext == (Swapping => Spare' = Spare) /\ [Device!Next]_(Device!vars)

(* A step keeps GInv, and is a step or a stutter of ImageSwap.             *)
LEMMA GStep ==
  ASSUME Assumed, GInv, [Next]_vars, [PowerLoss => Restartable]_vars
  PROVE  GInv' /\ ImagesNext
<1>1. PICK m \in Images \cup {None}, g \in Images \cup {None} :
        Base(m) /\ Arrives(m) /\ Departs(g) /\ Newer(m)
  BY DEF GInv
<1>2. PICK w \in Images \cup {None} :
        /\ Base(w)' /\ Arrives(w)'
        /\ \/ w = m /\ (SwapStart => Continue' \/ ~ AtWork')
           \/ SwapStart /\ ~ Continue' /\ w = Hdr(Upgrade)
  BY <1>1, StepArrives
<1>3. PICK v \in Images \cup {None} :
        Departs(v)' /\ Newer(w)' /\ (Swapping \/ WriteLog => v = g)
  BY <1>1, <1>2, StepDeparts
<1>4. w = m \/ (SwapStart /\ ~ Continue')
  BY <1>2
<1>5. ImagesNext
  BY <1>1, <1>2, <1>3, <1>4, StepImages DEF ImagesNext
<1>6. GInv'
  BY <1>2, <1>3 DEF GInv
<1> QED BY <1>5, <1>6

(* GInv holds in every reachable state, and every step is one of ImageSwap *)
(* and leaves the image that goes alone while a swap goes on.              *)
THEOREM ImagesInvariance == Assumed /\ Spec /\ Careful => []GInv /\ [][ImagesNext]_vars
<1> SUFFICES ASSUME Assumed
             PROVE  Spec /\ Careful => []GInv /\ [][ImagesNext]_vars
  OBVIOUS
<1>1. Init => GInv
  BY InitImages
<1>2. GInv /\ [Next]_vars /\ [PowerLoss => Restartable]_vars => GInv' /\ [ImagesNext]_vars
  BY GStep
<1> QED BY <1>1, <1>2, PTL DEF Spec, Careful

(* While a swap goes on, the image that goes is in the flash, whole,       *)
(* sector by sector: no step of zb_img_swap and no power failure but the   *)
(* excluded ones loses it.                                                 *)
THEOREM KeepsOldImage == Assumed /\ Spec /\ Careful => OldImageKept
<1>1. [ImagesNext]_vars => [Swapping => Spare' = Spare]_vars
  BY DEF ImagesNext
<1> QED BY <1>1, ImagesInvariance, PTL DEF OldImageKept

(* The refinement: to an observer of the two slots the sectors are         *)
(* exchanged at once, when the first command of a swap reaches the log.    *)
THEOREM SwapsAtOnce == Assumed /\ Spec /\ Careful => AtomicSwap
<1> SUFFICES ASSUME Assumed
             PROVE  Spec /\ Careful => AtomicSwap
  OBVIOUS
<1>1. Init => Device!Init
  BY InitImages
<1>2. [ImagesNext]_vars => [Device!Next]_(Device!vars)
  <2>1. ImagesNext => [Device!Next]_(Device!vars)
    BY DEF ImagesNext
  <2>2. UNCHANGED vars => UNCHANGED Device!vars
    BY DEF vars, Device!vars, Installed, Spare, Whole, Coming, Going, InRunSlot,
       InUpgradeSlot, InRun, InUpgrade, InMove, Swapping, LastCmd, InPlace, Upgrade, Run,
       Move
  <2> QED BY <2>1, <2>2
<1> QED BY <1>1, <1>2, ImagesInvariance, PTL DEF Spec, AtomicSwap, Device!Spec

-----------------------------------------------------------------------------
(* Dropping back.  Here dependencies may fail, the erase of the log may be *)
(* torn and the log may be full; PlainImages is the hypothesis: a slot of  *)
(* plain images, with one sector less than cmd3 could count.               *)
PlainImages == N <= 254 /\ \A m \in Images : ~ m.enc

(* What a drop back needs to know of a sector, of a command of the log,    *)
(* and of the image being received.                                        *)
Cell(x) == x.kind = "image" => x \in ImageSec

Cells(f) == /\ DOMAIN f = 0..N \/ DOMAIN f = 0..2 * N
            /\ \A s \in DOMAIN f : Cell(f[s])

LoggedCmd == {c \in Command : c.c2 = "RUN2MOV" => c.c3 < N}

Received == [of: Images, n: Nat]

DropTyped ==
  /\ Cells(flash)
  /\ log \in Seq({Torn} \cup LoggedCmd)
  /\ cmd \in LoggedCmd
  /\ upgr_slt \in {Move, Upgrade}
  /\ at = "copy" => job.from \in DOMAIN flash
  /\ dfu \in {None} \cup Received
  /\ at \notin {"unsign", "upload"} => dfu = None
  /\ at = "upload" => dfu \in Received

(* The old image is in the run slot as far as it goes.                     *)
BackAgain == upg2run_done \/ cmd.c2 \in {"FINALISE", "SWP_END"}

(* The command of a drop back, and the copy it has prepared.               *)
DropCommand ==
  /\ cmd.c2 \in {"UPG2RUN", "FINALISE", "SWP_END"}
  /\ at = "copy" => cmd.c2 = "UPG2RUN"
  /\ at = "cmd" => cmd.c2 # "SWP_END"
  /\ cmd.c2 = "UPG2RUN" /\ cmd.c3 > 0 => upgr_ok
  /\ cmd.c3 <= N + 1
  /\ ~ BackAgain => cmd.c3 <= N
  /\ BackAgain => cmd.c3 > 0 /\ (Header(flash, Run) => cmd.c3 >= Hdr(Run).size)

DropCopy ==
  at = "copy" => /\ ~ upg2run_done /\ cmd.c3 > 0
                 /\ job.from = Move + (cmd.c3 - 1) /\ job.to = Run + (cmd.c3 - 1)
                 /\ cmd.c3 = 1 \/ Header(flash, Run) => job.key = NoCrypt

DropInv ==
  DroppingBack =>
    /\ upgr_slt = Move /\ dfu = None
    /\ \/ at \in {"cmd", "copy", "log"}
       \/ at \in {"unsign", "sign"} /\ cmd.c2 = "SWP_END"
    /\ DropCommand
    /\ DropCopy

(* The images that can be put together when k sectors are back.            *)
Held(f, k) ==
  {m \in Images : \A i \in 0..m.size - 1 :
                    f[(IF i < k THEN Run ELSE Move) + i] = Sec(m, i, RunForm(m))}

LEMMA HeldIs ==
  /\ Whole(DroppedBack) = TheImage(Held(flash, SectorsBack))
  /\ Whole(DroppedBack)' = TheImage(Held(flash', SectorsBack'))
  BY DEF Whole, DroppedBack, Held, TheImage

(* The cells that are written.                                             *)
LEMMA CellIs ==
  /\ Cell(Blank) /\ Cell(Torn) /\ \A w : Cell(Crc(w))
  /\ \A m \in Images, i \in 0..N - 1, fm \in {"sent", "plain", "broken"} : Cell(Sec(m, i, fm))
<1>1. Blank.kind = "blank" /\ Torn.kind = "torn" /\ \A w : Crc(w).kind = "crc"
  BY DEF Blank, Torn, Crc
<1> QED BY <1>1, SecIs DEF Cell

LEMMA CellCrypted ==
  ASSUME NEW x, Cell(x), NEW key
  PROVE  Cell(Crypted(x, key))
<1>1. CASE key = NoCrypt
  BY <1>1 DEF Crypted
<1>2. CASE x.kind # "image"
  BY <1>2, CellIs DEF Crypted
<1>3. CASE key # NoCrypt /\ x.kind = "image"
  <2>1. x \in ImageSec
    BY <1>3 DEF Cell
  <2>2. 0 \in 0..N - 1
    BY Constants
  <2>3. Cell(Sec(x.of, 0, "broken"))
    BY <2>1, <2>2, ImageSecIs, CellIs
  <2>4. [x EXCEPT !.form = IF @ = "sent" THEN "plain" ELSE "sent"] \in ImageSec
    BY <2>1 DEF ImageSec
  <2>5. Cell([x EXCEPT !.form = IF @ = "sent" THEN "plain" ELSE "sent"])
    BY <2>4 DEF Cell
  <2> QED BY <1>3, <2>3, <2>5, CellIs DEF Crypted
<1> QED BY <1>1, <1>2, <1>3

LEMMA CellDamaged ==
  ASSUME NEW x, Cell(x), NEW y, Cell(y), NEW z \in Damaged(x, y)
  PROVE  Cell(z)
<1>1. 0 \in 0..N - 1
  BY Constants
<1>2. \A w \in {x, y} : w.kind = "image" => Cell(Sec(w.of, 0, "broken"))
  BY <1>1, ImageSecIs, CellIs DEF Cell
<1> QED BY <1>2, CellIs DEF Damaged

(* Writing one.                                                            *)
LEMMA CellsPut ==
  ASSUME NEW f, Cells(f), NEW s, NEW x, Cell(x) \/ s \notin DOMAIN f,
         NEW g, g = [f EXCEPT ![s] = x]
  PROVE  /\ Cells(g) /\ DOMAIN g = DOMAIN f
         /\ s \in DOMAIN f => g[s] = x
         /\ \A t \in DOMAIN f : t # s => g[t] = f[t]
  BY DEF Cells

LEMMA CellsErased ==
  ASSUME Cells(flash), NEW slt, NEW n, NEW g, g = ErasedIn(slt, n)
  PROVE  /\ Cells(g) /\ DOMAIN g = DOMAIN flash
         /\ \A t \in DOMAIN flash : t # slt + n => g[t] = flash[t]
<1>1. CASE n < N
  <2>1. g = [flash EXCEPT ![slt + n] = Blank]
    BY <1>1 DEF ErasedIn
  <2> QED BY <2>1, CellIs, CellsPut
<1>2. CASE ~ (n < N)
  BY <1>2 DEF ErasedIn
<1> QED BY <1>1, <1>2

(* Where sectors are.                                                      *)
LEMMA CellsAre ==
  ASSUME Cells(flash)
  PROVE  /\ DOMAIN flash = 0..Size
         /\ Upgrade = (IF InPlace THEN 1 ELSE N + 1)
         /\ Run = 0 /\ Move = 1 /\ Verify = N /\ 1 <= N /\ N \in Int
         /\ \A i \in 0..N : i \in DOMAIN flash
         /\ \A i \in 0..N - 1 : Move + i \in DOMAIN flash /\ Upgrade + i \in DOMAIN flash
         /\ \A s \in DOMAIN flash : HasHdr(s) =>
              /\ flash[s] \in ImageSec /\ Hdr(s) \in Images
              /\ Hdr(s).size \in Int /\ 1 <= Hdr(s).size /\ Hdr(s).size <= N
<1>1. InPlace <=> DOMAIN flash = 0..N
  BY Constants DEF InPlace, Cells
<1>2. DOMAIN flash = 0..Size
  BY <1>1 DEF Size, Cells
<1>3. \A s \in DOMAIN flash : HasHdr(s) => flash[s] \in ImageSec
  BY DEF HasHdr, Cells, Cell
<1>4. \A s \in DOMAIN flash : HasHdr(s) => Hdr(s) \in Images
  BY <1>3, ImageSecIs DEF Hdr
<1> QED BY <1>2, <1>3, <1>4, Constants DEF Size, Upgrade, Run, Move, Verify

LEMMA LastLogged ==
  ASSUME NEW lg \in Seq({Torn} \cup LoggedCmd)
  PROVE  LastIn(lg) \in LoggedCmd
<1> DEFINE good == {k \in 1..Len(lg) : lg[k] # Torn}
<1>1. CASE good = {}
  BY <1>1, CommandIs DEF LastIn, LoggedCmd
<1>2. CASE good # {}
  <2> DEFINE k == CHOOSE i \in good : \A l \in good : l <= i
  <2>0. \E i \in good : \A l \in good : l <= i
    <3>1. Len(lg) \in Nat /\ good \subseteq 1..Len(lg)
      OBVIOUS
    <3> QED BY <1>2, <3>1, Greatest
  <2>1. k \in good
    BY <2>0
  <2>2. LastIn(lg) = lg[k]
    BY <1>2 DEF LastIn
  <2> QED BY <2>1, <2>2
<1> QED BY <1>1, <1>2

(* cmd3 is a byte, whatever is computed.                                   *)
LEMMA GotoByte ==
  ASSUME NEW place, NEW c2 \in C2, NEW c3 \in Int, Goto(place, c2, c3),
         c2 = "RUN2MOV" => 0 <= c3 /\ c3 < N
  PROVE  /\ at' = place /\ cmd'.c2 = c2 /\ cmd' \in LoggedCmd
         /\ 0 <= c3 /\ c3 <= 255 => cmd'.c3 = c3
<1> DEFINE b == c3 % 256
<1>1. b \in 0..255
  OBVIOUS
<1>2. 0 <= c3 /\ c3 <= 255 => b = c3
  OBVIOUS
<1>3. at' = place /\ cmd' = Cmd(c2, b)
  BY DEF Goto
<1> HIDE DEF b
<1>4. /\ Cmd(c2, b) \in Command /\ Cmd(c2, b).c2 = c2 /\ Cmd(c2, b).c3 = b
  BY <1>1, CommandIs
<1>5. c2 = "RUN2MOV" => b < N
  BY <1>2, Constants
<1> QED BY <1>2, <1>3, <1>4, <1>5 DEF LoggedCmd

-----------------------------------------------------------------------------
(* Which images are held.                                                  *)

(* The first sector tells which one, when it is back.                      *)
LEMMA HeldHeader ==
  ASSUME NEW f, NEW k \in Int, k > 0, NEW m \in Held(f, k)
  PROVE  Header(f, Run) /\ f[Run].of = m
<1>1. 0 \in 0..m.size - 1 /\ m \in Images
  BY Constants DEF Held
<1>2. f[Run] = Sec(m, 0, RunForm(m))
  BY <1>1 DEF Held, Run
<1> QED BY <1>2 DEF Header, Sec

(* The erase of the sector of the run slot that is next.                   *)
LEMMA HeldErased ==
  ASSUME NEW f, NEW g, NEW k \in Int, 0 <= k,
         \A i \in 0..N : i # k => g[i] = f[i]
  PROVE  Held(g, k) = Held(f, k)
<1>1. ASSUME NEW m \in Images, NEW i \in 0..m.size - 1
      PROVE  g[(IF i < k THEN Run ELSE Move) + i] = f[(IF i < k THEN Run ELSE Move) + i]
  <2>1. PICK j \in 0..N : j = (IF i < k THEN Run ELSE Move) + i /\ j # k
    BY <1>1, Constants DEF Run, Move
  <2> QED BY <2>1
<1> QED BY <1>1 DEF Held

(* The copy of it.                                                         *)
LEMMA HeldMoved ==
  ASSUME NEW f, NEW g, NEW k \in Int, 0 <= k,
         \A i \in 0..N : i # k => g[i] = f[i],
         g[Run + k] = f[Move + k]
  PROVE  Held(g, k + 1) = Held(f, k)
<1>1. ASSUME NEW m \in Images, NEW i \in 0..m.size - 1
      PROVE  g[(IF i < k + 1 THEN Run ELSE Move) + i] = f[(IF i < k THEN Run ELSE Move) + i]
  <2>1. CASE i = k
    BY <2>1
  <2>2. CASE i # k
    <3>1. PICK j \in 0..N : /\ j = (IF i < k THEN Run ELSE Move) + i /\ j # k
                            /\ j = (IF i < k + 1 THEN Run ELSE Move) + i
      BY <1>1, <2>2, Constants DEF Run, Move
    <3> QED BY <3>1
  <2> QED BY <2>1, <2>2
<1> QED BY <1>1 DEF Held

(* When it is back, or there is none, what is not in the run slot does not *)
(* matter.                                                                 *)
LEMMA HeldBack ==
  ASSUME NEW f, NEW g, NEW k \in Int, 0 < k, NEW l \in Int, k <= l,
         g[Run] = f[Run],
         Header(f, Run) => \A m \in Images : m = f[Run].of =>
           /\ k >= m.size
           /\ \A i \in 0..m.size - 1 : g[Run + i] = f[Run + i]
  PROVE  Held(g, l) = Held(f, k)
<1>1. ASSUME NEW m \in Images, Header(f, Run), f[Run].of = m
      PROVE  m \in Held(g, l) <=> m \in Held(f, k)
  <2>1. ASSUME NEW i \in 0..m.size - 1
        PROVE  g[(IF i < l THEN Run ELSE Move) + i] = f[(IF i < k THEN Run ELSE Move) + i]
    <3>1. i < k /\ i < l
      BY <1>1, Constants
    <3> QED BY <1>1, <3>1
  <2> QED BY <2>1 DEF Held
<1>2. \A m \in Held(g, l) : Header(f, Run) /\ f[Run].of = m
  <2>1. \A m \in Held(g, l) : Header(g, Run) /\ g[Run].of = m
    BY HeldHeader
  <2> QED BY <2>1 DEF Header
<1>3. \A m \in Held(f, k) : Header(f, Run) /\ f[Run].of = m
  BY HeldHeader
<1>4. Held(g, l) \subseteq Images /\ Held(f, k) \subseteq Images
  BY DEF Held
<1> QED BY <1>1, <1>2, <1>3, <1>4
-----------------------------------------------------------------------------
(* The types.                                                              *)

(* A step that leaves most of it alone.                                    *)
LEMMA TypesKept ==
  ASSUME DropTyped, Cells(flash'), DOMAIN flash' = DOMAIN flash,
         log' = log, cmd' \in LoggedCmd, upgr_slt' = upgr_slt,
         at' = "copy" => job'.from \in DOMAIN flash,
         dfu' = dfu, at' \notin {"unsign", "upload"} => dfu = None,
         at' = "upload" => dfu \in Received
  PROVE  DropTyped'
<1>1. upgr_slt' \in {Move, Upgrade'}
  BY SameLayout DEF DropTyped
<1> QED BY <1>1 DEF DropTyped, Move

(* zb_img_swap has come back.                                              *)
LEMMA NoSessionTypes ==
  ASSUME NoSession, DOMAIN flash' = DOMAIN flash
  PROVE  cmd' \in LoggedCmd /\ upgr_slt' \in {Move, Upgrade'}
<1>1. cmd' \in LoggedCmd
  BY CommandIs DEF NoSession, LoggedCmd
<1>2. upgr_slt' = Upgrade'
  BY SameLayout DEF NoSession
<1> QED BY <1>1, <1>2

(* No step changes the size of the flash.                                  *)
LEMMA StepDomain ==
  ASSUME [Next]_vars
  PROVE  DOMAIN flash' = DOMAIN flash
<1>1. \A slt, n : DOMAIN ErasedIn(slt, n) = DOMAIN flash
  BY DEF ErasedIn
<1>2. \/ flash' = flash
      \/ \E slt, n : flash' = ErasedIn(slt, n)
      \/ \E s, x : flash' = [flash EXCEPT ![s] = x]
  BY DEF Next, Step, Environment, vars, Boot, SwapStart, WipeLog, StartMove, Run2Mov, Upg2RunFirst,
     Upg2RunNext, Upg2RunSkip, Mov2Upg, Mov2UpgSkip, Copy, Finalise, WriteLog, EraseVerify,
     WriteVerify, UploadSector, UploadDone, AppConfirm, AppLeaves, UploadStart, Reset, PowerLoss
<1> QED BY <1>1, <1>2

LEMMA IdleTypes ==
  ASSUME DropTyped,
         Boot \/ AppConfirm \/ AppLeaves \/ UploadStart \/ UploadDone \/ Reset
  PROVE  DropTyped'
<1>1. /\ flash' = flash /\ log' = log /\ cmd' = cmd /\ upgr_slt' = upgr_slt /\ at' # "copy"
      /\ Upgrade' = Upgrade
  BY SameLayout DEF Boot, AppConfirm, AppLeaves, UploadStart, UploadDone, Reset, session
<1>2. CASE Boot \/ AppConfirm \/ AppLeaves \/ Reset
  <2>1. dfu' = dfu /\ at \notin {"unsign", "upload"} /\ at' # "upload"
    BY <1>2 DEF Boot, AppConfirm, AppLeaves, Reset
  <2> QED BY <1>1, <2>1 DEF DropTyped, Move
<1>3. CASE UploadStart
  <2>1. PICK m \in Uploads[InPlace] : dfu' = [of |-> m, n |-> 0]
    BY <1>3 DEF UploadStart
  <2>2. m \in Images
    BY ImagesAssumption DEF InPlace
  <2>3. dfu' \in Received /\ at' \in {"unsign", "upload"}
    BY <1>3, <2>1, <2>2 DEF Received, UploadStart
  <2> QED BY <1>1, <2>3 DEF DropTyped, Move
<1>4. CASE UploadDone
  <2>1. dfu' = None /\ at' \notin {"unsign", "upload"}
    BY <1>4 DEF UploadDone
  <2> QED BY <1>1, <2>1 DEF DropTyped, Move
<1> QED BY <1>2, <1>3, <1>4

LEMMA SwapStartTypes ==
  ASSUME DropTyped, SwapStart
  PROVE  DropTyped'
<1>1. /\ flash' = flash /\ log' = log /\ dfu' = None /\ Upgrade' = Upgrade
      /\ at' \in {"app", "dead", "loader", "cmd", "wipe"}
  BY SameLayout DEF SwapStart, JumpRun, DropTyped
<1>2. cmd' \in LoggedCmd /\ upgr_slt' \in {Move, Upgrade'}
  <2>1. CASE NoSession
    BY <1>1, <2>1, NoSessionTypes
  <2>2. CASE cmd' = LastCmd /\ upgr_slt' = upgr_slt
    BY <1>1, <2>2, LastIs, LastLogged DEF DropTyped
  <2>3. CASE cmd' = cmd /\ upgr_slt' = upgr_slt
    BY <1>1, <2>3 DEF DropTyped
  <2>4. NoSession \/ (cmd' \in {LastCmd, cmd} /\ upgr_slt' = upgr_slt)
    BY DEF SwapStart, JumpRun
  <2> QED BY <2>1, <2>2, <2>3, <2>4
<1> QED BY <1>1, <1>2 DEF DropTyped, Move

LEMMA LogTypes ==
  ASSUME DropTyped, WipeLog \/ WriteLog
  PROVE  DropTyped'
<1>1. flash' = flash /\ dfu' = None /\ Upgrade' = Upgrade
  BY SameLayout DEF WipeLog, WriteLog, DropTyped
<1>2. log' \in Seq({Torn} \cup LoggedCmd)
  <2>1. CASE WipeLog
    BY <2>1 DEF WipeLog
  <2>2. CASE WriteLog
    BY <2>2 DEF WriteLog, DropTyped
  <2> QED BY <2>1, <2>2
<1>3. CASE NoSession /\ at' \in {"app", "dead"}
  BY <1>1, <1>2, <1>3, NoSessionTypes DEF DropTyped, Move
<1>4. CASE cmd' = cmd /\ upgr_slt' = upgr_slt /\ at' = "cmd"
  BY <1>1, <1>2, <1>4 DEF DropTyped, Move
<1>5. \/ NoSession /\ at' \in {"app", "dead"}
      \/ cmd' = cmd /\ upgr_slt' = upgr_slt /\ at' = "cmd"
  BY DEF WipeLog, WriteLog, JumpRun, session
<1> QED BY <1>3, <1>4, <1>5

LEMMA VerifyTypes ==
  ASSUME DropTyped, EraseVerify \/ WriteVerify
  PROVE  DropTyped'
<1>1. PICK x : flash' = [flash EXCEPT ![Verify] = x] /\ Cell(x)
  BY CellIs DEF EraseVerify, WriteVerify
<1>2. Cells(flash') /\ DOMAIN flash' = DOMAIN flash
  BY <1>1, CellsPut DEF DropTyped
<1>3. /\ log' = log /\ cmd' = cmd /\ upgr_slt' = upgr_slt /\ dfu' = dfu /\ at' # "copy"
      /\ at' \notin {"unsign", "upload"} => dfu = None
      /\ at' = "upload" => dfu \in Received
  BY DEF EraseVerify, WriteVerify, session, DropTyped
<1> QED BY <1>2, <1>3, TypesKept DEF DropTyped

LEMMA UploadTypes ==
  ASSUME DropTyped, UploadSector
  PROVE  DropTyped'
<1>1. dfu \in Received /\ dfu.n < dfu.of.size
  BY DEF DropTyped, UploadSector
<1>2. dfu.of \in Images /\ dfu.n \in 0..N - 1 /\ dfu' \in Received
  <2>1. dfu.of \in Images /\ dfu.n \in Nat
    BY <1>1 DEF Received
  <2>2. dfu.n \in 0..N - 1
    BY <1>1, <2>1, Constants
  <2>3. dfu' \in Received
    BY <1>1 DEF Received, UploadSector
  <2> QED BY <2>1, <2>2, <2>3
<1>3. PICK x : x = Sec(dfu.of, dfu.n, "sent") /\ Cell(x)
  BY <1>2, CellIs
<1>4. Cells(flash') /\ DOMAIN flash' = DOMAIN flash
  <2>1. PICK s : s = Upgrade + dfu.n
    OBVIOUS
  <2>2. flash' = [flash EXCEPT ![s] = x] /\ Cells(flash)
    BY <1>3, <2>1 DEF DropTyped, UploadSector
  <2> QED BY <1>3, <2>2, CellsPut
<1>5. Upgrade' = Upgrade
  BY <1>4, SameLayout
<1> QED BY <1>2, <1>4, <1>5 DEF DropTyped, UploadSector, session, Move

LEMMA CopyTypes ==
  ASSUME DropTyped, Copy
  PROVE  DropTyped'
<1>1. Cell(flash[job.from])
  BY DEF DropTyped, Copy, Cells
<1>2. PICK x : x = Crypted(flash[job.from], job.key) /\ Cell(x)
  BY <1>1, CellCrypted
<1>3. Cells(flash') /\ DOMAIN flash' = DOMAIN flash
  <2>1. flash' = [flash EXCEPT ![job.to] = x] /\ Cells(flash)
    BY <1>2 DEF DropTyped, Copy
  <2> QED BY <1>2, <2>1, CellsPut
<1> QED BY <1>3, TypesKept DEF DropTyped, Copy

(* The commands.                                                           *)
LEMMA RunSlotTypes ==
  ASSUME DropTyped, StartMove \/ Run2Mov
  PROVE  DropTyped'
<1>1. cmd \in Command /\ (cmd.c2 = "RUN2MOV" => cmd.c3 < N)
  BY DEF DropTyped, LoggedCmd
<1>2. Cells(flash) /\ cmd.c2 \in C2 /\ cmd.c3 \in 0..255
  BY <1>1, CommandIs DEF DropTyped
<1>0. "UPG2RUN" \in C2 /\ "RUN2MOV" \in C2 /\ "UPG2RUN" # "RUN2MOV"
  BY DEF C2
<1>3. CASE StartMove
  <2>1. flash' = flash /\ log' = log /\ upgr_slt' = upgr_slt /\ dfu' = dfu
    BY <1>3 DEF StartMove
  <2>2. dfu = None
    BY <1>3 DEF StartMove, DropTyped
  <2>3. at' = "log" /\ cmd' \in LoggedCmd
    <3>1. CASE Goto("log", "UPG2RUN", 0)
      BY <3>1, <1>0, GotoByte
    <3>2. CASE HasHdr(Run) /\ Goto("log", "RUN2MOV", Hdr(Run).size - 1)
      <4>1. Hdr(Run).size \in Int /\ 1 <= Hdr(Run).size /\ Hdr(Run).size <= N /\ N <= 255
        BY <1>2, <3>2, CellsAre, Constants
      <4>2. PICK z \in Int : z = Hdr(Run).size - 1 /\ 0 <= z /\ z < N
        BY <4>1, Constants
      <4>3. Goto("log", "RUN2MOV", z)
        BY <3>2, <4>2
      <4> QED BY <1>0, <4>2, <4>3, GotoByte
    <3> QED BY <1>3, <3>1, <3>2 DEF StartMove
  <2> QED BY <1>2, <2>1, <2>2, <2>3, TypesKept
<1>4. CASE Run2Mov
  <2>1. Cells(flash') /\ DOMAIN flash' = DOMAIN flash
    BY <1>2, <1>4, CellsErased DEF Run2Mov
  <2>2. log' = log /\ upgr_slt' = upgr_slt /\ dfu' = dfu
    BY <1>4 DEF Run2Mov
  <2>3. dfu = None
    BY <1>4 DEF Run2Mov, DropTyped
  <2>4. at' = "copy" /\ cmd' \in LoggedCmd
    <3>1. CASE Goto("copy", "UPG2RUN", 0)
      BY <3>1, <1>0, GotoByte
    <3>2. CASE cmd.c3 # 0 /\ Goto("copy", "RUN2MOV", cmd.c3 - 1)
      <4>1. cmd.c3 < N
        BY <1>1, <1>4 DEF Run2Mov
      <4> QED BY <1>2, <3>2, <4>1, <1>0, GotoByte, Constants
    <3> QED BY <1>4, <3>1, <3>2 DEF Run2Mov
  <2>5. job'.from \in DOMAIN flash
    <3>1. CopyJob(Run + cmd.c3, Move + cmd.c3, NoCrypt) /\ cmd.c3 < N
      BY <1>1, <1>4 DEF Run2Mov
    <3>2. job'.from = Run + cmd.c3
      BY <3>1 DEF CopyJob
    <3>3. PICK i \in 0..N : i = cmd.c3 /\ Run + cmd.c3 = i
      BY <1>2, <3>1, Constants DEF Run
    <3> QED BY <1>2, <3>2, <3>3, CellsAre
  <2> QED BY <2>1, <2>2, <2>3, <2>4, <2>5, TypesKept
<1> QED BY <1>3, <1>4

LEMMA SkipTypes ==
  ASSUME DropTyped, Upg2RunSkip \/ Mov2UpgSkip \/ Finalise
  PROVE  DropTyped'
<1>1. cmd.c2 \in C2 /\ cmd.c3 \in 0..255 /\ Cells(flash)
  BY CommandIs DEF DropTyped, LoggedCmd
<1>2. flash' = flash /\ log' = log /\ upgr_slt' = upgr_slt /\ dfu' = dfu /\ dfu = None
  BY DEF Upg2RunSkip, Mov2UpgSkip, Finalise, DropTyped
<1>3. \E c2 \in C2 \ {"RUN2MOV"}, c3 \in Int, place \in {"log", "unsign"} : Goto(place, c2, c3)
  <2>1. {"UPG2RUN", "MOV2UPG", "FINALISE", "SWP_END"} \subseteq C2 \ {"RUN2MOV"}
        /\ cmd.c3 \in Int /\ cmd.c3 + 1 \in Int
    BY <1>1 DEF C2
  <2> QED BY <2>1 DEF Upg2RunSkip, Mov2UpgSkip, Finalise
<1>4. PICK c2 \in C2 \ {"RUN2MOV"}, c3 \in Int, place \in {"log", "unsign"} : Goto(place, c2, c3)
  BY <1>3
<1>5. at' = place /\ cmd' \in LoggedCmd
  BY <1>4, GotoByte
<1> QED BY <1>1, <1>2, <1>5, TypesKept

(* The commands that copy a sector on, or end.                             *)
LEMMA MoveTypes ==
  ASSUME DropTyped, Cells(flash'), DOMAIN flash' = DOMAIN flash,
         log' = log, dfu' = dfu, dfu = None, upgr_slt' \in {Move, Upgrade},
         NEW c2 \in {"UPG2RUN", "MOV2UPG"}, NEW c3 \in Int,
         NEW place \in {"copy", "log"}, Goto(place, c2, c3),
         place = "copy" => job'.from \in DOMAIN flash
  PROVE  DropTyped'
<1>1. c2 \in C2 /\ c2 # "RUN2MOV"
  BY DEF C2
<1>2. at' = place /\ cmd' \in LoggedCmd
  BY <1>1, GotoByte
<1>3. upgr_slt' \in {Move, Upgrade'}
  BY SameLayout
<1> QED BY <1>2, <1>3 DEF DropTyped, Move

LEMMA Upg2RunFirstTypes ==
  ASSUME DropTyped, Upg2RunFirst
  PROVE  DropTyped'
<1>1. Cells(flash) /\ upgr_slt \in {Move, Upgrade} /\ cmd.c3 = 0
  BY DEF DropTyped, Upg2RunFirst
<1>2. Cells(flash') /\ DOMAIN flash' = DOMAIN flash
  BY <1>1, CellsErased DEF Upg2RunFirst
<1>3. log' = log /\ dfu' = dfu /\ dfu = None
  BY DEF Upg2RunFirst, DropTyped
<1>4. upgr_slt \in DOMAIN flash
  BY <1>1, CellsAre, Constants
<1>5. CASE \E key : CopyJob(upgr_slt, Run, key) /\ AfterUpg2Run("copy") /\ upgr_slt' = upgr_slt
  <2>1. job'.from \in DOMAIN flash
    BY <1>4, <1>5 DEF CopyJob
  <2>2. Goto("copy", "UPG2RUN", 1) \/ Goto("copy", "MOV2UPG", 0)
    BY <1>1, <1>5 DEF AfterUpg2Run
  <2> QED BY <1>1, <1>2, <1>3, <1>5, <2>1, <2>2, MoveTypes
<1>6. CASE upgr_slt' = Move /\ Goto("log", "UPG2RUN", 0)
  BY <1>2, <1>3, <1>6, MoveTypes
<1>7. \/ \E key : CopyJob(upgr_slt, Run, key) /\ AfterUpg2Run("copy") /\ upgr_slt' = upgr_slt
      \/ upgr_slt' = Move /\ Goto("log", "UPG2RUN", 0)
  BY DEF Upg2RunFirst
<1> QED BY <1>5, <1>6, <1>7

LEMMA Upg2RunNextTypes ==
  ASSUME DropTyped, Upg2RunNext
  PROVE  DropTyped'
<1>1. /\ Cells(flash) /\ upgr_slt \in {Move, Upgrade} /\ upgr_slt' = upgr_slt
      /\ cmd.c3 \in 0..255
  BY CommandIs DEF DropTyped, LoggedCmd, Upg2RunNext
<1>2. Cells(flash') /\ DOMAIN flash' = DOMAIN flash
  BY <1>1, CellsErased DEF Upg2RunNext
<1>3. log' = log /\ dfu' = dfu /\ dfu = None
  BY DEF Upg2RunNext, DropTyped
<1>4. \A place : AfterUpg2Run(place) =>
        \E c2 \in {"UPG2RUN", "MOV2UPG"}, c3 \in Int : Goto(place, c2, c3)
  BY <1>1 DEF AfterUpg2Run
<1>5. PICK end \in (IF HasHdr(Run) THEN {Hdr(Run).size} ELSE 0..N) :
        \/ /\ cmd.c3 < end /\ AfterUpg2Run("copy")
           /\ \E key : CopyJob(upgr_slt + cmd.c3, Run + cmd.c3, key)
        \/ AfterUpg2Run("log")
  BY DEF Upg2RunNext
<1>6. end \in Int /\ end <= N
  BY <1>1, <1>5, CellsAre
<1>7. CASE /\ cmd.c3 < end /\ AfterUpg2Run("copy")
           /\ \E key : CopyJob(upgr_slt + cmd.c3, Run + cmd.c3, key)
  <2>1. PICK i \in 0..N - 1 : i = cmd.c3
    BY <1>1, <1>6, <1>7, Constants
  <2>2. upgr_slt + i \in DOMAIN flash
    BY <1>1, CellsAre
  <2>3. job'.from \in DOMAIN flash
    BY <1>7, <2>1, <2>2 DEF CopyJob
  <2> QED BY <1>1, <1>2, <1>3, <1>4, <1>7, <2>3, MoveTypes
<1>8. CASE AfterUpg2Run("log")
  BY <1>1, <1>2, <1>3, <1>4, <1>8, MoveTypes
<1> QED BY <1>5, <1>7, <1>8

LEMMA Mov2UpgTypes ==
  ASSUME DropTyped, Mov2Upg
  PROVE  DropTyped'
<1> DEFINE s == IF cmd.c3 = 0 THEN Move ELSE upgr_slt
<1>1. /\ Cells(flash) /\ upgr_slt \in {Move, Upgrade} /\ upgr_slt' = upgr_slt
      /\ cmd.c3 \in 0..255
  BY CommandIs DEF DropTyped, LoggedCmd, Mov2Upg
<1>2. Cells(flash') /\ DOMAIN flash' = DOMAIN flash
  BY <1>1, CellsErased DEF Mov2Upg
<1>3. log' = log /\ dfu' = dfu /\ dfu = None
  BY DEF Mov2Upg, DropTyped
<1>4. \/ /\ HasHdr(s) /\ cmd.c3 < Hdr(s).size /\ Goto("copy", "UPG2RUN", cmd.c3 + 1)
         /\ \E to, key : CopyJob(Move + cmd.c3, to, key)
      \/ Goto("log", "UPG2RUN", cmd.c3 + 1)
  BY DEF Mov2Upg
<1>5. cmd.c3 + 1 \in Int
  BY <1>1
<1>6. s \in DOMAIN flash
  BY <1>1, CellsAre, Constants
<1> HIDE DEF s
<1>7. CASE /\ HasHdr(s) /\ cmd.c3 < Hdr(s).size /\ Goto("copy", "UPG2RUN", cmd.c3 + 1)
           /\ \E to, key : CopyJob(Move + cmd.c3, to, key)
  <2>1. Hdr(s).size \in Int /\ Hdr(s).size <= N
    BY <1>1, <1>6, <1>7, CellsAre
  <2>2. PICK i \in 0..N - 1 : i = cmd.c3
    BY <1>1, <1>7, <2>1, Constants
  <2>3. Move + i \in DOMAIN flash
    BY <1>1, CellsAre
  <2>4. job'.from \in DOMAIN flash
    BY <1>7, <2>2, <2>3 DEF CopyJob
  <2> QED BY <1>1, <1>2, <1>3, <1>5, <1>7, <2>4, MoveTypes
<1>8. CASE Goto("log", "UPG2RUN", cmd.c3 + 1)
  BY <1>1, <1>2, <1>3, <1>5, <1>8, MoveTypes
<1> QED BY <1>4, <1>7, <1>8

(* A power failure in the middle of any of it.                             *)
LEMMA PowerLossTypes ==
  ASSUME DropTyped, PowerLoss
  PROVE  DropTyped'
<1>1. Cells(flash) /\ N \in Int /\ N <= 255
  BY Constants DEF DropTyped
<1>2. \A t \in Changing : t[1] \in DOMAIN flash => Cell(t[2])
  <2>1. CASE at = "cmd" \/ at = "unsign"
    <3>1. \A t \in Changing : t[2] = Blank
      BY <2>1 DEF Changing
    <3> QED BY <3>1, CellIs
  <2>2. CASE at = "copy"
    <3>1. Cell(flash[job.from])
      BY <2>2 DEF DropTyped, Cells
    <3>2. Cell(Crypted(flash[job.from], job.key))
      BY <3>1, CellCrypted
    <3>3. \A t \in Changing : t[2] = Crypted(flash[job.from], job.key)
      BY <2>2 DEF Changing
    <3> QED BY <3>2, <3>3
  <2>3. CASE at = "sign"
    <3>1. \A t \in Changing : t[2] = Crc(RunContent)
      BY <2>3 DEF Changing
    <3> QED BY <3>1, CellIs
  <2>4. CASE at = "upload"
    <3>1. dfu \in Received
      BY <2>4 DEF DropTyped
    <3>2. ASSUME NEW t \in Changing
          PROVE  t[2] = Sec(dfu.of, dfu.n, "sent") /\ dfu.n < dfu.of.size
      BY <2>4 DEF Changing
    <3>3. dfu.of \in Images /\ dfu.n \in Nat
      BY <3>1 DEF Received
    <3>4. ASSUME NEW t \in Changing
          PROVE  Cell(t[2])
      <4>1. dfu.n \in 0..N - 1
        BY <3>2, <3>3, Constants
      <4> QED BY <3>2, <3>3, <4>1, CellIs
    <3> QED BY <3>4
  <2>5. CASE at \notin {"cmd", "copy", "unsign", "sign", "upload"}
    <3>1. Changing = {}
      BY <2>5 DEF Changing
    <3> QED BY <3>1
  <2> QED BY <2>1, <2>2, <2>3, <2>4, <2>5
<1>3. Cells(flash') /\ DOMAIN flash' = DOMAIN flash
  <2>1. CASE flash' = flash
    BY <1>1, <2>1
  <2>2. CASE \E t \in Changing : \E c \in Damaged(flash[t[1]], t[2]) :
               flash' = [flash EXCEPT ![t[1]] = c]
    <3>1. PICK t \in Changing : \E c \in Damaged(flash[t[1]], t[2]) :
                 flash' = [flash EXCEPT ![t[1]] = c]
      BY <2>2
    <3>2. PICK c \in Damaged(flash[t[1]], t[2]) : flash' = [flash EXCEPT ![t[1]] = c]
      BY <3>1
    <3>3. t[1] \in DOMAIN flash => Cell(flash[t[1]]) /\ Cell(t[2])
      BY <1>1, <1>2 DEF Cells
    <3>4. t[1] \in DOMAIN flash => Cell(c)
      BY <3>3, CellDamaged
    <3>5. PICK s : s = t[1]
      OBVIOUS
    <3> QED BY <1>1, <3>2, <3>4, <3>5, CellsPut
  <2> QED BY <2>1, <2>2 DEF PowerLoss
<1>4. log' \in Seq({Torn} \cup LoggedCmd)
  <2>1. log \in Seq({Torn} \cup LoggedCmd)
    BY DEF DropTyped
  <2>2. CASE log' = log
    BY <2>1, <2>2
  <2>3. CASE log' = Append(log, Torn)
    BY <2>1, <2>3
  <2>4. CASE \E k \in 0..Len(log) : log' = SubSeq(log, 1, k)
    BY <2>1, <2>4
  <2>5. (IF TornLogErase THEN 0..Len(log) ELSE {0}) \subseteq 0..Len(log)
    BY <2>1
  <2> QED BY <2>2, <2>3, <2>4, <2>5 DEF PowerLoss
<1>5. at' = "off" /\ dfu' = None /\ NoSession
  BY DEF PowerLoss
<1>6. cmd' \in LoggedCmd /\ upgr_slt' \in {Move, Upgrade'}
  BY <1>3, <1>5, NoSessionTypes
<1> QED BY <1>3, <1>4, <1>5, <1>6 DEF DropTyped, Move

LEMMA StepTypes ==
  ASSUME DropTyped, [Next]_vars
  PROVE  DropTyped'
<1>1. CASE UNCHANGED vars
  <2>1. at' = at /\ job' = job /\ cmd' = cmd /\ upgr_slt' = upgr_slt
    BY <1>1 DEF vars, session
  <2>2. flash' = flash /\ log' = log /\ dfu' = dfu
    BY <1>1 DEF vars
  <2> QED BY <2>1, <2>2, TypesKept DEF DropTyped
<1> QED
  BY <1>1, IdleTypes, SwapStartTypes, LogTypes, VerifyTypes, UploadTypes, CopyTypes, RunSlotTypes,
     SkipTypes, Upg2RunFirstTypes, Upg2RunNextTypes, Mov2UpgTypes, PowerLossTypes
     DEF Next, Step, Environment

-----------------------------------------------------------------------------
(* A drop back goes on as it should.                                       *)

(* What the steps below have in common.                                    *)
LEMMA DropIs ==
  ASSUME DropTyped, DropInv, DroppingBack
  PROVE  /\ Cells(flash) /\ ~ InPlace /\ in_place /\ upgr_slt = Move /\ dfu = None
         /\ cmd.c2 \in {"UPG2RUN", "FINALISE", "SWP_END"} /\ cmd.c3 \in 0..255
         /\ Run = 0 /\ Move = 1 /\ Verify = N /\ N \in Int /\ 1 <= N
         /\ 0 \in DOMAIN flash /\ 0 \in 0..N
         /\ HasHdr(Run) <=> Header(flash, Run)
         /\ HasHdr(Run) => /\ Hdr(Run) \in Images
                           /\ Hdr(Run).size \in Int /\ 1 <= Hdr(Run).size /\ Hdr(Run).size <= N
         /\ cmd.c3 <= N + 1
         /\ ~ BackAgain => cmd.c3 <= N
         /\ BackAgain => cmd.c3 > 0 /\ (HasHdr(Run) => cmd.c3 >= Hdr(Run).size)
<1>1. Cells(flash) /\ cmd \in Command
  BY DEF DropTyped, LoggedCmd
<1>2. ~ InPlace /\ in_place
  BY DEF DroppingBack
<1>3. HasHdr(Run) <=> Header(flash, Run)
  BY DEF HasHdr, Header
<1>4. upgr_slt = Move /\ dfu = None /\ DropCommand
  BY DEF DropInv
<1>5. cmd.c3 \in 0..255
  BY <1>1, CommandIs
<1>6. /\ Run = 0 /\ Move = 1 /\ Verify = N /\ N \in Int /\ 1 <= N
      /\ \A i \in 0..N : i \in DOMAIN flash
  BY <1>1, CellsAre
<1>7. 0 \in 0..N /\ 0 \in DOMAIN flash
  BY <1>6
<1>8. HasHdr(Run) => /\ Hdr(Run) \in Images
                     /\ Hdr(Run).size \in Int /\ 1 <= Hdr(Run).size /\ Hdr(Run).size <= N
  BY <1>1, <1>6, <1>7, CellsAre
<1> QED BY <1>1, <1>2, <1>3, <1>4, <1>5, <1>6, <1>7, <1>8 DEF DropCommand

(* The first sector, once more if power failed, or not at all when the     *)
(* dependencies of the old image fail.                                     *)
LEMMA DropFirst ==
  ASSUME PlainImages, DropTyped, DropInv, DroppingBack, Upg2RunFirst
  PROVE  DropInv' /\ Held(flash', SectorsBack') = Held(flash, SectorsBack)
<1>1. /\ cmd.c2 = "UPG2RUN" /\ cmd.c3 = 0 /\ at = "cmd" /\ ~ upg2run_done /\ ~ upg2run_done'
      /\ flash' = ErasedIn(Run, 0) /\ dfu' = None
  BY DropIs DEF Upg2RunFirst
<1>2. /\ DOMAIN flash' = DOMAIN flash /\ \A i \in 0..N : i # 0 => flash'[i] = flash[i]
  BY <1>1, DropIs, CellsAre, CellsErased
<1>3. Held(flash', 0) = Held(flash, 0)
  BY <1>2, HeldErased
<1>4. SectorsBack = 0
  BY <1>1 DEF SectorsBack
<1>5. CASE /\ HasHdr(Move) /\ upgr_ok' = TRUE
           /\ CopyJob(Move, Run, IF Hdr(Move).enc THEN KeyOf(Hdr(Move)) ELSE NoCrypt)
           /\ Goto("copy", "UPG2RUN", 1) /\ in_place' = in_place /\ upgr_slt' = upgr_slt
  <2>1. at' = "copy" /\ cmd'.c2 = "UPG2RUN" /\ cmd'.c3 = 1
    <3>1. Goto("copy", "UPG2RUN", 1) /\ "UPG2RUN" \in C2 /\ 1 \in Int
      BY <1>5 DEF C2
    <3> QED BY <3>1, GotoByte
  <2>2. ~ Hdr(Move).enc
    <3>1. Move \in DOMAIN flash
      BY DropIs, CellsAre, Constants
    <3>2. Hdr(Move) \in Images
      BY <1>5, <3>1, DropIs, CellsAre
    <3> QED BY <3>2 DEF PlainImages
  <2>3. job'.from = Move /\ job'.to = Run /\ job'.key = NoCrypt
    BY <1>5, <2>2 DEF CopyJob
  <2>4. SectorsBack' = 0
    BY <2>1 DEF SectorsBack
  <2>5. DropCommand'
    BY <1>1, <1>5, <2>1, DropIs, Constants DEF DropCommand, BackAgain
  <2>6. DropCopy'
    BY <1>1, <2>1, <2>3, DropIs DEF DropCopy, Run, Move
  <2>7. DropInv'
    BY <1>1, <1>5, <2>1, <2>5, <2>6, DropIs DEF DropInv, Move
  <2> QED BY <1>3, <1>4, <2>4, <2>7
<1>6. CASE upgr_slt' = Move /\ Goto("log", "UPG2RUN", 0)
  <2>1. at' = "log" /\ cmd'.c2 = "UPG2RUN" /\ cmd'.c3 = 0
    BY <1>6, GotoByte DEF C2
  <2>2. SectorsBack' = 0
    BY <2>1 DEF SectorsBack
  <2>3. DropCommand' /\ DropCopy'
    BY <1>1, <2>1, Constants DEF DropCommand, DropCopy, BackAgain
  <2>4. DropInv'
    BY <1>1, <1>6, <2>1, <2>3 DEF DropInv, Move
  <2> QED BY <1>3, <1>4, <2>2, <2>4
<1>7. \/ /\ HasHdr(Move) /\ upgr_ok' = TRUE
         /\ CopyJob(Move, Run, IF Hdr(Move).enc THEN KeyOf(Hdr(Move)) ELSE NoCrypt)
         /\ Goto("copy", "UPG2RUN", 1) /\ in_place' = in_place /\ upgr_slt' = upgr_slt
      \/ upgr_slt' = Move /\ Goto("log", "UPG2RUN", 0)
  <2>1. upgr_slt = Move /\ in_place
    BY DropIs
  <2>2. AfterUpg2Run("copy") => Goto("copy", "UPG2RUN", 1)
    BY <1>1, <2>1 DEF AfterUpg2Run
  <2> QED BY <2>1, <2>2 DEF Upg2RunFirst, UpgradeGood
<1> QED BY <1>5, <1>6, <1>7

LEMMA DropNext ==
  ASSUME PlainImages, DropTyped, DropInv, DroppingBack, Upg2RunNext
  PROVE  DropInv' /\ Held(flash', SectorsBack') = Held(flash, SectorsBack)
<1>1. /\ cmd.c2 = "UPG2RUN" /\ cmd.c3 > 0 /\ at = "cmd" /\ ~ upg2run_done
      /\ flash' = ErasedIn(Run, cmd.c3) /\ dfu' = None /\ upgr_slt' = Move
  BY DropIs DEF Upg2RunNext
<1>2. /\ ~ BackAgain /\ cmd.c3 <= N /\ cmd.c3 \in Int /\ upgr_ok
      /\ N \in Int /\ Run = 0
  BY <1>1, DropIs DEF BackAgain, DropInv, DropCommand
<1>3. DOMAIN flash' = DOMAIN flash /\ \A i \in 0..N : i # cmd.c3 => flash'[i] = flash[i]
  BY <1>1, <1>2, DropIs, CellsAre, CellsErased
<1>4. flash'[Run] = flash[Run]
  BY <1>1, <1>2, <1>3
<1>5. Held(flash', cmd.c3) = Held(flash, cmd.c3)
  BY <1>1, <1>2, <1>3, HeldErased
<1>6. SectorsBack = cmd.c3
  BY <1>1 DEF SectorsBack
<1>7. upgr_ok' = TRUE
  BY <1>2 DEF Upg2RunNext
<1>8. HasHdr(Run)' = HasHdr(Run) /\ Hdr(Run)' = Hdr(Run) /\ Header(flash', Run) = HasHdr(Run)
  BY <1>4 DEF HasHdr, Hdr, Header
<1>9. PICK end \in (IF HasHdr(Run) THEN {Hdr(Run).size} ELSE 0..N) :
        \/ /\ cmd.c3 < end /\ Goto("copy", "UPG2RUN", cmd.c3 + 1)
           /\ upg2run_done' = upg2run_done
           /\ CopyJob(Move + cmd.c3, Run + cmd.c3,
                      IF upgr_ok /\ HasHdr(Run) /\ ~ Hdr(Run).enc THEN NoCrypt ELSE upgr_key)
        \/ /\ ~ (cmd.c3 < end) /\ upg2run_done' = TRUE /\ Goto("log", "UPG2RUN", cmd.c3 + 1)
  <2>1. upgr_slt = Move /\ in_place
    BY DropIs
  <2>2. \A place : AfterUpg2Run(place) => Goto(place, "UPG2RUN", cmd.c3 + 1)
    BY <2>1 DEF AfterUpg2Run
  <2> QED BY <2>1, <2>2 DEF Upg2RunNext
<1>10. end \in Int /\ end <= N
  BY <1>2, <1>9, DropIs
<1>11. cmd.c3 + 1 \in Int /\ 0 <= cmd.c3 + 1 /\ cmd.c3 + 1 <= 255
  BY <1>1, <1>2 DEF PlainImages
<1>12. CASE /\ cmd.c3 < end /\ Goto("copy", "UPG2RUN", cmd.c3 + 1)
            /\ upg2run_done' = upg2run_done
            /\ CopyJob(Move + cmd.c3, Run + cmd.c3,
                       IF upgr_ok /\ HasHdr(Run) /\ ~ Hdr(Run).enc THEN NoCrypt ELSE upgr_key)
  <2>1. at' = "copy" /\ cmd'.c2 = "UPG2RUN" /\ cmd'.c3 = cmd.c3 + 1
    BY <1>11, <1>12, GotoByte DEF C2
  <2>2. cmd'.c3 - 1 = cmd.c3 /\ cmd'.c3 <= N /\ cmd'.c3 > 0
    BY <1>1, <1>2, <1>10, <1>12, <2>1
  <2>3. SectorsBack' = cmd.c3
    BY <2>1, <2>2 DEF SectorsBack
  <2>4. job'.from = Move + cmd.c3 /\ job'.to = Run + cmd.c3 /\ (HasHdr(Run) => job'.key = NoCrypt)
    <3>1. HasHdr(Run) => ~ Hdr(Run).enc
      BY DropIs DEF PlainImages
    <3> QED BY <1>2, <1>12, <3>1 DEF CopyJob
  <2>5. ~ BackAgain'
    BY <1>1, <1>12, <2>1 DEF BackAgain
  <2>6. DropCommand'
    BY <1>2, <1>7, <2>1, <2>2, <2>5 DEF DropCommand
  <2>7. cmd'.c3 # 1
    BY <1>1, <1>2, <2>1
  <2>8. DropCopy'
    BY <1>1, <1>8, <1>12, <2>1, <2>2, <2>4, <2>7 DEF DropCopy, Run, Move
  <2>9. DropInv'
    BY <1>1, <2>1, <2>6, <2>8 DEF DropInv, Move
  <2> QED BY <1>5, <1>6, <2>3, <2>9
<1>13. CASE /\ ~ (cmd.c3 < end) /\ upg2run_done' = TRUE /\ Goto("log", "UPG2RUN", cmd.c3 + 1)
  <2>1. at' = "log" /\ cmd'.c2 = "UPG2RUN" /\ cmd'.c3 = cmd.c3 + 1
    BY <1>11, <1>13, GotoByte DEF C2
  <2>2. SectorsBack' = cmd.c3 + 1
    BY <2>1 DEF SectorsBack
  <2>3. HasHdr(Run) => end = Hdr(Run).size /\ cmd.c3 >= Hdr(Run).size /\ Hdr(Run).size \in Int
    BY <1>2, <1>9, <1>10, <1>13, DropIs
  <2>4. Held(flash', cmd.c3 + 1) = Held(flash, cmd.c3)
    <3>1. ASSUME HasHdr(Run), NEW w \in Images, w = flash[Run].of, NEW i \in 0..w.size - 1
          PROVE  flash'[Run + i] = flash[Run + i]
      <4>1. i < cmd.c3 /\ i \in 0..N /\ Run + i = i
        BY <1>2, <2>3, <3>1, Constants DEF Hdr
      <4> QED BY <1>3, <4>1
    <3>2. Header(flash, Run) => HasHdr(Run)
      BY DropIs
    <3>3. HasHdr(Run) => \A w \in Images : w = flash[Run].of => cmd.c3 >= w.size
      BY <2>3 DEF Hdr
    <3> QED BY <1>1, <1>2, <1>4, <1>11, <3>1, <3>2, <3>3, HeldBack
  <2>5. DropCommand'
    <3>1. Header(flash', Run) => cmd'.c3 >= Hdr(Run)'.size
      BY <1>2, <1>8, <2>1, <2>3
    <3>2. cmd'.c3 > 0 /\ cmd'.c3 <= N + 1
      BY <1>1, <1>2, <2>1
    <3>3. BackAgain'
      BY <1>13 DEF BackAgain
    <3> QED BY <1>7, <2>1, <3>1, <3>2, <3>3 DEF DropCommand, Run
  <2>6. DropCopy'
    BY <2>1 DEF DropCopy
  <2>7. DropInv'
    BY <1>1, <2>1, <2>5, <2>6 DEF DropInv, Move
  <2> QED BY <1>6, <2>2, <2>4, <2>7
<1> QED BY <1>9, <1>12, <1>13

LEMMA DropCopies ==
  ASSUME DropTyped, DropInv, DroppingBack, Copy
  PROVE  DropInv' /\ Held(flash', SectorsBack') = Held(flash, SectorsBack)
<1> DEFINE k == cmd.c3 - 1
<1>1. /\ at = "copy" /\ at' = "log" /\ cmd' = cmd /\ cmd.c2 = "UPG2RUN" /\ dfu' = None
      /\ upgr_slt' = Move /\ upgr_ok' = upgr_ok /\ upg2run_done' = upg2run_done
  BY DropIs DEF Copy, DropInv, DropCommand
<1>2. DropCopy /\ DropCommand
  BY DEF DropInv
<1>3. /\ ~ upg2run_done /\ cmd.c3 > 0 /\ cmd.c3 <= N /\ cmd.c3 \in Int
      /\ N \in Int /\ Run = 0 /\ Move = 1
  BY <1>1, <1>2, DropIs DEF DropCopy, BackAgain
<1>4. PICK j \in Int : j = k /\ 0 <= j /\ j < N /\ cmd.c3 = j + 1 /\ j + 1 \in 0..N /\ j \in 0..N
  BY <1>3
<1>5. SectorsBack = j /\ SectorsBack' = j + 1
  BY <1>1, <1>4 DEF SectorsBack
<1>6. job.from = Move + j /\ job.to = Run + j
  BY <1>1, <1>2, <1>4 DEF DropCopy
<1> HIDE DEF k
<1>7. PICK x : x = Crypted(flash[job.from], job.key)
  OBVIOUS
<1>8. /\ \A i \in 0..N : i # j => flash'[i] = flash[i]
      /\ flash'[Run + j] = x
  <2>1. flash' = [flash EXCEPT ![j] = x]
    BY <1>3, <1>6, <1>7 DEF Copy
  <2>2. \A i \in 0..N : i \in DOMAIN flash
    BY DropIs, CellsAre
  <2> QED BY <1>3, <1>4, <2>1, <2>2
<1>9. Held(flash', j + 1) = Held(flash, j)
  <2>1. CASE job.key = NoCrypt
    <3>1. x = flash[Move + j]
      BY <1>6, <1>7, <2>1 DEF Crypted
    <3> QED BY <1>4, <1>8, <3>1, HeldMoved
  <2>2. CASE job.key # NoCrypt
    <3>1. cmd.c3 # 1 /\ ~ Header(flash, Run)
      BY <1>1, <1>2, <2>2 DEF DropCopy
    <3>2. 0 < j /\ flash'[Run] = flash[Run]
      BY <1>3, <1>4, <1>8, <3>1, DropIs
    <3> QED BY <1>4, <3>1, <3>2, HeldBack
  <2> QED BY <2>1, <2>2
<1>10. DropCommand'
  BY <1>1, <1>2, <1>3 DEF DropCommand, BackAgain
<1>11. DropInv'
  BY <1>1, <1>10 DEF DropInv, DropCopy, Move
<1> QED BY <1>5, <1>9, <1>11

(* The end: the commands that copy nothing, and the confirmation.          *)
LEMMA DropEnds ==
  ASSUME DropTyped, DropInv, DroppingBack, Upg2RunSkip \/ Finalise
  PROVE  DropInv' /\ Held(flash', SectorsBack') = Held(flash, SectorsBack)
<1>1. /\ at = "cmd" /\ flash' = flash /\ dfu' = None /\ upgr_slt' = Move
      /\ upgr_ok' = upgr_ok /\ cmd.c3 \in 0..255
  BY DropIs DEF Upg2RunSkip, Finalise
<1>2. BackAgain
  BY DEF BackAgain, Upg2RunSkip, Finalise
<1>3. cmd.c3 > 0 /\ cmd.c3 <= N + 1 /\ (Header(flash, Run) => cmd.c3 >= Hdr(Run).size)
  BY <1>2, DropIs
<1>4. \/ Goto("log", "FINALISE", cmd.c3)
      \/ Goto("log", "SWP_END", cmd.c3)
      \/ Goto("unsign", "SWP_END", cmd.c3)
  BY DropIs DEF Upg2RunSkip, Finalise
<1>5. /\ cmd'.c3 = cmd.c3 /\ cmd'.c2 \in {"FINALISE", "SWP_END"}
      /\ at' = "log" \/ (at' = "unsign" /\ cmd'.c2 = "SWP_END")
  <2>1. "FINALISE" \in C2 /\ "SWP_END" \in C2 /\ cmd.c3 \in Int /\ 0 <= cmd.c3 /\ cmd.c3 <= 255
    BY <1>1 DEF C2
  <2> QED BY <1>4, <2>1, GotoByte
<1>6. SectorsBack' = SectorsBack
  BY <1>1, <1>5 DEF SectorsBack
<1>7. Hdr(Run)' = Hdr(Run)
  BY <1>1 DEF Hdr, Run
<1>8. DropCommand'
  BY <1>1, <1>3, <1>5, <1>7 DEF DropCommand, BackAgain, Run
<1>9. DropInv'
  BY <1>1, <1>5, <1>8 DEF DropInv, DropCopy, Move
<1> QED BY <1>1, <1>6, <1>9

LEMMA DropVerifies ==
  ASSUME DropTyped, DropInv, DroppingBack, EraseVerify \/ WriteVerify
  PROVE  DropInv' /\ Held(flash', SectorsBack') = Held(flash, SectorsBack)
<1>1. /\ dfu = None /\ dfu' = None /\ at \in {"unsign", "sign"} /\ cmd.c2 = "SWP_END"
      /\ at' \in {"sign", "log"} /\ cmd' = cmd /\ upgr_slt' = Move /\ upgr_ok' = upgr_ok
      /\ cmd.c3 \in 0..255
  BY DropIs DEF EraseVerify, WriteVerify, session, DropInv
<1>2. BackAgain
  BY <1>1 DEF BackAgain
<1>3. cmd.c3 > 0 /\ cmd.c3 <= N + 1 /\ (HasHdr(Run) => cmd.c3 >= Hdr(Run).size)
  BY <1>2, DropIs
<1>4. \A i \in 0..N - 1 : flash'[i] = flash[i]
  <2>1. \E x : flash' = [flash EXCEPT ![N] = x]
    BY DEF EraseVerify, WriteVerify, Verify
  <2>2. PICK x : flash' = [flash EXCEPT ![N] = x]
    BY <2>1
  <2>3. \A i \in 0..N - 1 : i \in DOMAIN flash /\ i # N
    BY DropIs, CellsAre, Constants
  <2> QED BY <2>2, <2>3
<1>5. flash'[Run] = flash[Run]
  <2>1. Run \in 0..N - 1
    BY DropIs
  <2> QED BY <1>4, <2>1
<1>6. Held(flash', cmd.c3) = Held(flash, cmd.c3)
  <2>1. ASSUME NEW w \in Images, NEW i \in 0..w.size - 1
        PROVE  flash'[Run + i] = flash[Run + i]
    <3>1. Run + i \in 0..N - 1
      BY DropIs, Constants
    <3> QED BY <1>4, <3>1
  <2>2. Header(flash, Run) => \A w \in Images : w = flash[Run].of => cmd.c3 >= w.size
    BY <1>3, DropIs DEF Hdr
  <2>3. PICK k \in Int : k = cmd.c3 /\ 0 < k
    BY <1>1, <1>3
  <2>4. \A w \in Images : w = flash[Run].of /\ Header(flash, Run) => k >= w.size
    BY <2>2, <2>3
  <2>5. Held(flash', k) = Held(flash, k)
    BY <1>5, <2>1, <2>3, <2>4, HeldBack
  <2> QED BY <2>3, <2>5
<1>7. SectorsBack = cmd.c3 /\ SectorsBack' = cmd.c3
  BY <1>1 DEF SectorsBack
<1>8. DropCommand'
  <2>1. Header(flash', Run) = Header(flash, Run) /\ Hdr(Run)' = Hdr(Run)
    BY <1>5 DEF Header, Hdr, Run
  <2>2. Header(flash, Run) <=> HasHdr(Run)
    BY DropIs
  <2> QED BY <1>1, <1>3, <2>1, <2>2 DEF DropCommand, BackAgain, Run
<1>9. DropInv'
  BY <1>1, <1>8 DEF DropInv, DropCopy, Move
<1> QED BY <1>6, <1>7, <1>9

LEMMA DropLogs ==
  ASSUME DropTyped, DropInv, DroppingBack, WriteLog, DroppingBack'
  PROVE  DropInv' /\ Held(flash', SectorsBack') = Held(flash, SectorsBack)
<1>1. flash' = flash /\ dfu' = None /\ at = "log"
  BY DropIs DEF WriteLog
<1>2. ~ NoSession
  BY <1>1, SameLayout DEF NoSession, DroppingBack
<1>3. at' = "cmd" /\ cmd.c2 # "SWP_END" /\ UNCHANGED session
  BY <1>2 DEF WriteLog, JumpRun
<1>4. cmd' = cmd /\ upgr_slt' = Move /\ upgr_ok' = upgr_ok /\ upg2run_done' = upg2run_done
  BY <1>3, DropIs DEF session
<1>5. SectorsBack' = SectorsBack
  BY <1>1, <1>3, <1>4 DEF SectorsBack
<1>6. DropCommand
  BY DEF DropInv
<1>7. DropCommand'
  <2>1. Hdr(Run)' = Hdr(Run)
    BY <1>1 DEF Hdr, Run
  <2> QED BY <1>1, <1>3, <1>4, <1>6, <2>1 DEF DropCommand, BackAgain, Run
<1>8. DropInv'
  BY <1>1, <1>3, <1>4, <1>7 DEF DropInv, DropCopy, Move
<1> QED BY <1>1, <1>5, <1>8

(* A drop back begins when the upgrade image is refused, and only then.    *)
LEMMA DropBegins ==
  ASSUME DropTyped, ~ DroppingBack, DroppingBack', [Next]_vars
  PROVE  DropInv'
<1>1. InPlace' = InPlace
  <2>1. DOMAIN flash' = DOMAIN flash
    BY StepDomain
  <2> QED BY <2>1, SameLayout
<1>2. ~ InPlace /\ ~ in_place /\ in_place'
  BY <1>1 DEF DroppingBack
<1>3. ~ NoSession
  BY <1>1, <1>2 DEF NoSession
<1>4. Upg2RunFirst
  BY <1>2, <1>3 DEF Next, Step, Environment, vars, session, Boot, SwapStart, JumpRun, WipeLog,
     StartMove, Run2Mov, Upg2RunNext, Upg2RunSkip, Mov2Upg, Mov2UpgSkip, Copy, Finalise, WriteLog,
     EraseVerify, WriteVerify, UploadSector, UploadDone, AppConfirm, AppLeaves, UploadStart,
     Reset, PowerLoss
<1>5. /\ upgr_slt' = Move /\ Goto("log", "UPG2RUN", 0) /\ ~ upg2run_done'
      /\ dfu' = None
  BY <1>2, <1>4 DEF Upg2RunFirst, DropTyped
<1>6. at' = "log" /\ cmd'.c2 = "UPG2RUN" /\ cmd'.c3 = 0
  <2>1. Goto("log", "UPG2RUN", 0) /\ "UPG2RUN" \in C2 /\ 0 \in Int
    BY <1>5 DEF C2
  <2> QED BY <2>1, GotoByte
<1>7. DropCommand' /\ DropCopy'
  BY <1>5, <1>6, Constants DEF DropCommand, DropCopy, BackAgain
<1> QED BY <1>5, <1>6, <1>7 DEF DropInv, Move

(* A step of a drop back.                                                  *)
LEMMA DropGoesOn ==
  ASSUME PlainImages, DropTyped, DropInv, DroppingBack, DroppingBack', [Next]_vars
  PROVE  DropInv' /\ Held(flash', SectorsBack') = Held(flash, SectorsBack)
<1>1. CASE UNCHANGED vars
  BY <1>1 DEF vars, session, DropInv, DropCommand, DropCopy, BackAgain, Header, Hdr, SectorsBack,
     DroppingBack, InPlace, Move, Run
<1>2. ASSUME Next
      PROVE  \/ Upg2RunFirst \/ Upg2RunNext \/ Upg2RunSkip \/ Copy \/ Finalise
             \/ EraseVerify \/ WriteVerify \/ WriteLog
  <2>1. /\ at \in {"cmd", "copy", "log", "unsign", "sign"}
        /\ cmd.c2 \notin {"EMPTY", "RUN2MOV", "MOV2UPG"}
    BY DropIs DEF DropInv
  <2>2. ~ PowerLoss
    <3>1. InPlace' = InPlace
      BY StepDomain, SameLayout
    <3>2. ~ NoSession
      BY <3>1 DEF NoSession, DroppingBack
    <3> QED BY <3>2 DEF PowerLoss
  <2> QED BY <1>2, <2>1, <2>2 DEF Next, Step, Environment, Boot, SwapStart, WipeLog, StartMove,
     Run2Mov, Mov2Upg, Mov2UpgSkip, UploadSector, UploadDone, AppConfirm, AppLeaves, UploadStart,
     Reset
<1> QED BY <1>1, <1>2, DropFirst, DropNext, DropCopies, DropEnds, DropVerifies, DropLogs

LEMMA DropStep ==
  ASSUME PlainImages, DropTyped, DropInv, [Next]_vars
  PROVE  /\ DropTyped' /\ DropInv'
         /\ DroppingBack /\ DroppingBack' => Whole(DroppedBack)' = Whole(DroppedBack)
<1>1. DropTyped'
  BY StepTypes
<1>2. CASE ~ DroppingBack'
  BY <1>1, <1>2 DEF DropInv
<1>3. CASE DroppingBack' /\ ~ DroppingBack
  BY <1>1, <1>3, DropBegins
<1>4. CASE DroppingBack' /\ DroppingBack
  <2>1. DropInv' /\ Held(flash', SectorsBack') = Held(flash, SectorsBack)
    BY <1>4, DropGoesOn
  <2> QED BY <1>1, <2>1, HeldIs
<1> QED BY <1>2, <1>3, <1>4

LEMMA InitDrops ==
  ASSUME Init
  PROVE  DropTyped /\ DropInv
<1>1. PICK m \in Factory \cup {None}, in_pl \in Layouts :
        flash = [s \in Address(in_pl) |->
                  IF m # None /\ s < m.size THEN Sec(m, s, RunForm(m))
                  ELSE IF m # None /\ s = Verify
                  THEN Crc([i \in 0..m.size - 1 |-> Sec(m, i, RunForm(m))])
                  ELSE Blank]
  BY DEF Init
<1>2. DOMAIN flash = 0..N \/ DOMAIN flash = 0..2 * N
  BY <1>1 DEF Address
<1>3. ASSUME NEW s \in DOMAIN flash
      PROVE  Cell(flash[s])
  <2>1. s \in Int /\ 0 <= s
    BY <1>2, Constants
  <2>2. CASE m # None /\ s < m.size
    <3>1. m \in Images
      BY <2>2, ImagesAssumption
    <3>2. s \in 0..N - 1
      BY <2>1, <2>2, <3>1, Constants
    <3>3. Cell(Sec(m, s, RunForm(m)))
      BY <3>1, <3>2, FormIs, CellIs
    <3> QED BY <1>1, <2>2, <3>3
  <2>3. CASE ~ (m # None /\ s < m.size)
    <3>1. flash[s] = Blank \/ \E w : flash[s] = Crc(w)
      BY <1>1, <2>3
    <3> QED BY <3>1, CellIs
  <2> QED BY <2>2, <2>3
<1>4. cmd \in LoggedCmd
  BY CommandIs DEF Init, LoggedCmd
<1>5. ~ DroppingBack
  BY DEF Init, DroppingBack
<1>6. DropTyped
  <2>1. Cells(flash)
    BY <1>2, <1>3 DEF Cells
  <2>2. log \in Seq({Torn} \cup LoggedCmd)
    BY DEF Init
  <2> QED BY <1>4, <2>1, <2>2 DEF Init, DropTyped
<1> QED BY <1>5, <1>6 DEF DropInv

(* The old image is not lost while it is dropped back: from the refusal of *)
(* the upgrade image to the end of the swap or the next power failure it   *)
(* can be put together from the sectors of the run slot that are back and  *)
(* the ones in the move slot, whatever failed before, whether or not the   *)
(* dependencies are met again, and with a log that is full or torn.  After *)
(* a power failure the swap no longer knows that it was dropping back: the *)
(* property and the theorem end there.                                     *)
THEOREM DropsBackWhole == PlainImages /\ Spec => OldImageBack
<1> SUFFICES ASSUME PlainImages
             PROVE  Spec => OldImageBack
  OBVIOUS
<1> DEFINE Same == Whole(DroppedBack)' = Whole(DroppedBack)
<1>1. Init => DropTyped /\ DropInv
  BY InitDrops
<1>2. DropTyped /\ DropInv /\ [Next]_vars => (DropTyped /\ DropInv)'
  BY DropStep
<1>3. DropTyped /\ DropInv /\ [Next]_vars => [DroppingBack /\ DroppingBack' => Same]_vars
  BY DropStep
<1> HIDE DEF Same
<1>4. Spec => [][DroppingBack /\ DroppingBack' => Same]_vars
  BY <1>1, <1>2, <1>3, PTL DEF Spec
<1> QED BY <1>4 DEF OldImageBack, Same
=============================================================================
