-------------------------------- MODULE ZbBoot --------------------------------
(***************************************************************************)
(* How a ZB-8 device starts and updates itself: the first stage loader     *)
(* (zb_fsl_boot, zb_fsl_move), the swapper (main.c), the image in the run  *)
(* slot and the loader, for the first slot area.  A swapper or loader      *)
(* image comes through the run slot: the swapper puts it there, the first  *)
(* stage loader moves it to the area it is for.                            *)
(*                                                                         *)
(* ZbSwap has the swap of the images in detail; here a logged swap is one  *)
(* step that a power failure delays, and images are not encrypted.  An     *)
(* image fills its area.                                                   *)
(***************************************************************************)
EXTENDS Integers, Sequences

CONSTANTS
  Parts,       \* sectors of an area
  Layouts,     \* the upgrade slot is the run slot but one sector (TRUE) or apart
  Images,      \* signed images: name, kind, version, conf
  Delivered,   \* the image of each area when the device is delivered
  Uploads,     \* images that are sent to the device
  MaxLosses,   \* bound: power failures from one upload to the next
  None

ASSUME BootAssumption ==
  /\ Parts \in Nat \ {0, 1} /\ Layouts \subseteq BOOLEAN /\ MaxLosses \in Nat
  /\ \A m \in Images : /\ m.kind \in {"run", "swpr", "ldr"}
                       /\ m.version \in Nat /\ m.conf \in BOOLEAN
  /\ Delivered \in [{"run", "swpr", "ldr"} -> Images]
  /\ \A a \in DOMAIN Delivered : Delivered[a].kind = a
  /\ Uploads \subseteq Images /\ None \notin Images

VARIABLES
  flash,      \* sectors by address; survives power loss
  verify,     \* the run slot content VERIFY has the CRC of, NoCrc; survives
  log,        \* swpstat: "end", or what is left of a swap; survives
  layout,     \* the upgrade slot is in place
  at,         \* what the processor is executing
  ops,        \* operations it has still to do
  confirmed,  \* run_info.confirmed of zb_img_swap
  losses      \* power failures since the last upload began

vars == <<flash, verify, log, layout, at, ops, confirmed, losses>>

-----------------------------------------------------------------------------
Part == 0..Parts - 1

Addr(a, i) == IF a = "upgrade" /\ layout THEN <<"run", i + 1>> ELSE <<a, i>>

Address == ({"swpr", "ldr", "upgrade"} \X Part) \cup ({"run"} \X (0..Parts))

(* Of a first sector that was damaged the header may be intact ("broken"). *)
Piece(m, i) == [of |-> m, part |-> i, form |-> "whole"]
Blank       == [of |-> None, part |-> 0, form |-> "blank"]
Torn        == [of |-> None, part |-> 0, form |-> "torn"]

Damaged(old, new) ==
  {Blank, Torn} \cup {[c EXCEPT !.form = "broken"] :
                        c \in {x \in {old, new} : x.of # None /\ x.part = 0}}

Content(a) == [i \in Part |-> flash[Addr(a, i)]]

Header(a) == flash[Addr(a, 0)]
HasHdr(a) == Header(a).of # None /\ Header(a).part = 0
Image(a)  == Header(a).of

Whole(a) == HasHdr(a) /\ \A i \in Part : Content(a)[i] = Piece(Image(a), i)

(* A CRC32 is right when the content is the one it was computed over.      *)
NoCrc == <<>>

Verified == HasHdr("run") /\ verify = Content("run")

(* The header of area a has a run_offset in area k.                        *)
RunsFrom(a, k) == HasHdr(a) /\ Image(a).kind = k

-----------------------------------------------------------------------------
(* Operations.  An area is erased sector by sector.                        *)
Erase(a, i)    == [op |-> "erase", to |-> Addr(a, i)]
Write(a, i, c) == [op |-> "write", to |-> Addr(a, i), cell |-> c]
Copy(a, b, i)  == [op |-> "copy", from |-> Addr(a, i), to |-> Addr(b, i)]
Unverify       == [op |-> "unverify"]
Sign           == [op |-> "sign"]
Exchange       == [op |-> "exchange"]
Log(what)      == [op |-> "log", what |-> what]

EraseAll(a)   == [i \in 1..Parts |-> Erase(a, i - 1)]
CopyAll(a, b) == [i \in 1..Parts |-> Copy(a, b, i - 1)]

Programmed(to, c) ==
  [flash EXCEPT ![to] = IF @ = Blank THEN c ELSE Torn]

(* The two images change places; without an image in the run slot the      *)
(* first sector of the upgrade slot is erased and left so.  The log has    *)
(* CMD2_FINALISE next.                                                     *)
Exchanged ==
  [x \in Address |->
     CASE x \in {Addr("run", i) : i \in Part} -> flash[Addr("upgrade", x[2])]
       [] x \in {Addr("upgrade", i) : i \in Part} ->
            IF HasHdr("run") THEN flash[Addr("run", x[2])]
            ELSE IF x[2] = 0 THEN Blank ELSE flash[x]
       [] OTHER -> flash[x]]

Execute ==
  LET o == Head(ops)
  IN  /\ ops # <<>> /\ ops' = Tail(ops)
      /\ flash' = CASE o.op = "erase" -> [flash EXCEPT ![o.to] = Blank]
                    [] o.op = "write" -> Programmed(o.to, o.cell)
                    [] o.op = "copy"  -> Programmed(o.to, flash[o.from])
                    [] o.op = "exchange" -> Exchanged
                    [] OTHER -> flash
      /\ verify' = CASE o.op = "unverify" -> NoCrc
                     [] o.op = "sign" -> Content("run")
                     [] OTHER -> verify
      /\ log' = CASE o.op = "log" -> o.what
                  [] o.op = "exchange" -> "finalise"
                  [] OTHER -> log
      /\ UNCHANGED <<layout, at, confirmed, losses>>

(* Power is lost before or in an operation.  An exchange that is cut off   *)
(* is continued: the log says so, and VERIFY is not that of the run slot.  *)
Fsl == at' = "fsl" /\ ops' = <<>> /\ confirmed' = FALSE

PowerLoss ==
  /\ losses < MaxLosses /\ losses' = losses + 1
  /\ LET o == IF ops = <<>> THEN [op |-> "none"] ELSE Head(ops)
     IN  \/ UNCHANGED <<flash, verify>>
         \/ /\ o.op \in {"erase", "write", "copy"}
            /\ \E c \in Damaged(flash[o.to], CASE o.op = "erase" -> Blank
                                               [] o.op = "write" -> o.cell
                                               [] o.op = "copy"  -> flash[o.from]) :
                 flash' = [flash EXCEPT ![o.to] = c]
            /\ UNCHANGED verify
         \/ /\ o.op \in {"unverify", "sign"} /\ verify' = NoCrc
            /\ UNCHANGED flash
  /\ Fsl
  /\ UNCHANGED <<log, layout>>

Ready(place) == at = place /\ ops = <<>>
Keep == UNCHANGED <<flash, verify, log, layout, losses>>

-----------------------------------------------------------------------------
(* zb_fsl_boot: an image whose CRC is right is started, or moved to where  *)
(* it runs; after that, and without one, the swapper is started.  What     *)
(* returns ends in "Starting failed".                                      *)
Jump(k, place) == IF RunsFrom(k, k) THEN place ELSE "dead"

StartRun ==
  /\ Ready("fsl") /\ Verified /\ RunsFrom("run", "run")
  /\ at' = "app"
  /\ Keep /\ UNCHANGED <<ops, confirmed>>

(* Mutant: the image is erased once the first sector has been copied.      *)
MoveOps_Early(a) ==
  EraseAll(a) \o <<Copy("run", a, 0)>> \o <<Erase("run", 0)>>
    \o Tail(CopyAll("run", a)) \o Tail(EraseAll("run"))

(* zb_fsl_move                                                             *)
MoveOps(a) == EraseAll(a) \o CopyAll("run", a) \o EraseAll("run")

(* Mutant: built without a loader.                                         *)
Moved_OnlySwapper == {"swpr"}

Moved == {"swpr", "ldr"}

MoveImage ==
  /\ Ready("fsl") /\ Verified
  /\ \E a \in Moved : RunsFrom("run", a) /\ ops' = MoveOps(a)
  /\ at' = "move"
  /\ Keep /\ UNCHANGED confirmed

StartSwapper ==
  /\ \/ Ready("move")
     \/ /\ Ready("fsl")
        /\ Verified => \A k \in Moved \cup {"run"} : ~ RunsFrom("run", k)
  /\ at' = Jump("swpr", "swapper")
  /\ Keep /\ UNCHANGED <<ops, confirmed>>

-----------------------------------------------------------------------------
(* zb_img_swap, as main of the swapper calls it                            *)

(* img_check_dep, the dependency zb8tool writes: the image now in the area *)
(* has at most the version, that in the run slot the same one if the new   *)
(* image is not confirmed.                                                 *)
DepOk(m) ==
  HasHdr(m.kind) =>
    /\ Image(m.kind).version <= m.version
    /\ (m.kind = "run" /\ ~ m.conf) => Image("run").version = m.version

UpgradeValid == Whole("upgrade") /\ DepOk(Image("upgrade"))

Continues == ~ layout /\ log # "end"

(* Mutant: the image is not exchanged, it is copied over the one there.    *)
SwapOps_NoWayBack ==
  <<Log("exchange")>> \o EraseAll("run") \o CopyAll("upgrade", "run")
    \o <<Log("finalise")>>

SwapOps == <<Log("exchange"), Exchange>>

InPlaceOps ==
  [k \in 1..2 * Parts |-> IF k % 2 = 1 THEN Erase("run", (k - 1) \div 2)
                          ELSE Copy("upgrade", "run", (k - 1) \div 2)]

(* A confirmed image that is moved out of the run slot confirms the one    *)
(* that comes in: run_info.confirmed is not reset.                         *)
OldConfirms == ~ layout /\ HasHdr("run") /\ Image("run").conf

Accept ==
  /\ Ready("swapper") /\ ~ Verified /\ ~ Continues /\ UpgradeValid
  /\ ops' = IF layout THEN InPlaceOps ELSE SwapOps
  /\ at' = "swap" /\ confirmed' = OldConfirms
  /\ Keep

Continue ==
  /\ Ready("swapper") /\ ~ Verified /\ Continues
  /\ at' = "swap"
  /\ \/ /\ log = "exchange" /\ ops' = Tail(SwapOps)
        /\ confirmed' \in {FALSE, OldConfirms}
     \/ log = "finalise" /\ UNCHANGED <<ops, confirmed>>
  /\ Keep

(* CMD2_FINALISE, zb_slt_confirm                                           *)
Finalise ==
  /\ Ready("swap")
  /\ LET signs == /\ HasHdr("run") /\ ~ Verified
                  /\ confirmed \/ Image("run").conf
         end   == IF layout THEN <<>> ELSE <<Log("end")>>
     IN  ops' = IF signs THEN <<Unverify, Sign>> \o end ELSE end
  /\ at' = "swapped"
  /\ Keep /\ UNCHANGED confirmed

JumpRun == at' = Jump("run", "app")

(* main: a swapper or loader image is for the first stage loader.          *)
Swapped ==
  /\ Ready("swapped") \/ (Ready("swapper") /\ Verified)
  /\ IF RunsFrom("run", "swpr") \/ RunsFrom("run", "ldr") THEN Fsl
     ELSE JumpRun /\ UNCHANGED <<ops, confirmed>>
  /\ Keep

BadImage ==
  /\ Ready("swapper") /\ ~ Verified /\ ~ Continues /\ ~ UpgradeValid
  /\ IF layout /\ RunsFrom("ldr", "ldr") THEN at' = "loader" ELSE JumpRun
  /\ Keep /\ UNCHANGED <<ops, confirmed>>

-----------------------------------------------------------------------------
(* The image in the run slot and the loader.  An image that is in place    *)
(* can only be replaced by the loader.                                     *)
Receives == at = "loader" \/ (at = "app" /\ ~ layout)

(* zb_dfu_receive: VERIFY goes first, where it is not in the upgrade slot. *)
Upload(m) ==
  /\ Receives /\ ops = <<>>
  /\ ops' = (IF layout THEN <<>> ELSE <<Unverify>>) \o
              [k \in 1..2 * Parts |->
                 IF k % 2 = 1 THEN Erase("upgrade", (k - 1) \div 2)
                 ELSE Write("upgrade", (k - 1) \div 2, Piece(m, (k - 1) \div 2))]
  /\ losses' = 0
  /\ UNCHANGED <<flash, verify, log, layout, at, confirmed>>

(* zb_dfu_confirm *)
Confirm ==
  /\ Ready("app") /\ ~ Verified
  /\ ops' = <<Unverify, Sign>>
  /\ Keep /\ UNCHANGED <<at, confirmed>>

(* zb_fsl_jump_swpr, zb_fsl_jump_ldr; they return when there is nothing.   *)
JumpTo(k, place) ==
  /\ Ready("app") \/ Ready("loader")
  /\ RunsFrom(k, k) /\ at' = place
  /\ Keep /\ UNCHANGED <<ops, confirmed>>

(* A reset, also in the middle of an upload; what has failed to start is   *)
(* reset by its user, a failed start says so.                              *)
Reset ==
  /\ at \in {"app", "loader", "dead"}
  /\ Fsl /\ Keep

-----------------------------------------------------------------------------
Init ==
  /\ layout \in Layouts
  /\ flash = [x \in Address |->
                IF x[1] \in DOMAIN Delivered /\ x[2] \in Part
                THEN Piece(Delivered[x[1]], x[2]) ELSE Blank]
  /\ verify = [i \in Part |-> Piece(Delivered["run"], i)]
  /\ log = "end" /\ at = "fsl" /\ ops = <<>> /\ confirmed = FALSE /\ losses = 0

Starting == \/ StartRun \/ MoveImage \/ StartSwapper
            \/ Accept \/ Continue \/ Finalise \/ Swapped \/ BadImage

Running == \/ \E m \in Uploads : Upload(m)
           \/ Confirm \/ JumpTo("swpr", "swapper") \/ JumpTo("ldr", "loader")

Next == Starting \/ Execute \/ Running \/ Reset \/ PowerLoss

(* The processor executes, and a device that failed to start is reset.     *)
Spec == /\ Init /\ [][Next]_vars
        /\ WF_vars(Starting \/ Execute) /\ WF_vars(at = "dead" /\ Reset)

-----------------------------------------------------------------------------
(* Neither the first stage loader nor anything else starts a swapper, a    *)
(* loader or an image that is not whole, wherever power fails in its move: *)
(* the headers that are looked at do not tell.                             *)
Home == [swapper |-> "swpr", loader |-> "ldr", app |-> "run"]

StartsWhole == at \in DOMAIN Home => Whole(Home[at])

(* A swapper or loader image that was confirmed gets to the area it is     *)
(* for, however often the move starts anew.                                *)
Confirmed(m) == Verified /\ Image("run") = m
Installed(m) == Whole(m.kind) /\ Image(m.kind) = m

Installs ==
  \A m \in {x \in Images : x.kind # "run"} : Confirmed(m) ~> Installed(m)

(* A device always comes back to an image or a loader that runs, unless a  *)
(* swapper or loader image that stayed in the run slot has a version that  *)
(* the dependency of the image before it does not allow for.               *)
Refused == Whole("upgrade") /\ ~ DepOk(Image("upgrade"))

Recovers == []<>(at \in {"app", "loader"} \/ Refused)
=============================================================================
