--------------------------------- MODULE ZbDfu ------------------------------
(***************************************************************************)
(* The reception of an image: the control point and packet characteristic  *)
(* of nrf_dfu.c, and the block buffer of zb8_dfu.c that they fill.         *)
(*                                                                         *)
(* A unit stands for a number of bytes that divides a packet, the buffer   *)
(* and the image header; unit i of image m is <<m, i>>.  The nrf_dfu.c of  *)
(* the loader flushes the buffer when the last packet has come, that of    *)
(* the application (variant "app") when it is told to activate the image.  *)
(***************************************************************************)
EXTENDS Integers, Sequences

CONSTANTS
  Areas, InPlace,   \* slot areas, and those without a verify slot
  Images, None,
  Target(_),        \* the area of hdr.upload_offset, None if there is none
  HdrLen,           \* units of the header that is looked at
  Buf,              \* CONFIG_ZB_EIGHT_DFU_BLOCK_BUF_SIZE, in units
  Sector,           \* units in a sector
  SlotSize,         \* units in the upgrade slot of each area
  Lens,             \* units in a packet
  Sizes,            \* image sizes a peer may announce
  W                 \* exp_size is an unsigned number below W

ASSUME DfuAssumption ==
  /\ Areas # {} /\ InPlace \subseteq Areas /\ None \notin Areas \cup Images
  /\ \A m \in Images : Target(m) \in Areas \cup {None}
  /\ {HdrLen, Buf, Sector, W} \subseteq Nat \ {0}
  /\ SlotSize \in [Areas -> Nat \ {0}]
  /\ HdrLen <= Buf /\ Lens \subseteq 0..Buf
  /\ Sector % Buf = 0 /\ Sizes \subseteq 0..W - 1
  /\ \A a \in Areas : SlotSize[a] % Sector = 0 /\ W > SlotSize[a] + 2 * Buf

VARIABLES
  upgrade, verify,            \* flash: upgrade and verify slot of each area
  variant,                    \* which nrf_dfu.c
  state, exp_size, img_offset,
  buf, wr_offset, sm_idx,     \* ctx; Len(buf) is ctx.buf_offset
  at, caller, rest, err,      \* the call that is running
  image                       \* what the peer sends since the last start

flash == <<upgrade, verify>>
ctx   == <<buf, wr_offset, sm_idx>>
call  == <<caller, rest, err>>
proto == <<state, exp_size, img_offset>>
vars  == <<flash, variant, proto, ctx, at, call, image>>

Blank   == <<>>
Garbage == <<None>>
Unit    == {Blank, Garbage} \cup (Images \X Nat)
Pos(a)  == 0..SlotSize[a] - 1
States  == {"none", "wait_start_pkt", "started", "wait_init_pkt", "recv",
            "recv_done", "validate"}

Init ==
  /\ upgrade = [a \in Areas |-> [i \in Pos(a) |-> Garbage]]
  /\ verify = [a \in Areas |-> "signed"]
  /\ variant \in {"loader", "app"}
  /\ state = "none" /\ exp_size = 0 /\ img_offset = 0
  /\ buf = <<>> /\ wr_offset = 0 /\ sm_idx = None
  /\ at = "idle" /\ caller = "none" /\ rest = <<>> /\ err = FALSE
  /\ image = None

-----------------------------------------------------------------------------
(* write_control, one action per opcode.  What does not fit the state      *)
(* resets it and disconnects; a disconnection by itself resets nothing.    *)
Start(m) ==
  /\ at = "idle"
  /\ state' = "wait_start_pkt" /\ exp_size' = 0 /\ img_offset' = 0
  /\ image' = m
  /\ UNCHANGED <<flash, variant, ctx, at, call>>

Opcode(expected, next) ==
  /\ at = "idle"
  /\ state' = IF state = expected THEN next ELSE "none"
  /\ UNCHANGED <<flash, variant, exp_size, img_offset, ctx, at, call, image>>

InitPacket == Opcode("started", "wait_init_pkt")
ReceiveImage == Opcode("started", "recv")
Validate == Opcode("recv_done", "validate")

\* Mutant: the application does not flush.
Activate_NoFlush ==
  /\ at = "idle"
  /\ state' = "none"
  /\ at' = IF state # "validate" THEN "idle" ELSE "swapper"
  /\ UNCHANGED <<call, flash, variant, exp_size, img_offset, ctx, image>>

(* reset_to_app; that of the application flushes first.                   *)
FlushesFirst == variant = "app" /\ buf # <<>>

Activate ==
  /\ at = "idle"
  /\ state' = "none"
  /\ \/ state # "validate" /\ UNCHANGED <<at, call>>
     \/ /\ state = "validate" /\ ~FlushesFirst
        /\ at' = "swapper" /\ UNCHANGED call
     \/ /\ state = "validate" /\ FlushesFirst
        /\ at' = "flush" /\ caller' = "activate" /\ UNCHANGED <<rest, err>>
  /\ UNCHANGED <<flash, variant, exp_size, img_offset, ctx, image>>

(* write_packet, by the state it is called in                              *)
StartPacket ==
  /\ at = "idle" /\ state = "wait_start_pkt"
  /\ exp_size' \in Sizes
  /\ state' \in {"started", "none"}          \* none: it has another length
  /\ img_offset' = 0
  /\ UNCHANGED <<flash, variant, ctx, at, call, image>>

InitData ==
  /\ at = "idle" /\ state = "wait_init_pkt"
  /\ state' \in {"started", "none"}
  /\ UNCHANGED <<flash, variant, exp_size, img_offset, ctx, at, call, image>>

(* The end of write_packet once all that had to be flushed has been.       *)
Received(size, failed) ==
  /\ at' = "idle" /\ caller' = "none" /\ rest' = <<>> /\ err' = FALSE
  /\ state' = IF failed THEN "none"
              ELSE IF size = 0 THEN "recv_done" ELSE state

(* receive_done, which is zb_dfu_receive_flush, if all has been received   *)
AfterReceive(size, b, failed) ==
  IF size = 0 /\ variant = "loader" /\ b # <<>>
    THEN /\ at' = "flush" /\ caller' = "receive_done"
         /\ rest' = <<>> /\ err' = failed /\ UNCHANGED state
    ELSE Received(size, failed)

(* zb_dfu_receive empties the buffer at offset 0.                          *)
\* Mutant: the buffer goes on where the last upload stopped.
CtxAt_NoReset(offset) == [buf |-> buf, wr |-> wr_offset]

CtxAt(offset) == IF offset = 0 THEN [buf |-> <<>>, wr |-> 0]
                 ELSE [buf |-> buf, wr |-> wr_offset]

(* A packet of the image.  Sizes are counted after the receive callback,   *)
(* which does not read them.                                               *)
DataPacket(len) ==
  LET data == [k \in 1..len |-> <<image, img_offset + k - 1>>]
      c    == CtxAt(img_offset)
      plen == Buf - Len(c.buf)
      size == (exp_size - len) % W
  IN  /\ at = "idle" /\ state = "recv"
      /\ exp_size' = size /\ img_offset' = img_offset + len
      /\ wr_offset' = c.wr
      /\ IF Len(c.buf) + len >= Buf
           THEN /\ buf' = c.buf \o SubSeq(data, 1, plen)
                /\ rest' = SubSeq(data, plen + 1, len)
                /\ at' = "flush" /\ caller' = "receive"
                /\ UNCHANGED <<err, state>>
           ELSE /\ buf' = c.buf \o data
                /\ AfterReceive(size, buf', FALSE)
      /\ UNCHANGED <<flash, variant, sm_idx, image>>

-----------------------------------------------------------------------------
(* flush_flash_img_ctx                                                     *)

(* It returns to zb_dfu_receive, receive_done or reset_to_app.             *)
\* Mutant: buf_offset is not reset.
FlushReturns_KeepsBuffer(rc) ==
  /\ buf' = buf \o rest
  /\ AfterReceive(exp_size, buf', rc # 0)

FlushReturns(rc) ==
  \/ /\ caller = "receive"
     /\ buf' = IF rc = 0 THEN rest ELSE buf
     /\ AfterReceive(exp_size, buf', rc # 0)
  \/ /\ caller = "receive_done"
     /\ buf' = IF rc = 0 THEN <<>> ELSE buf
     /\ Received(exp_size, err \/ rc # 0)
  \/ /\ caller = "activate"                   \* the result is ignored
     /\ buf' = IF rc = 0 THEN <<>> ELSE buf
     /\ at' = "swapper" /\ caller' = "none"
     /\ UNCHANGED <<rest, err, state>>

NextStep(wr) == IF wr % Sector = 0 THEN "erase" ELSE "write"

Accepted == Len(buf) >= HdrLen /\ Target(buf[1][1]) # None

\* Mutant: the slot is looked for once.
FlushFirst_SlotKept ==
  /\ at = "flush" /\ wr_offset = 0 /\ Accepted
  /\ sm_idx' = IF sm_idx = None THEN Target(buf[1][1]) ELSE sm_idx
  /\ at' = IF sm_idx' \in InPlace THEN "erase" ELSE "verify"
  /\ UNCHANGED <<flash, variant, proto, buf, wr_offset, call, image>>

FlushFirst ==
  /\ at = "flush" /\ wr_offset = 0 /\ Accepted
  /\ sm_idx' = Target(buf[1][1])
  /\ at' = IF sm_idx' \in InPlace THEN "erase" ELSE "verify"
  /\ UNCHANGED <<flash, variant, proto, buf, wr_offset, call, image>>

FlushRefused ==
  /\ at = "flush" /\ wr_offset = 0 /\ ~Accepted
  /\ FlushReturns(-1)
  /\ UNCHANGED <<flash, variant, exp_size, img_offset, wr_offset, sm_idx,
                 image>>

FlushNext ==
  /\ at = "flush" /\ wr_offset # 0
  /\ at' = NextStep(wr_offset)
  /\ UNCHANGED <<flash, variant, proto, ctx, call, image>>

EraseVerify ==
  /\ at = "verify"
  /\ verify' = [verify EXCEPT ![sm_idx] = "blank"]
  /\ at' = "erase"
  /\ UNCHANGED <<upgrade, variant, proto, ctx, call, image>>

Erased(slot) == [i \in DOMAIN slot |-> IF i \in wr_offset..wr_offset + Sector - 1
                                       THEN Blank ELSE slot[i]]

Fits(len) == wr_offset + len <= SlotSize[sm_idx]

EraseSector ==
  /\ at = "erase" /\ Fits(Sector)
  /\ upgrade' = [upgrade EXCEPT ![sm_idx] = Erased(@)]
  /\ at' = "write"
  /\ UNCHANGED <<verify, variant, proto, ctx, call, image>>

(* zb_erase and zb_write refuse what lies behind the slot.                 *)
SlotEnds ==
  /\ \/ at = "erase" /\ ~Fits(Sector)
     \/ at = "write" /\ ~Fits(Buf)
  /\ FlushReturns(-1)
  /\ UNCHANGED <<flash, variant, exp_size, img_offset, wr_offset, sm_idx,
                 image>>

(* The whole buffer is written; behind buf_offset it is as if erased.      *)
Written(slot) ==
  [i \in DOMAIN slot |->
     LET k == i - wr_offset + 1
     IN  IF k \notin 1..Len(buf) THEN slot[i]
         ELSE IF slot[i] = Blank THEN buf[k] ELSE Garbage]

WriteBlock ==
  /\ at = "write" /\ Fits(Buf)
  /\ upgrade' = [upgrade EXCEPT ![sm_idx] = Written(@)]
  /\ wr_offset' = wr_offset + Len(buf)
  /\ FlushReturns(0)
  /\ UNCHANGED <<verify, variant, exp_size, img_offset, sm_idx, image>>

-----------------------------------------------------------------------------
(* A restart.  The loader or the application comes up again, perhaps after *)
(* the swapper has moved the upgrade slots and signed what runs.           *)
RamLost ==
  /\ variant' \in {"loader", "app"}
  /\ state' = "none" /\ exp_size' = 0 /\ img_offset' = 0
  /\ buf' = <<>> /\ wr_offset' = 0 /\ sm_idx' = None
  /\ at' = "idle" /\ caller' = "none" /\ rest' = <<>> /\ err' = FALSE
  /\ image' = None

Swapped ==
  /\ at = "swapper"
  /\ verify' = [a \in Areas |-> "signed"]
  /\ upgrade' = [a \in Areas |-> [i \in Pos(a) |-> Garbage]]
  /\ RamLost

(* Power fails; the erase or write under way is cut off.                   *)
PowerLoss ==
  /\ \/ UNCHANGED flash
     \/ /\ at = "verify" /\ UNCHANGED upgrade
        /\ verify' = [verify EXCEPT ![sm_idx] = "torn"]
     \/ /\ at = "erase" /\ Fits(Sector) /\ UNCHANGED verify
        /\ upgrade' = [upgrade EXCEPT ![sm_idx] =
             [i \in DOMAIN @ |-> IF Erased(@)[i] = @[i] THEN @[i] ELSE Garbage]]
     \/ /\ at = "write" /\ Fits(Buf) /\ UNCHANGED verify
        /\ upgrade' = [upgrade EXCEPT ![sm_idx] =
             [i \in DOMAIN @ |-> IF Written(@)[i] = @[i] THEN @[i] ELSE Garbage]]
  /\ RamLost

Control == \/ \E m \in Images : Start(m)
           \/ InitPacket \/ ReceiveImage \/ Validate \/ Activate
Packet  == StartPacket \/ InitData \/ \E len \in Lens : DataPacket(len)
Flush   == FlushFirst \/ FlushRefused \/ FlushNext \/ EraseVerify
           \/ EraseSector \/ SlotEnds \/ WriteBlock

Next == Control \/ Packet \/ Flush \/ Swapped \/ PowerLoss

Spec == Init /\ [][Next]_vars

-----------------------------------------------------------------------------
(* Every variable has its type; ctx.buf is never filled beyond its size.   *)
TypeOK ==
  /\ \A a \in Areas : upgrade[a] \in [Pos(a) -> Unit]
  /\ verify \in [Areas -> {"signed", "blank", "torn"}]
  /\ variant \in {"loader", "app"}
  /\ state \in States /\ exp_size \in 0..W - 1
  /\ img_offset \in 0..W - 1
  /\ buf \in Seq(Unit) /\ Len(buf) <= Buf
  /\ wr_offset \in 0..W - 1 /\ sm_idx \in Areas \cup {None}
  /\ at \in {"idle", "flush", "verify", "erase", "write", "swapper"}
  /\ caller \in {"none", "receive", "receive_done", "activate"}
  /\ rest \in Seq(Unit)
  /\ err \in BOOLEAN /\ image \in Images \cup {None}

(* The first n units of the image are in its upgrade slot.                 *)
Stored(n) ==
  n > 0 => /\ image # None /\ Target(image) # None
           /\ n <= SlotSize[Target(image)]
           /\ \A i \in 0..n - 1 : upgrade[Target(image)][i] = <<image, i>>

(* Between two writes of the peer, all it has sent of this image is in     *)
(* flash or in the buffer, in order and once, whatever uploads were given  *)
(* up before.  In particular what "recv_done" reports has been received.   *)
NothingSkipped ==
  at = "idle" /\ state \in {"recv", "recv_done", "validate"}
    /\ img_offset > 0 =>
       /\ wr_offset + Len(buf) = img_offset
       /\ Stored(wr_offset)
       /\ \A k \in 1..Len(buf) : buf[k] = <<image, wr_offset + k - 1>>

(* The swapper is started with the whole image in the upgrade slot, unless *)
(* nothing could have put it there: the application starts it after a      *)
(* flush whose failure it ignores.                                         *)
Installed ==
  at = "swapper" =>
    \/ Stored(img_offset)
    \/ /\ variant = "app"
       /\ \/ Target(image) = None \/ img_offset < HdrLen
          \/ img_offset > SlotSize[Target(image)]

(* Only the slot that the header of the image names is changed, and if it  *)
(* has a verify slot, not before that is erased: an upload that is cut off *)
(* is not taken for the image that was signed.                             *)
Uploading == ~Swapped

OnlyTheSlotNamed ==
  [][Uploading => \A a \in Areas :
       /\ verify'[a] # verify[a] => Target(image) = a
       /\ upgrade'[a] # upgrade[a] =>
            Target(image) = a /\ (a \in InPlace \/ verify[a] = "blank")]_vars
=============================================================================
