----------------------------- MODULE ZbDfuProofs ----------------------------
(***************************************************************************)
(* Proofs about the reception of an image, for every set of images and     *)
(* slot areas, every size of the buffer, the sectors, the slots and the    *)
(* packets, and whenever the device is restarted.                          *)
(***************************************************************************)
EXTENDS ZbDfu, SequenceTheorems, TLAPS

Types ==
  /\ TypeOK
  /\ upgrade = [a \in Areas |-> upgrade[a]]
  /\ Len(rest) <= Buf

Divides(b, n) == n % b = 0

Starts   == {"wait_start_pkt", "started", "wait_init_pkt"}
Receives == {"recv", "recv_done", "validate"}
Flushing == at \in {"flush", "verify", "erase", "write"}

(* The units of image m from unit n on                                     *)
From(s, m, n) == \A k \in 1..Len(s) : s[k] = <<m, n + k - 1>>

(* What is in flash and in the buffer is what was received, and the slot   *)
(* that is written is that of the image.                                   *)
Opened(a) == a \in InPlace \/ verify[a] = "blank"

Held ==
  /\ Stored(wr_offset)
  /\ From(buf, image, wr_offset)
  /\ wr_offset > 0 => sm_idx = Target(image) /\ Opened(sm_idx)

(* The slot is blank from wr_offset to a sector boundary, the next one.    *)
EmptyTo(e) ==
  /\ e \in Nat /\ Divides(Sector, e)
  /\ \A i \in Pos(sm_idx) : i \in wr_offset..e - 1 => upgrade[sm_idx][i] = Blank

Clear ==
  wr_offset > 0 => \E e \in wr_offset..wr_offset + Sector - 1 : EmptyTo(e)

Aligned == Divides(Buf, wr_offset)

(* Between two calls                                                       *)
Idle ==
  /\ at = "idle" => caller = "none" /\ rest = <<>> /\ err = FALSE
  /\ at = "idle" /\ state \in Receives /\ img_offset > 0 =>
       /\ Held /\ wr_offset + Len(buf) = img_offset
       /\ variant = "app" \/ state = "recv" => Aligned /\ Clear
  /\ at = "idle" /\ state \in {"recv_done", "validate"}
       /\ (variant = "loader" \/ img_offset = 0) => buf = <<>>

(* The call that is running                                                *)
Called ==
  \/ /\ caller = "receive" /\ state = "recv" /\ ~err /\ Len(buf) = Buf
     /\ From(rest, image, wr_offset + Len(buf))
  \/ /\ caller = "receive_done" /\ state = "recv" /\ rest = <<>>
     /\ variant = "loader" /\ exp_size = 0
  \/ /\ caller = "activate" /\ state = "none" /\ rest = <<>>
     /\ variant = "app" /\ ~err

(* What it has still to do in the slot                                     *)
Prepared ==
  /\ at = "flush" => Clear
  /\ at # "flush" => sm_idx = Target(image) /\ sm_idx \in Areas
  /\ at = "verify" => wr_offset = 0
  /\ at = "erase" => Divides(Sector, wr_offset) /\ Opened(sm_idx)
  /\ at = "write" =>
       /\ Opened(sm_idx) /\ wr_offset < SlotSize[sm_idx]
       /\ \E e \in wr_offset + 1..wr_offset + Sector : EmptyTo(e)

Running ==
  Flushing =>
    /\ Called /\ Held /\ Aligned /\ image \in Images /\ buf # <<>>
    /\ ~err => wr_offset + Len(buf) + Len(rest) = img_offset
    /\ Prepared

Uploads ==
  /\ state \in Starts => img_offset = 0
  /\ state \in Starts \cup Receives => image \in Images

(* The inductive invariant.                                                *)
IInv == Types /\ Uploads /\ Idle /\ Running /\ Installed

-----------------------------------------------------------------------------
(* Multiples                                                               *)

LEMMA Multiple ==
  ASSUME NEW b \in Nat \ {0}, NEW a \in Int, Divides(b, a)
  PROVE  \E k \in Int : a = k * b
<1>1. a = b * (a \div b) + (a % b) /\ a \div b \in Int
  OBVIOUS
<1> QED BY <1>1 DEF Divides

LEMMA ProductIsMultiple ==
  ASSUME NEW b \in Nat \ {0}, NEW k \in Int
  PROVE  Divides(b, k * b)
  BY DEF Divides

LEMMA MultiplesApart ==
  ASSUME NEW b \in Nat \ {0}, NEW x \in Int, NEW y \in Int,
         Divides(b, x), Divides(b, y), x < y
  PROVE  x + b <= y
<1>1. PICK i \in Int : x = i * b
  BY Multiple
<1>2. PICK j \in Int : y = j * b
  BY Multiple
<1>3. i < j
  <2>1. CASE j <= i
    <3>1. PICK k \in Nat : i = j + k
      <4>1. i - j \in Nat /\ i = j + (i - j)
        BY <2>1
      <4> QED BY <4>1
    <3>2. i * b = j * b + k * b /\ k * b \in Nat
      BY <3>1
    <3> QED BY <1>1, <1>2, <3>2
  <2> QED BY <2>1
<1>4. PICK k \in Nat : j = i + 1 + k
  <2>1. j - (i + 1) \in Nat /\ j = i + 1 + (j - (i + 1))
    BY <1>3
  <2> QED BY <2>1
<1>5. j * b = i * b + b + k * b /\ k * b \in Nat
  BY <1>4
<1> QED BY <1>1, <1>2, <1>5

LEMMA NextMultiple ==
  ASSUME NEW b \in Nat \ {0}, NEW x \in Int, Divides(b, x)
  PROVE  Divides(b, x + b)
<1>1. PICK i \in Int : x = i * b
  BY Multiple
<1>2. x + b = (i + 1) * b /\ i + 1 \in Int
  BY <1>1
<1> QED BY <1>2, ProductIsMultiple

LEMMA MultipleOfMultiple ==
  ASSUME NEW b \in Nat \ {0}, NEW c \in Nat \ {0}, NEW x \in Int,
         Divides(c, x), Divides(b, c)
  PROVE  Divides(b, x)
<1>1. PICK i \in Int : x = i * c
  BY Multiple
<1>2. PICK j \in Int : c = j * b
  BY Multiple
<1>3. x = (i * j) * b /\ i * j \in Int
  BY <1>1, <1>2
<1> QED BY <1>3, ProductIsMultiple

(* What the assumption says of the sizes                                   *)
LEMMA Measures ==
  /\ Buf \in Nat \ {0} /\ Sector \in Nat \ {0} /\ W \in Nat \ {0}
  /\ HdrLen \in Nat \ {0} /\ Divides(Buf, Sector) /\ Buf <= Sector
  /\ 2 * Buf < W
  /\ \A a \in Areas : /\ SlotSize[a] \in Nat \ {0}
                      /\ Divides(Sector, SlotSize[a]) /\ Divides(Buf, SlotSize[a])
                      /\ SlotSize[a] + 2 * Buf < W
<1>1. /\ Buf \in Nat \ {0} /\ Sector \in Nat \ {0} /\ W \in Nat \ {0}
      /\ HdrLen \in Nat \ {0} /\ Divides(Buf, Sector)
  BY DfuAssumption DEF Divides
<1>2. \A a \in Areas : /\ SlotSize[a] \in Nat \ {0}
                       /\ Divides(Sector, SlotSize[a])
                       /\ W > SlotSize[a] + 2 * Buf
  BY DfuAssumption DEF Divides
<1>3. 2 * Buf < W
  <2>1. PICK a \in Areas : TRUE
    BY DfuAssumption
  <2> QED BY <1>1, <1>2, <2>1
<1>4. Buf <= Sector
  <2>1. Divides(Buf, 0)
    BY <1>1 DEF Divides
  <2> QED BY <1>1, <2>1, MultiplesApart
<1>5. ASSUME NEW a \in Areas PROVE Divides(Buf, SlotSize[a])
  BY <1>1, <1>2, MultipleOfMultiple
<1>6. ASSUME NEW a \in Areas PROVE SlotSize[a] + 2 * Buf < W
  BY <1>1, <1>2
<1> QED BY <1>1, <1>2, <1>3, <1>4, <1>5, <1>6

-----------------------------------------------------------------------------
(* Units of an image in a row                                              *)

LEMMA FunctionIsSeq ==
  ASSUME NEW n \in Nat, NEW d \in [1..n -> Unit]
  PROVE  d \in Seq(Unit) /\ Len(d) = n
  OBVIOUS

LEMMA FromData ==
  ASSUME NEW m \in Images, NEW n \in Nat, NEW len \in Nat, NEW d,
         d \in [1..len -> Unit],
         \A k \in 1..len : d[k] = <<m, n + k - 1>>
  PROVE  d \in Seq(Unit) /\ Len(d) = len /\ From(d, m, n)
  BY FunctionIsSeq DEF From

LEMMA FromJoined ==
  ASSUME NEW m, NEW n \in Nat, NEW s \in Seq(Unit), NEW t \in Seq(Unit),
         From(s, m, n), From(t, m, n + Len(s))
  PROVE  /\ s \o t \in Seq(Unit) /\ Len(s \o t) = Len(s) + Len(t)
         /\ From(s \o t, m, n)
<1>1. /\ s \o t \in Seq(Unit) /\ Len(s \o t) = Len(s) + Len(t)
      /\ \A k \in 1..Len(s) + Len(t) :
           (s \o t)[k] = IF k <= Len(s) THEN s[k] ELSE t[k - Len(s)]
      /\ Len(s) \in Nat /\ Len(t) \in Nat
  BY ConcatProperties, LenProperties
<1>2. ASSUME NEW k \in 1..Len(s) + Len(t)
      PROVE  (s \o t)[k] = <<m, n + k - 1>>
  <2>1. CASE k <= Len(s)
    BY <1>1, <2>1 DEF From
  <2>2. CASE k > Len(s)
    <3>1. k - Len(s) \in 1..Len(t) /\ n + Len(s) + (k - Len(s)) - 1 = n + k - 1
      BY <1>1, <2>2
    <3> QED BY <1>1, <2>2, <3>1 DEF From
  <2> QED BY <1>1, <2>1, <2>2
<1> QED BY <1>1, <1>2 DEF From

LEMMA FromParts ==
  ASSUME NEW m, NEW n \in Nat, NEW d \in Seq(Unit), From(d, m, n),
         NEW p \in 0..Len(d)
  PROVE  /\ SubSeq(d, 1, p) \in Seq(Unit) /\ Len(SubSeq(d, 1, p)) = p
         /\ From(SubSeq(d, 1, p), m, n)
         /\ SubSeq(d, p + 1, Len(d)) \in Seq(Unit)
         /\ Len(SubSeq(d, p + 1, Len(d))) = Len(d) - p
         /\ From(SubSeq(d, p + 1, Len(d)), m, n + p)
<1> DEFINE first  == SubSeq(d, 1, p)
           second == SubSeq(d, p + 1, Len(d))
<1>1. Len(d) \in Nat
  BY LenProperties
<1>2. /\ first \in Seq(Unit) /\ Len(first) = p
      /\ \A k \in 1..p : first[k] = d[k]
  BY <1>1, SubSeqProperties
<1>3. /\ second \in Seq(Unit) /\ Len(second) = Len(d) - p
      /\ \A k \in 1..Len(d) - p : second[k] = d[p + k]
  BY <1>1, SubSeqProperties
<1> HIDE DEF first, second
<1>4. From(first, m, n)
  BY <1>1, <1>2 DEF From
<1>5. From(second, m, n + p)
  <2>1. ASSUME NEW k \in 1..Len(d) - p PROVE second[k] = <<m, n + p + k - 1>>
    <3>1. p + k \in 1..Len(d) /\ n + (p + k) - 1 = n + p + k - 1
      BY <1>1
    <3> QED BY <1>3, <3>1 DEF From
  <2> QED BY <1>3, <2>1 DEF From
<1> QED BY <1>2, <1>3, <1>4, <1>5 DEF first, second

-----------------------------------------------------------------------------
(* The control point                                                       *)

LEMMA InitInv == Init => IInv
<1> SUFFICES ASSUME Init PROVE IInv
  OBVIOUS
<1>1. Types
  <2>1. \A a \in Areas : upgrade[a] \in [Pos(a) -> Unit]
    BY DEF Init, Unit
  <2>2. upgrade = [a \in Areas |-> upgrade[a]]
    BY DEF Init
  <2>3. <<>> \in Seq(Unit) /\ Len(<<>>) = 0
    BY EmptySeq
  <2>4. /\ variant \in {"loader", "app"} /\ state \in States
        /\ at = "idle" /\ caller = "none"
        /\ err \in BOOLEAN /\ image = None /\ sm_idx = None
        /\ verify \in [Areas -> {"signed", "blank", "torn"}]
    BY DEF Init, States
  <2>5. /\ exp_size \in 0..W - 1 /\ img_offset \in 0..W - 1
        /\ wr_offset \in 0..W - 1
        /\ buf \in Seq(Unit) /\ Len(buf) <= Buf
        /\ rest \in Seq(Unit) /\ Len(rest) <= Buf
    BY <2>3, Measures DEF Init
  <2> QED BY <2>1, <2>2, <2>4, <2>5 DEF Types, TypeOK
<1>2. Uploads /\ Idle /\ Running /\ Installed
  BY DEF Init, Uploads, Idle, Running, Installed, Flushing, Starts, Receives
<1> QED BY <1>1, <1>2 DEF IInv

(* What only changes the state of the protocol                             *)
LEMMA ControlInv ==
  ASSUME IInv, at = "idle", UNCHANGED <<flash, variant, ctx, at, call>>,
         exp_size' \in 0..W - 1,
         \/ state' \in Starts /\ img_offset' = 0 /\ image' \in Images
         \/ state' = "none" /\ img_offset' \in {img_offset, 0} /\ image' = image
         \/ state' = "recv" /\ state = "started" /\ UNCHANGED <<img_offset, image>>
         \/ /\ state' = "validate" /\ state = "recv_done"
            /\ UNCHANGED <<img_offset, image>>
  PROVE  IInv'
<1>1. Types'
  BY Measures DEF IInv, Types, TypeOK, States, Starts, flash, ctx, call
<1>2. Uploads'
  BY DEF IInv, Uploads, Starts, Receives
<1>3. Idle'
  <2>1. at' = "idle" => caller' = "none" /\ rest' = <<>> /\ err' = FALSE
    BY DEF IInv, Idle, call
  <2>2. CASE state' = "validate"
    BY <2>1, <2>2 DEF IInv, Idle, Held, Stored, From, Opened, Aligned, Clear,
                      EmptyTo, Starts, Receives, flash, ctx
  <2>3. CASE state' = "recv"
    BY <2>1, <2>3 DEF IInv, Idle, Uploads, Starts
  <2> QED BY <2>1, <2>2, <2>3 DEF Idle, Starts, Receives
<1>4. Running' /\ Installed'
  BY DEF Running, Flushing, Installed
<1> QED BY <1>1, <1>2, <1>3, <1>4 DEF IInv

LEMMA OpcodesInv ==
  ASSUME IInv, \/ \E m \in Images : Start(m)
               \/ InitPacket \/ ReceiveImage \/ Validate
               \/ StartPacket \/ InitData
  PROVE  IInv'
<1>1. exp_size \in 0..W - 1 /\ 0 \in 0..W - 1 /\ Sizes \subseteq 0..W - 1
  BY Measures, DfuAssumption DEF IInv, Types, TypeOK
<1>2. state \in Starts => img_offset = 0 /\ image \in Images
  BY DEF IInv, Uploads
<1>3. CASE \E m \in Images : Start(m)
  BY <1>1, <1>3, ControlInv DEF Start, Starts
<1>4. CASE InitPacket
  BY <1>1, <1>2, <1>4, ControlInv DEF InitPacket, Opcode, Starts, call
<1>5. CASE ReceiveImage
  BY <1>1, <1>2, <1>5, ControlInv DEF ReceiveImage, Opcode, Starts, call
<1>6. CASE Validate
  BY <1>1, <1>6, ControlInv DEF Validate, Opcode, call
<1>7. CASE StartPacket
  BY <1>1, <1>2, <1>7, ControlInv DEF StartPacket, Starts
<1>8. CASE InitData
  BY <1>1, <1>2, <1>8, ControlInv DEF InitData, Starts
<1> QED BY <1>3, <1>4, <1>5, <1>6, <1>7, <1>8

(* The swapper is started, or the application flushes first.               *)
LEMMA ActivateInv ==
  ASSUME IInv, Activate
  PROVE  IInv'
<1>1. /\ at = "idle" /\ state' = "none"
      /\ UNCHANGED <<flash, variant, exp_size, img_offset, ctx, image>>
  BY DEF Activate
<1>2. CASE state # "validate"
  BY <1>1, <1>2, ControlInv DEF Activate, IInv, Types, TypeOK
<1>3. CASE state = "validate"
  <2>1. \/ ~FlushesFirst /\ at' = "swapper" /\ UNCHANGED call
        \/ /\ FlushesFirst /\ at' = "flush" /\ caller' = "activate"
           /\ UNCHANGED <<rest, err>>
    BY <1>3 DEF Activate
  <2>2. Types'
    BY <1>1, <2>1 DEF IInv, Types, TypeOK, States, flash, ctx, call
  <2>3. Uploads' /\ Idle'
    BY <1>1, <2>1 DEF Uploads, Idle, Starts, Receives
  <2>4. /\ image \in Images
        /\ rest = <<>> /\ ~err
        /\ variant = "loader" \/ img_offset = 0 => buf = <<>>
        /\ img_offset \in Nat
        /\ img_offset > 0 =>
             /\ Held /\ wr_offset + Len(buf) = img_offset
             /\ variant = "app" => Aligned /\ Clear
    BY <1>1, <1>3 DEF IInv, Uploads, Idle, Receives, Types, TypeOK
  <2>5. CASE FlushesFirst
    <3>1. img_offset > 0 /\ variant = "app" /\ buf # <<>> /\ Len(<<>>) = 0
      BY <2>4, <2>5, EmptySeq DEF FlushesFirst
    <3>2. Len(rest) = 0 /\ wr_offset + Len(buf) + Len(rest) = img_offset
      BY <2>4, <3>1
    <3>3. at' = "flush" /\ caller' = "activate" /\ UNCHANGED <<rest, err>>
      BY <2>1, <2>5
    <3>4. Called'
      BY <1>1, <2>4, <3>1, <3>3 DEF Called
    <3>5. Held' /\ Aligned' /\ Clear'
      BY <1>1, <2>4, <3>1 DEF Held, Stored, From, Opened, Aligned, Clear,
                              EmptyTo, flash, ctx
    <3>6. Running'
      BY <1>1, <2>4, <3>1, <3>2, <3>3, <3>4, <3>5 DEF Running, Prepared, ctx
    <3> QED BY <2>2, <2>3, <3>3, <3>6 DEF IInv, Installed
  <2>6. CASE ~FlushesFirst
    <3>1. at' = "swapper" /\ Running'
      BY <2>1, <2>6 DEF Running, Flushing
    <3>2. variant = "loader" \/ variant = "app"
      BY DEF IInv, Types, TypeOK
    <3>3. buf = <<>> /\ Len(buf) = 0
      BY <2>4, <2>6, <3>2, EmptySeq DEF FlushesFirst
    <3>4. wr_offset = img_offset \/ img_offset = 0
      BY <2>4, <3>3 DEF IInv, Types, TypeOK
    <3>5. Stored(img_offset)
      BY <2>4, <3>4 DEF Held, Stored
    <3>6. Stored(img_offset)'
      BY <1>1, <3>5 DEF Stored, flash
    <3> QED BY <2>2, <2>3, <3>1, <3>6 DEF IInv, Installed
  <2> QED BY <2>5, <2>6
<1> QED BY <1>2, <1>3

-----------------------------------------------------------------------------
(* A packet of the image                                                   *)

gathered == CtxAt(img_offset).buf
position == CtxAt(img_offset).wr

(* zb_dfu_receive finds what was received, or starts anew.                 *)
LEMMA CtxFacts ==
  ASSUME IInv, at = "idle", state = "recv"
  PROVE  /\ gathered \in Seq(Unit) /\ Len(gathered) \in 0..Buf
         /\ position \in Nat /\ position + Len(gathered) = img_offset
         /\ Stored(position) /\ From(gathered, image, position)
         /\ position > 0 => position = wr_offset /\ Held /\ Clear
         /\ Divides(Buf, position) /\ position < W
         /\ position > 0 => image # None /\ Target(image) \in Areas
                        /\ position <= SlotSize[Target(image)]
<1>1. /\ img_offset \in Nat /\ wr_offset \in Nat /\ wr_offset < W
      /\ buf \in Seq(Unit) /\ Len(buf) <= Buf /\ Len(buf) \in Nat
      /\ sm_idx \in Areas \cup {None} /\ None \notin Areas
      /\ image \in Images
      /\ \A m \in Images : Target(m) \in Areas \cup {None}
  BY LenProperties, DfuAssumption, Measures
     DEF IInv, Types, TypeOK, Uploads, Starts, Receives
<1>2. CASE img_offset = 0
  <2>1. gathered = <<>> /\ position = 0
    BY <1>2 DEF CtxAt, gathered, position
  <2>2. Divides(Buf, 0)
    BY Measures DEF Divides
  <2>3. Stored(0) /\ From(<<>>, image, 0)
    BY EmptySeq DEF Stored, From
  <2>4. <<>> \in Seq(Unit) /\ Len(<<>>) = 0
    BY EmptySeq
  <2> QED BY <1>2, <2>1, <2>2, <2>3, <2>4, Measures
<1>3. CASE img_offset # 0
  <2>1. gathered = buf /\ position = wr_offset
    BY <1>3 DEF CtxAt, gathered, position
  <2>2. Held /\ Aligned /\ Clear /\ wr_offset + Len(buf) = img_offset
    BY <1>1, <1>3 DEF IInv, Idle, Receives
  <2>3. /\ Len(buf) \in 0..Buf /\ Stored(wr_offset) /\ From(buf, image, wr_offset)
        /\ Divides(Buf, wr_offset)
    BY <1>1, <2>2, Measures DEF Held, Aligned
  <2>4. wr_offset > 0 => image # None /\ Target(image) \in Areas
                         /\ wr_offset <= SlotSize[Target(image)]
    BY <1>1, <2>3 DEF Stored
  <2> QED BY <1>1, <2>1, <2>2, <2>3, <2>4
<1> QED BY <1>1, <1>2, <1>3

LEMMA DataPacketInv ==
  ASSUME IInv, NEW len \in Lens, DataPacket(len)
  PROVE  IInv'
<1> DEFINE data == [k \in 1..len |-> <<image, img_offset + k - 1>>]
           plen == Buf - Len(gathered)
           size == (exp_size - len) % W
<1>1. /\ at = "idle" /\ state = "recv"
      /\ exp_size' = size /\ img_offset' = img_offset + len
      /\ wr_offset' = position
      /\ UNCHANGED <<flash, variant, sm_idx, image>>
  BY DEF DataPacket, position
<1>2. /\ gathered \in Seq(Unit) /\ Len(gathered) \in 0..Buf
      /\ position \in Nat /\ position + Len(gathered) = img_offset
      /\ Stored(position) /\ From(gathered, image, position)
      /\ position > 0 => position = wr_offset /\ Held /\ Clear
      /\ Divides(Buf, position) /\ position < W
      /\ position > 0 => image # None /\ Target(image) \in Areas
                     /\ position <= SlotSize[Target(image)]
  BY <1>1, CtxFacts
<1>3. /\ len \in 0..Buf /\ img_offset \in Nat /\ image \in Images
      /\ rest = <<>> /\ ~err /\ caller = "none"
      /\ exp_size \in Int /\ size \in 0..W - 1
      /\ variant \in {"loader", "app"} /\ err = FALSE
  <2>1. exp_size - len \in Int
    BY DfuAssumption, Measures DEF IInv, Types, TypeOK
  <2>2. size \in 0..W - 1
    BY <2>1, Measures
  <2> HIDE DEF size
  <2> QED BY <1>1, <2>1, <2>2, DfuAssumption
          DEF IInv, Types, TypeOK, Uploads, Idle, Starts, Receives
<1>4. data \in Seq(Unit) /\ Len(data) = len /\ From(data, image, img_offset)
  <2>1. /\ data \in [1..len -> Unit]
        /\ \A k \in 1..len : data[k] = <<image, img_offset + k - 1>>
    BY <1>3 DEF Unit
  <2> HIDE DEF data
  <2>2. len \in Nat
    BY <1>3, Measures
  <2> QED BY <1>3, <2>1, <2>2, FromData
<1> HIDE DEF data, size
<1>5. /\ Stored(wr_offset)' /\ Aligned' /\ Clear'
      /\ wr_offset' > 0 => sm_idx' = Target(image)' /\ Opened(sm_idx)'
  <2>1. Stored(wr_offset)' /\ Aligned'
    BY <1>1, <1>2 DEF Stored, Aligned, flash
  <2>2. wr_offset' > 0 => UNCHANGED wr_offset /\ Held /\ Clear
    BY <1>1, <1>2
  <2>3. wr_offset' > 0 => sm_idx' = Target(image)' /\ Opened(sm_idx)'
    BY <1>1, <2>2 DEF Held, Opened, flash
  <2>4. Clear'
    BY <1>1, <2>2 DEF Clear, EmptyTo, flash
  <2> QED BY <2>1, <2>3, <2>4
<1>6. img_offset' \in 0..W - 1 /\ wr_offset' \in 0..W - 1 /\ exp_size' \in 0..W - 1
  BY <1>1, <1>2, <1>3, Measures
<1>7. ASSUME /\ buf' \in Seq(Unit) /\ Len(buf)' <= Buf
             /\ rest' \in Seq(Unit) /\ Len(rest)' <= Buf
             /\ state' \in States /\ err' \in BOOLEAN
             /\ at' \in {"idle", "flush"}
             /\ caller' \in {"none", "receive", "receive_done", "activate"}
      PROVE  Types'
  BY <1>1, <1>3, <1>6, <1>7 DEF IInv, Types, TypeOK, flash
<1>8. CASE Len(gathered) + len >= Buf
  <2> DEFINE first  == SubSeq(data, 1, plen)
             second == SubSeq(data, plen + 1, Len(data))
  <2>1. /\ buf' = gathered \o first /\ rest' = second
        /\ at' = "flush" /\ caller' = "receive" /\ UNCHANGED <<err, state>>
    BY <1>4, <1>8 DEF DataPacket, gathered, data
  <2>2. plen \in 0..Len(data) /\ Len(gathered) + plen = Buf
    BY <1>2, <1>3, <1>4, <1>8, Measures
  <2> HIDE DEF plen
  <2>3. /\ first \in Seq(Unit) /\ Len(first) = plen
        /\ From(first, image, img_offset)
        /\ second \in Seq(Unit) /\ Len(second) = Len(data) - plen
        /\ From(second, image, img_offset + plen)
    <3>1. /\ data \in Seq(Unit) /\ From(data, image, img_offset)
          /\ img_offset \in Nat /\ plen \in 0..Len(data)
      BY <1>3, <1>4, <2>2
    <3> QED BY <3>1, FromParts
  <2> HIDE DEF first, second
  <2>4. /\ buf' \in Seq(Unit) /\ Len(buf') = Len(gathered) + Len(first)
        /\ From(buf', image, position)
    <3>1. From(first, image, position + Len(gathered))
      BY <1>2, <2>3
    <3>2. /\ gathered \in Seq(Unit) /\ position \in Nat
          /\ From(gathered, image, position)
      BY <1>2
    <3>3. first \in Seq(Unit) /\ buf' = gathered \o first
      BY <2>1, <2>3
    <3> QED BY <3>1, <3>2, <3>3, FromJoined
  <2>. /\ rest' \in Seq(Unit) /\ Len(rest') = Len(data) - plen
       /\ From(rest', image, img_offset + plen)
    BY <2>1, <2>3
  <2>5. /\ Len(buf') = Buf /\ Len(rest') <= Buf
        /\ position + Len(buf') + Len(rest') = img_offset + len
        /\ position + Len(buf') = img_offset + plen
    <3>1. Buf \in Nat /\ Len(gathered) \in Nat /\ plen \in Nat /\ len \in Nat
          /\ position \in Nat /\ img_offset \in Nat /\ len <= Buf
          /\ plen <= len
      BY <1>2, <1>3, <1>4, <2>2, Measures
    <3>2. position + Len(gathered) = img_offset /\ Len(gathered) + plen = Buf
      BY <1>2, <2>2
    <3>3. Len(buf') = Len(gathered) + plen /\ Len(rest') = len - plen
      BY <1>4, <2>3, <2>4
    <3> QED BY <3>1, <3>2, <3>3
  <2>6. Types'
    <3>1. buf' \in Seq(Unit) /\ rest' \in Seq(Unit)
      BY <2>4
    <3>2. Len(buf)' <= Buf /\ Len(rest)' <= Buf
      BY <2>5, Measures
    <3>3. /\ state' \in States /\ err' \in BOOLEAN /\ at' \in {"idle", "flush"}
          /\ caller' \in {"none", "receive", "receive_done", "activate"}
      BY <1>1, <1>3, <2>1 DEF States
    <3> QED BY <1>7, <3>1, <3>2, <3>3
  <2>7. Uploads' /\ Idle' /\ Installed'
    BY <1>1, <1>3, <2>1 DEF Uploads, Idle, Installed, Starts, Receives
  <2>8. Held'
    BY <1>1, <1>5, <2>4 DEF Held
  <2>9. Called'
    BY <1>1, <1>3, <2>1, <2>3, <2>5 DEF Called
  <2>10. buf' # <<>>
    BY <2>5, EmptySeq, Measures
  <2>11. Running'
    BY <1>1, <1>3, <1>5, <2>1, <2>5, <2>8, <2>9, <2>10 DEF Running, Prepared
  <2> QED BY <2>6, <2>7, <2>11 DEF IInv
<1>9. CASE ~(Len(gathered) + len >= Buf)
  <2>1. /\ buf' = gathered \o data
        /\ \/ /\ size = 0 /\ variant = "loader" /\ buf' # <<>>
              /\ at' = "flush" /\ caller' = "receive_done"
              /\ rest' = <<>> /\ err' = FALSE /\ UNCHANGED state
           \/ /\ ~(size = 0 /\ variant = "loader" /\ buf' # <<>>)
              /\ at' = "idle" /\ caller' = "none" /\ rest' = <<>>
              /\ err' = FALSE
              /\ state' = IF size = 0 THEN "recv_done" ELSE state
    BY <1>9 DEF DataPacket, AfterReceive, Received, gathered, data, size
  <2>2. /\ buf' \in Seq(Unit) /\ Len(buf') = Len(gathered) + Len(data)
        /\ From(buf', image, position)
    <3>1. From(data, image, position + Len(gathered))
      BY <1>2, <1>4
    <3>2. gathered \in Seq(Unit) /\ position \in Nat /\ From(gathered, image, position)
      BY <1>2
    <3>3. data \in Seq(Unit) /\ buf' = gathered \o data
      BY <1>4, <2>1
    <3> QED BY <3>1, <3>2, <3>3, FromJoined
  <2>3. /\ Len(buf') <= Buf /\ Len(<<>>) = 0
        /\ position + Len(buf') = img_offset'
        /\ position + Len(buf') + Len(<<>>) = img_offset'
    <3>1. Len(<<>>) = 0
      OBVIOUS
    <3>2. Buf \in Nat /\ Len(gathered) \in Nat /\ len \in Nat
          /\ position \in Nat /\ img_offset \in Nat
          /\ Len(gathered) + len < Buf
      BY <1>2, <1>3, <1>9, Measures
    <3>3. /\ position + Len(gathered) = img_offset
          /\ Len(buf') = Len(gathered) + len /\ img_offset' = img_offset + len
      BY <1>1, <1>2, <1>4, <2>2
    <3> QED BY <3>1, <3>2, <3>3
  <2>4. Types'
    <3>1. buf' \in Seq(Unit) /\ rest' \in Seq(Unit) /\ rest' = <<>>
      BY <2>1, <2>2, EmptySeq
    <3>2. Len(buf)' <= Buf /\ Len(rest)' <= Buf
      BY <2>3, <3>1, Measures
    <3>3. /\ state' \in States /\ err' \in BOOLEAN /\ at' \in {"idle", "flush"}
          /\ caller' \in {"none", "receive", "receive_done", "activate"}
      BY <1>1, <1>3, <2>1 DEF States
    <3> QED BY <1>7, <3>1, <3>2, <3>3
  <2>5. Uploads' /\ Installed'
    BY <1>1, <1>3, <2>1 DEF Uploads, Installed, Starts, Receives
  <2>6. Held'
    BY <1>1, <1>5, <2>2 DEF Held
  <2>7. img_offset' = 0 => buf' = <<>>
    BY <1>2, <2>2, <2>3, EmptySeq
  <2>8. Idle'
    <3>1. at' = "idle" /\ state' \in {"recv_done", "validate"}
            => size = 0 /\ ~(variant = "loader" /\ buf' # <<>>)
      BY <1>1, <2>1
    <3> QED BY <1>1, <1>3, <1>5, <2>1, <2>3, <2>6, <2>7, <3>1
            DEF Idle, Receives
  <2>9. Running'
    BY <1>1, <1>3, <1>5, <2>1, <2>3, <2>6 DEF Running, Prepared, Called, Flushing
  <2> QED BY <2>4, <2>5, <2>8, <2>9 DEF IInv
<1> QED BY <1>8, <1>9

-----------------------------------------------------------------------------
(* flush_flash_img_ctx                                                     *)

LEMMA FlushFacts ==
  ASSUME IInv, Flushing
  PROVE  /\ buf \in Seq(Unit) /\ Len(buf) \in 1..Buf
         /\ wr_offset \in Nat /\ image \in Images /\ image # None
         /\ Stored(wr_offset) /\ From(buf, image, wr_offset)
         /\ wr_offset > 0 => /\ sm_idx = Target(image) /\ sm_idx \in Areas
                             /\ wr_offset <= SlotSize[sm_idx]
         /\ Divides(Buf, wr_offset) /\ Called
         /\ rest \in Seq(Unit) /\ Len(rest) \in 0..Buf
         /\ ~err => wr_offset + Len(buf) + Len(rest) = img_offset
         /\ at # "flush" => sm_idx = Target(image) /\ sm_idx \in Areas
         /\ img_offset \in Nat /\ err \in BOOLEAN
         /\ Target(image) \in Areas \cup {None}
<1>1. /\ buf \in Seq(Unit) /\ Len(buf) <= Buf /\ buf # <<>>
      /\ rest \in Seq(Unit) /\ Len(rest) <= Buf
      /\ wr_offset \in Nat /\ image \in Images /\ img_offset \in Nat
      /\ err \in BOOLEAN
      /\ Held /\ Divides(Buf, wr_offset) /\ Called
      /\ ~err => wr_offset + Len(buf) + Len(rest) = img_offset
      /\ at # "flush" => sm_idx = Target(image) /\ sm_idx \in Areas
      /\ sm_idx \in Areas \cup {None}
  BY Measures DEF IInv, Types, TypeOK, Running, Prepared, Aligned
<1>2. Len(buf) \in 1..Buf /\ Len(rest) \in 0..Buf
  BY <1>1, LenProperties, EmptySeq, Measures
<1>3. Target(image) \in Areas \cup {None}
  BY <1>1, DfuAssumption
<1>4. Stored(wr_offset) /\ From(buf, image, wr_offset)
  BY <1>1 DEF Held
<1>5. wr_offset > 0 => /\ sm_idx = Target(image) /\ image # None
                       /\ sm_idx \in Areas /\ wr_offset <= SlotSize[sm_idx]
  BY <1>1, <1>3, <1>4 DEF Held, Stored
<1>6. image # None
  BY <1>1, DfuAssumption
<1> QED BY <1>1, <1>2, <1>3, <1>4, <1>5, <1>6

(* A step of the flush before it returns                                   *)
LEMMA FlushStepInv ==
  ASSUME IInv, Flushing,
         UNCHANGED <<variant, proto, call, image, buf, wr_offset>>,
         \A a \in Areas : upgrade'[a] \in [Pos(a) -> Unit],
         upgrade' = [a \in Areas |-> upgrade'[a]],
         verify' \in [Areas -> {"signed", "blank", "torn"}],
         at' \in {"verify", "erase", "write"}, sm_idx' \in Areas,
         Held', Prepared'
  PROVE  IInv'
<1>1. Types'
  BY DEF IInv, Types, TypeOK, States, call, proto
<1>2. Uploads' /\ Idle' /\ Installed'
  BY DEF IInv, Uploads, Idle, Installed, proto
<1>3. Called' /\ Aligned'
  BY FlushFacts DEF Called, From, Aligned, call, proto
<1>4. Running'
  BY <1>3, FlushFacts DEF IInv, Running, Called, call, proto
<1> QED BY <1>1, <1>2, <1>4 DEF IInv

LEMMA FlushFirstInv ==
  ASSUME IInv, FlushFirst
  PROVE  IInv'
<1>1. /\ at = "flush" /\ wr_offset = 0 /\ Flushing
      /\ Len(buf) >= HdrLen /\ Target(buf[1][1]) # None
      /\ sm_idx' = Target(buf[1][1])
      /\ at' = IF sm_idx' \in InPlace THEN "erase" ELSE "verify"
      /\ UNCHANGED <<flash, variant, proto, buf, wr_offset, call, image>>
  BY DEF FlushFirst, Accepted, Flushing
<1>2. buf[1][1] = image
  <2>1. 1 \in 1..Len(buf) /\ From(buf, image, wr_offset)
    BY <1>1, FlushFacts, Measures
  <2>2. buf[1] = <<image, wr_offset + 1 - 1>>
    BY <2>1 DEF From
  <2> QED BY <2>2
<1>3. sm_idx' = Target(image)' /\ sm_idx' \in Areas
  BY <1>1, <1>2, FlushFacts
<1>4. Held'
  BY <1>1, FlushFacts DEF Held, Stored, From, flash
<1>5. Divides(Sector, 0)
  BY Measures DEF Divides
<1>6. Prepared'
  BY <1>1, <1>3, <1>5 DEF Prepared, Opened
<1>7. /\ \A a \in Areas : upgrade'[a] \in [Pos(a) -> Unit]
      /\ upgrade' = [a \in Areas |-> upgrade'[a]]
      /\ verify' \in [Areas -> {"signed", "blank", "torn"}]
      /\ at' \in {"verify", "erase", "write"}
  BY <1>1 DEF IInv, Types, TypeOK, flash
<1> QED BY <1>1, <1>3, <1>4, <1>6, <1>7, FlushStepInv

LEMMA FlushNextInv ==
  ASSUME IInv, FlushNext
  PROVE  IInv'
<1>1. /\ at = "flush" /\ wr_offset # 0 /\ Flushing
      /\ at' = IF Divides(Sector, wr_offset) THEN "erase" ELSE "write"
      /\ UNCHANGED <<flash, variant, proto, ctx, call, image>>
  BY DEF FlushNext, NextStep, Flushing, Divides
<1>2. /\ wr_offset > 0 /\ wr_offset \in Nat
      /\ sm_idx = Target(image) /\ sm_idx \in Areas
      /\ wr_offset <= SlotSize[sm_idx]
      /\ Held /\ Clear
  BY <1>1, FlushFacts DEF IInv, Running, Prepared
<1>3. Held' /\ Opened(sm_idx)' /\ sm_idx' = Target(image)' /\ sm_idx' \in Areas
  BY <1>1, <1>2 DEF Held, Stored, From, Opened, flash, ctx
<1>4. CASE Divides(Sector, wr_offset)
  <2>1. Prepared'
    BY <1>1, <1>3, <1>4 DEF Prepared, ctx
  <2>2. /\ \A a \in Areas : upgrade'[a] \in [Pos(a) -> Unit]
        /\ upgrade' = [a \in Areas |-> upgrade'[a]]
        /\ verify' \in [Areas -> {"signed", "blank", "torn"}]
        /\ at' \in {"verify", "erase", "write"}
    BY <1>1 DEF IInv, Types, TypeOK, flash
  <2> QED BY <1>1, <1>3, <2>1, <2>2, FlushStepInv DEF ctx
<1>5. CASE ~Divides(Sector, wr_offset)
  <2>1. PICK e \in wr_offset..wr_offset + Sector - 1 : EmptyTo(e)
    BY <1>2 DEF Clear
  <2>2. e # wr_offset /\ e \in Nat
    BY <1>5, <2>1 DEF EmptyTo
  <2>3. e \in wr_offset + 1..wr_offset + Sector
    BY <1>2, <2>1, <2>2, Measures
  <2>4. wr_offset < SlotSize[sm_idx]
    BY <1>2, <1>5, Measures
  <2>5. EmptyTo(e)'
    BY <1>1, <2>1 DEF EmptyTo, flash, ctx
  <2>6. Prepared'
    <3>1. \E x \in (wr_offset + 1..wr_offset + Sector)' : EmptyTo(x)'
      BY <1>1, <2>3, <2>5 DEF ctx
    <3> QED BY <1>1, <1>3, <1>5, <2>4, <3>1 DEF Prepared, ctx
  <2>7. /\ \A a \in Areas : upgrade'[a] \in [Pos(a) -> Unit]
        /\ upgrade' = [a \in Areas |-> upgrade'[a]]
        /\ verify' \in [Areas -> {"signed", "blank", "torn"}]
        /\ at' \in {"verify", "erase", "write"}
    BY <1>1 DEF IInv, Types, TypeOK, flash
  <2> QED BY <1>1, <1>3, <2>6, <2>7, FlushStepInv DEF ctx
<1> QED BY <1>4, <1>5

LEMMA EraseVerifyInv ==
  ASSUME IInv, EraseVerify
  PROVE  IInv'
<1>1. /\ at = "verify" /\ at' = "erase" /\ Flushing
      /\ verify' = [verify EXCEPT ![sm_idx] = "blank"]
      /\ UNCHANGED <<upgrade, variant, proto, ctx, call, image>>
  BY DEF EraseVerify, Flushing
<1>2. wr_offset = 0 /\ sm_idx = Target(image) /\ sm_idx \in Areas
  BY <1>1 DEF IInv, Running, Prepared
<1>3. /\ verify' \in [Areas -> {"signed", "blank", "torn"}]
      /\ verify'[sm_idx] = "blank"
      /\ \A a \in Areas : upgrade'[a] \in [Pos(a) -> Unit]
      /\ upgrade' = [a \in Areas |-> upgrade'[a]]
  BY <1>1, <1>2 DEF IInv, Types, TypeOK
<1>4. Held'
  BY <1>1, <1>2, FlushFacts DEF Held, Stored, From, ctx
<1>5. Divides(Sector, 0)
  BY Measures DEF Divides
<1>6. Prepared'
  BY <1>1, <1>2, <1>3, <1>5 DEF Prepared, Opened, ctx
<1> QED BY <1>1, <1>2, <1>3, <1>4, <1>6, FlushStepInv DEF ctx

(* A write or an erase changes one slot.                                   *)
LEMMA SlotChanged ==
  ASSUME IInv, sm_idx \in Areas, NEW f, f \in [Pos(sm_idx) -> Unit],
         upgrade' = [upgrade EXCEPT ![sm_idx] = f]
  PROVE  /\ \A a \in Areas : upgrade'[a] \in [Pos(a) -> Unit]
         /\ upgrade' = [a \in Areas |-> upgrade'[a]]
         /\ upgrade'[sm_idx] = f
         /\ \A a \in Areas \ {sm_idx} : upgrade'[a] = upgrade[a]
<1>1. /\ \A a \in Areas : upgrade[a] \in [Pos(a) -> Unit]
      /\ upgrade = [a \in Areas |-> upgrade[a]]
  BY DEF IInv, Types, TypeOK
<1>2. DOMAIN upgrade = Areas
  BY <1>1
<1>3. upgrade' = [a \in Areas |-> IF a = sm_idx THEN f ELSE upgrade[a]]
  BY <1>1, <1>2
<1> QED BY <1>1, <1>3

LEMMA SlotTypes ==
  ASSUME IInv, Flushing, at # "flush"
  PROVE  LET slot == upgrade[sm_idx]
         IN  /\ DOMAIN slot = Pos(sm_idx) /\ slot \in [Pos(sm_idx) -> Unit]
             /\ Erased(slot) \in [Pos(sm_idx) -> Unit]
             /\ Written(slot) \in [Pos(sm_idx) -> Unit]
<1> DEFINE slot == upgrade[sm_idx]
<1>1. slot \in [Pos(sm_idx) -> Unit] /\ DOMAIN slot = Pos(sm_idx)
  BY FlushFacts DEF IInv, Types, TypeOK
<1>2. Blank \in Unit /\ Garbage \in Unit
  BY DEF Unit
<1> HIDE DEF slot
<1>3. Erased(slot) \in [Pos(sm_idx) -> Unit]
  BY <1>1, <1>2 DEF Erased
<1>4. \A k \in 1..Len(buf) : buf[k] \in Unit
  BY FlushFacts, ElementOfSeq
<1>5. Written(slot) \in [Pos(sm_idx) -> Unit]
  <2>1. ASSUME NEW i \in Pos(sm_idx)
        PROVE  (LET k == i - wr_offset + 1
                IN  IF k \notin 1..Len(buf) THEN slot[i]
                    ELSE IF slot[i] = Blank THEN buf[k] ELSE Garbage) \in Unit
    BY <1>1, <1>2, <1>4
  <2> QED BY <1>1, <2>1 DEF Written
<1> QED BY <1>1, <1>3, <1>5 DEF slot

LEMMA EraseSectorInv ==
  ASSUME IInv, EraseSector
  PROVE  IInv'
<1>1. /\ at = "erase" /\ at' = "write" /\ Flushing
      /\ wr_offset + Sector <= SlotSize[sm_idx]
      /\ upgrade' = [upgrade EXCEPT ![sm_idx] = Erased(upgrade[sm_idx])]
      /\ UNCHANGED <<verify, variant, proto, ctx, call, image>>
  BY DEF EraseSector, Fits, Flushing
<1>2. /\ sm_idx = Target(image) /\ sm_idx \in Areas /\ Opened(sm_idx)
      /\ Divides(Sector, wr_offset) /\ wr_offset \in Nat
  BY <1>1, FlushFacts DEF IInv, Running, Prepared
<1>3. /\ \A a \in Areas : upgrade'[a] \in [Pos(a) -> Unit]
      /\ upgrade' = [a \in Areas |-> upgrade'[a]]
      /\ upgrade'[sm_idx] = Erased(upgrade[sm_idx])
  BY <1>1, <1>2, SlotTypes, SlotChanged
<1>4. \A i \in Pos(sm_idx) :
        upgrade'[sm_idx][i] = IF i \in wr_offset..wr_offset + Sector - 1
                              THEN Blank ELSE upgrade[sm_idx][i]
  BY <1>1, <1>3, SlotTypes DEF Erased
<1>5. Held'
  <2>1. ASSUME wr_offset > 0
        PROVE  /\ wr_offset <= SlotSize[sm_idx]
               /\ \A i \in 0..wr_offset - 1 :
                    upgrade[sm_idx][i] = <<image, i>>
    <3>1. Stored(wr_offset) /\ wr_offset > 0 /\ sm_idx = Target(image)
      BY <1>1, <1>2, <2>1, FlushFacts
    <3> QED BY <3>1 DEF Stored
  <2>2. ASSUME wr_offset > 0, NEW i \in 0..wr_offset - 1
        PROVE  upgrade'[sm_idx][i] = <<image, i>>
    <3>1. i \in Pos(sm_idx) /\ i \notin wr_offset..wr_offset + Sector - 1
      BY <1>2, <2>1, <2>2, Measures DEF Pos
    <3> QED BY <1>4, <2>1, <2>2, <3>1
  <2>3. Stored(wr_offset)'
    BY <1>1, <1>2, <2>2, FlushFacts, DfuAssumption DEF Stored, ctx
  <2> QED BY <1>1, <1>2, <2>3, FlushFacts DEF Held, From, Opened, ctx
<1>6. Prepared'
  <2>0. PICK e \in Nat : e = wr_offset + Sector
    BY <1>2, Measures
  <2>1. e \in wr_offset + 1..wr_offset + Sector
    BY <1>2, <2>0, Measures
  <2>2. Divides(Sector, e)
    BY <1>2, <2>0, NextMultiple, Measures
  <2>3. EmptyTo(e)'
    <3>1. \A i \in Pos(sm_idx) : i \in wr_offset..e - 1
                                 => upgrade'[sm_idx][i] = Blank
      <4>1. wr_offset..e - 1 = wr_offset..wr_offset + Sector - 1
        BY <1>2, <2>0, Measures
      <4> QED BY <1>4, <4>1
    <3>2. wr_offset' = wr_offset /\ sm_idx' = sm_idx
      BY <1>1 DEF ctx
    <3> QED BY <2>2, <3>1, <3>2 DEF EmptyTo
  <2>4. wr_offset < SlotSize[sm_idx]
    BY <1>1, <1>2, Measures
  <2>5. \E x \in (wr_offset + 1..wr_offset + Sector)' : EmptyTo(x)'
    BY <1>1, <2>1, <2>3 DEF ctx
  <2> QED BY <1>1, <1>2, <2>4, <2>5 DEF Prepared, Opened, ctx
<1>7. verify' \in [Areas -> {"signed", "blank", "torn"}]
  BY <1>1 DEF IInv, Types, TypeOK
<1> QED BY <1>1, <1>2, <1>3, <1>5, <1>6, <1>7, FlushStepInv DEF ctx

-----------------------------------------------------------------------------
(* The flush returns.                                                      *)

(* What is neither flash nor ctx                                           *)
LEMMA ReturnTypes ==
  ASSUME IInv, UNCHANGED <<variant, exp_size, img_offset, sm_idx, image>>,
         \A a \in Areas : upgrade'[a] \in [Pos(a) -> Unit],
         upgrade' = [a \in Areas |-> upgrade'[a]],
         verify' = verify, wr_offset' \in 0..W - 1,
         buf' \in {buf, rest, <<>>}, rest' \in {rest, <<>>},
         state' \in {state, "none", "recv_done"}, err' \in BOOLEAN,
         at' \in {"idle", "flush", "swapper"},
         caller' \in {"none", "receive_done"}
  PROVE  Types'
<1>1. /\ buf' \in Seq(Unit) /\ Len(buf)' <= Buf
      /\ rest' \in Seq(Unit) /\ Len(rest)' <= Buf
  <2>1. <<>> \in Seq(Unit) /\ Len(<<>>) <= Buf
    BY EmptySeq, Measures
  <2>2. /\ buf \in Seq(Unit) /\ Len(buf) <= Buf
        /\ rest \in Seq(Unit) /\ Len(rest) <= Buf
    BY DEF IInv, Types, TypeOK
  <2> QED BY <2>1, <2>2
<1>2. state' \in States
  BY DEF IInv, Types, TypeOK, States
<1> QED BY <1>1, <1>2 DEF IInv, Types, TypeOK

(* The buffer was not written.                                             *)
LEMMA RefusedInv ==
  ASSUME IInv, Flushing, FlushReturns(-1),
         UNCHANGED <<flash, variant, exp_size, img_offset, wr_offset, sm_idx,
                     image>>,
         Clear,
         \/ Target(image) = None \/ wr_offset + Len(buf) < HdrLen
         \/ wr_offset + Len(buf) > SlotSize[Target(image)]
  PROVE  IInv'
<1>1. /\ \A a \in Areas : upgrade'[a] \in [Pos(a) -> Unit]
      /\ upgrade' = [a \in Areas |-> upgrade'[a]]
      /\ verify' = verify /\ wr_offset' \in 0..W - 1
  BY DEF IInv, Types, TypeOK, flash
<1>2. CASE caller = "activate"
  <2>1. /\ buf' = buf /\ at' = "swapper" /\ caller' = "none"
        /\ UNCHANGED <<rest, err, state>>
    BY <1>2 DEF FlushReturns
  <2>2. Types'
    BY <1>1, <2>1, ReturnTypes DEF IInv, Types, TypeOK
  <2>3. state = "none" /\ variant = "app" /\ rest = <<>> /\ Len(rest) = 0 /\ ~err
    BY <1>2, FlushFacts DEF Called
  <2>4. wr_offset + Len(buf) = img_offset
    BY <2>3, FlushFacts
  <2>5. Installed'
    BY <2>3, <2>4 DEF Installed
  <2>6. Uploads' /\ Idle' /\ Running'
    BY <2>1, <2>3 DEF Uploads, Starts, Receives, Idle, Running, Flushing
  <2> QED BY <2>2, <2>5, <2>6 DEF IInv
<1>3. CASE caller \in {"receive", "receive_done"}
  <2>1. state = "recv"
    BY <1>3, FlushFacts DEF Called
  <2>2. /\ buf' = buf /\ rest' = <<>>
        /\ \/ /\ at' = "flush" /\ caller' = "receive_done" /\ err' = TRUE
              /\ UNCHANGED state /\ exp_size = 0 /\ variant = "loader"
           \/ /\ at' = "idle" /\ caller' = "none" /\ err' = FALSE
              /\ state' = "none"
    <3>1. (-1 # 0) = TRUE /\ buf # <<>>
      BY FlushFacts, EmptySeq
    <3>2. CASE caller = "receive"
      BY <3>1, <3>2 DEF FlushReturns, AfterReceive, Received
    <3>3. CASE caller = "receive_done"
      BY <3>1, <3>3, FlushFacts DEF FlushReturns, Received, Called
    <3> QED BY <1>3, <3>2, <3>3
  <2>3. Types'
    BY <1>1, <2>2, ReturnTypes
  <2>4. Uploads' /\ Installed' /\ Idle'
    BY <2>1, <2>2 DEF IInv, Uploads, Starts, Receives, Idle, Installed
  <2>5. Running'
    <3>1. SUFFICES ASSUME at' = "flush" PROVE Running'
      BY <2>2 DEF Running, Flushing
    <3>2. Called'
      BY <2>1, <2>2, <3>1 DEF Called
    <3>3. Held /\ Aligned /\ image \in Images /\ buf # <<>>
      BY DEF IInv, Running
    <3>4. Held' /\ Aligned'
      BY <2>2, <3>3 DEF Held, Stored, From, Opened, Aligned, flash
    <3>5. Prepared'
      <4>1. Clear'
        BY DEF Clear, EmptyTo, flash
      <4> QED BY <3>1, <4>1 DEF Prepared
    <3> QED BY <2>2, <3>1, <3>2, <3>3, <3>4, <3>5 DEF Running
  <2> QED BY <2>3, <2>4, <2>5 DEF IInv
<1> QED BY <1>2, <1>3, FlushFacts DEF Called

LEMMA FlushRefusedInv ==
  ASSUME IInv, FlushRefused
  PROVE  IInv'
<1>1. /\ at = "flush" /\ wr_offset = 0 /\ Flushing /\ FlushReturns(-1)
      /\ Len(buf) < HdrLen \/ Target(buf[1][1]) = None
      /\ UNCHANGED <<flash, variant, exp_size, img_offset, wr_offset, sm_idx,
                     image>>
  BY FlushFacts, Measures DEF FlushRefused, Accepted, Flushing
<1>2. Clear
  BY <1>1 DEF Clear
<1>3. buf[1][1] = image
  <2>1. 1 \in 1..Len(buf) /\ From(buf, image, wr_offset)
    BY <1>1, FlushFacts, Measures
  <2>2. buf[1] = <<image, wr_offset + 1 - 1>>
    BY <2>1 DEF From
  <2> QED BY <2>2
<1>4. Target(image) = None \/ wr_offset + Len(buf) < HdrLen
  BY <1>1, <1>3, FlushFacts
<1> QED BY <1>1, <1>2, <1>4, RefusedInv

(* The slot is full.                                                       *)
LEMMA SlotEndsInv ==
  ASSUME IInv, SlotEnds
  PROVE  IInv'
<1>1. /\ Flushing /\ FlushReturns(-1)
      /\ \/ at = "erase" /\ ~Fits(Sector)
         \/ at = "write" /\ ~Fits(Buf)
      /\ UNCHANGED <<flash, variant, exp_size, img_offset, wr_offset, sm_idx,
                     image>>
  BY DEF SlotEnds, Flushing
<1>2. /\ sm_idx = Target(image) /\ sm_idx \in Areas
      /\ wr_offset \in Nat /\ Divides(Buf, wr_offset) /\ Len(buf) \in 1..Buf
      /\ SlotSize[sm_idx] \in Nat /\ Divides(Sector, SlotSize[sm_idx])
      /\ Divides(Buf, SlotSize[sm_idx])
  BY <1>1, FlushFacts, Measures
<1>3. at = "erase" /\ Divides(Sector, wr_offset)
  <2>1. CASE at = "write"
    <3>1. wr_offset < SlotSize[sm_idx]
      BY <1>1, <2>1 DEF IInv, Running, Prepared
    <3>2. wr_offset + Buf <= SlotSize[sm_idx]
      BY <1>2, <3>1, MultiplesApart, Measures
    <3> QED BY <1>1, <2>1, <3>2 DEF Fits
  <2> QED BY <1>1, <2>1 DEF IInv, Running, Prepared
<1>4. wr_offset >= SlotSize[sm_idx]
  <2>1. CASE wr_offset < SlotSize[sm_idx]
    <3>1. wr_offset + Sector <= SlotSize[sm_idx]
      BY <1>2, <1>3, <2>1, MultiplesApart, Measures
    <3> QED BY <1>1, <1>3, <3>1 DEF Fits
  <2> QED BY <1>2, <2>1
<1>5. wr_offset + Len(buf) > SlotSize[Target(image)]
  BY <1>2, <1>4
<1>6. Clear
  <2>1. wr_offset \in wr_offset..wr_offset + Sector - 1
    BY <1>2, Measures
  <2>2. EmptyTo(wr_offset)
    BY <1>2, <1>3 DEF EmptyTo
  <2> QED BY <2>1, <2>2 DEF Clear
<1> QED BY <1>1, <1>5, <1>6, RefusedInv

(* What a write leaves in the slot                                         *)
LEMMA WriteFacts ==
  ASSUME IInv, at = "write",
         upgrade' = [upgrade EXCEPT ![sm_idx] = Written(upgrade[sm_idx])],
         wr_offset' = wr_offset + Len(buf),
         UNCHANGED <<verify, sm_idx, image>>, Fits(Buf)
  PROVE  /\ Stored(wr_offset)' /\ wr_offset' <= SlotSize[sm_idx]
         /\ sm_idx = Target(image) /\ sm_idx \in Areas /\ Opened(sm_idx)'
         /\ Len(buf) = Buf => Aligned' /\ Clear'
<1> DEFINE n    == wr_offset + Len(buf)
           slot == upgrade[sm_idx]
<1>1. /\ sm_idx = Target(image) /\ sm_idx \in Areas /\ Flushing
      /\ wr_offset \in Nat /\ Len(buf) \in 1..Buf /\ image # None
      /\ Divides(Buf, wr_offset) /\ From(buf, image, wr_offset)
      /\ Stored(wr_offset)
      /\ wr_offset + Buf <= SlotSize[sm_idx]
      /\ Buf \in Nat \ {0} /\ Sector \in Nat \ {0}
      /\ SlotSize[sm_idx] \in Nat /\ Divides(Buf, Sector)
  <2>1. Flushing
    BY DEF Flushing
  <2> QED BY <2>1, FlushFacts, Measures DEF Fits
<1>2. PICK e \in wr_offset + 1..wr_offset + Sector : EmptyTo(e)
  BY <1>1 DEF IInv, Running, Prepared
<1>3. /\ e \in Nat /\ Divides(Sector, e) /\ wr_offset + Buf <= e
      /\ \A i \in Pos(sm_idx) : i \in wr_offset..e - 1 => slot[i] = Blank
  <2>1. /\ e \in Nat /\ Divides(Sector, e) /\ wr_offset < e
        /\ \A i \in Pos(sm_idx) : i \in wr_offset..e - 1 => slot[i] = Blank
    BY <1>1, <1>2 DEF EmptyTo
  <2>2. Divides(Buf, e)
    BY <1>1, <2>1, MultipleOfMultiple
  <2>3. wr_offset + Buf <= e
    BY <1>1, <2>1, <2>2, MultiplesApart
  <2> QED BY <2>1, <2>3
<1>4. /\ upgrade'[sm_idx] = Written(slot)
      /\ \A i \in Pos(sm_idx) :
           upgrade'[sm_idx][i] =
             LET k == i - wr_offset + 1
             IN  IF k \notin 1..Len(buf) THEN slot[i]
                 ELSE IF slot[i] = Blank THEN buf[k] ELSE Garbage
  <2>1. upgrade'[sm_idx] = Written(slot) /\ DOMAIN slot = Pos(sm_idx)
    BY <1>1, SlotTypes, SlotChanged
  <2> QED BY <2>1 DEF Written
<1> HIDE DEF slot
<1>5. ASSUME NEW i \in 0..n - 1
      PROVE  upgrade'[sm_idx][i] = <<image, i>>
  <2>1. i \in Pos(sm_idx) /\ i \in Nat
    BY <1>1, Measures DEF Pos
  <2>2. CASE i < wr_offset
    <3>1. i - wr_offset + 1 \notin 1..Len(buf) /\ wr_offset > 0
          /\ i \in 0..wr_offset - 1
      BY <1>1, <2>1, <2>2
    <3>2. slot[i] = <<image, i>>
      BY <1>1, <3>1 DEF Stored, slot
    <3> QED BY <1>4, <2>1, <3>1, <3>2
  <2>3. CASE i >= wr_offset
    <3>1. /\ i - wr_offset + 1 \in 1..Len(buf) /\ i \in wr_offset..e - 1
          /\ wr_offset + (i - wr_offset + 1) - 1 = i
      <4>1. i < wr_offset + Len(buf) /\ Len(buf) <= Buf
        BY <1>1
      <4>2. e \in Nat /\ wr_offset + Buf <= e
        BY <1>3
      <4>3. wr_offset \in Nat /\ Len(buf) \in Nat /\ Buf \in Nat
        BY <1>1
      <4> QED BY <2>1, <2>3, <4>1, <4>2, <4>3
    <3>2. slot[i] = Blank
      BY <1>3, <2>1, <3>1
    <3>3. buf[i - wr_offset + 1] = <<image, i>>
      BY <1>1, <3>1 DEF From
    <3> QED BY <1>4, <2>1, <3>1, <3>2, <3>3
  <2> QED BY <1>1, <2>1, <2>2, <2>3
<1>6. n \in Nat /\ n <= SlotSize[sm_idx]
  BY <1>1
<1>7. Stored(wr_offset)' /\ wr_offset' <= SlotSize[sm_idx]
  BY <1>1, <1>5, <1>6, DfuAssumption DEF Stored
<1>8. Opened(sm_idx)'
  BY <1>1 DEF Opened, IInv, Running, Prepared
<1>9. ASSUME Len(buf) = Buf PROVE Aligned' /\ Clear'
  <2>1. Aligned'
    BY <1>1, <1>9, NextMultiple DEF Aligned
  <2>2. e \in n..n + Sector - 1
    BY <1>1, <1>2, <1>3, <1>9
  <2>3. \A i \in Pos(sm_idx) : i \in n..e - 1 => upgrade'[sm_idx][i] = Blank
    <3> SUFFICES ASSUME NEW i \in Pos(sm_idx), i \in n..e - 1
                 PROVE  upgrade'[sm_idx][i] = Blank
      OBVIOUS
    <3>1. i \in wr_offset..e - 1 /\ i - wr_offset + 1 \notin 1..Len(buf)
      BY <1>1, <1>3
    <3> QED BY <1>3, <1>4, <3>1
  <2>4. EmptyTo(e)'
    BY <1>3, <2>3 DEF EmptyTo
  <2> QED BY <2>1, <2>2, <2>4 DEF Clear
<1> QED BY <1>1, <1>7, <1>8, <1>9

LEMMA WriteBlockInv ==
  ASSUME IInv, WriteBlock
  PROVE  IInv'
<1>1. /\ at = "write" /\ Fits(Buf) /\ Flushing
      /\ upgrade' = [upgrade EXCEPT ![sm_idx] = Written(upgrade[sm_idx])]
      /\ wr_offset' = wr_offset + Len(buf)
      /\ FlushReturns(0)
      /\ UNCHANGED <<verify, variant, exp_size, img_offset, sm_idx, image>>
  BY DEF WriteBlock, Flushing
<1>2. /\ Stored(wr_offset)' /\ wr_offset' <= SlotSize[sm_idx]
      /\ sm_idx = Target(image) /\ sm_idx \in Areas /\ Opened(sm_idx)'
      /\ Len(buf) = Buf => Aligned' /\ Clear'
  BY <1>1, WriteFacts
<1>3. /\ wr_offset' \in 0..W - 1
      /\ ~err => wr_offset' + Len(rest) = img_offset
      /\ img_offset \in Nat /\ Len(rest) \in Nat /\ image \in Images
  <2>1. /\ wr_offset \in Nat /\ Len(buf) \in Nat /\ Len(rest) \in Nat
        /\ ~err => wr_offset + Len(buf) + Len(rest) = img_offset
        /\ img_offset \in Nat /\ image \in Images
    BY <1>1, FlushFacts, Measures
  <2>2. wr_offset' \in Nat /\ SlotSize[sm_idx] < W /\ SlotSize[sm_idx] \in Nat
    BY <1>1, <1>2, <2>1, Measures
  <2> QED BY <1>1, <1>2, <2>1, <2>2, Measures
<1>4. /\ \A a \in Areas : upgrade'[a] \in [Pos(a) -> Unit]
      /\ upgrade' = [a \in Areas |-> upgrade'[a]]
  BY <1>1, <1>2, SlotTypes, SlotChanged
<1>5. ASSUME buf' \in {rest, <<>>}, From(buf', image, wr_offset')
      PROVE  Held'
  BY <1>1, <1>2, <1>5 DEF Held
<1>6. CASE caller = "receive"
  <2>1. /\ state = "recv" /\ ~err /\ Len(buf) = Buf
        /\ From(rest, image, wr_offset + Len(buf))
    BY <1>1, <1>6, FlushFacts DEF Called
  <2>2. /\ buf' = rest /\ rest' = <<>> /\ err' = FALSE
        /\ \/ /\ at' = "flush" /\ caller' = "receive_done"
              /\ UNCHANGED state /\ exp_size = 0 /\ variant = "loader"
              /\ rest # <<>>
           \/ /\ ~(exp_size = 0 /\ variant = "loader" /\ rest # <<>>)
              /\ at' = "idle" /\ caller' = "none"
              /\ state' = IF exp_size = 0 THEN "recv_done" ELSE state
    BY <1>1, <1>6 DEF FlushReturns, AfterReceive, Received
  <2>3. Types'
    BY <1>1, <1>3, <1>4, <2>2, ReturnTypes
  <2>4. Held'
    BY <1>1, <1>5, <2>1, <2>2
  <2>5. Uploads' /\ Installed'
    BY <1>1, <1>3, <2>1, <2>2 DEF Uploads, Starts, Receives, Installed
  <2>6. wr_offset' + Len(buf') = img_offset' /\ Len(rest') = 0
    BY <1>1, <1>3, <2>1, <2>2, EmptySeq
  <2>7. img_offset' = 0 => buf' = <<>>
    <3>1. Len(rest) = 0 => rest = <<>>
      BY <1>1, FlushFacts, EmptySeq
    <3> QED BY <1>1, <1>3, <2>1, <2>2, <3>1
  <2>8. Idle'
    <3>1. at' = "idle" /\ state' \in {"recv_done", "validate"}
            => ~(variant = "loader" /\ rest # <<>>)
      BY <2>1, <2>2
    <3> QED BY <1>1, <1>2, <2>1, <2>2, <2>4, <2>6, <2>7, <3>1
            DEF Idle, Receives
  <2>9. Running'
    <3>1. SUFFICES ASSUME at' = "flush" PROVE Running'
      BY <2>2 DEF Running, Flushing
    <3>2. Called'
      BY <1>1, <2>1, <2>2, <3>1 DEF Called
    <3>3. Prepared'
      BY <1>2, <2>1, <3>1 DEF Prepared
    <3>4. wr_offset' + Len(buf') + Len(rest') = img_offset'
      BY <1>1, <1>3, <2>6
    <3> QED BY <1>1, <1>2, <1>3, <2>1, <2>2, <2>4, <3>1, <3>2, <3>3, <3>4
            DEF Running
  <2> QED BY <2>3, <2>5, <2>8, <2>9 DEF IInv
<1>7. CASE caller = "receive_done"
  <2>1. /\ state = "recv" /\ rest = <<>> /\ variant = "loader" /\ exp_size = 0
        /\ Len(rest) = 0 /\ Len(<<>>) = 0
    BY <1>1, <1>7, FlushFacts, EmptySeq DEF Called
  <2>2. /\ buf' = <<>> /\ rest' = <<>> /\ err' = FALSE
        /\ at' = "idle" /\ caller' = "none"
        /\ state' = IF err THEN "none" ELSE "recv_done"
    BY <1>1, <1>7, <2>1 DEF FlushReturns, Received
  <2>3. Types'
    BY <1>1, <1>3, <1>4, <2>2, ReturnTypes
  <2>4. Held'
    BY <1>5, <2>1, <2>2 DEF From
  <2>5. Uploads' /\ Installed' /\ Running'
    BY <1>1, <1>3, <2>1, <2>2
       DEF Uploads, Starts, Receives, Installed, Running, Flushing
  <2>6. Idle'
    BY <1>1, <1>3, <2>1, <2>2, <2>4 DEF Idle, Receives
  <2> QED BY <2>3, <2>5, <2>6 DEF IInv
<1>8. CASE caller = "activate"
  <2>1. state = "none" /\ rest = <<>> /\ Len(rest) = 0 /\ ~err
    BY <1>1, <1>8, FlushFacts, EmptySeq DEF Called
  <2>2. /\ buf' = <<>> /\ at' = "swapper" /\ caller' = "none"
        /\ UNCHANGED <<rest, err, state>>
    BY <1>1, <1>8 DEF FlushReturns
  <2>3. Types'
    BY <1>1, <1>3, <1>4, <2>2, ReturnTypes DEF IInv, Types, TypeOK
  <2>4. wr_offset' = img_offset'
    BY <1>1, <1>3, <2>1
  <2>5. Installed'
    BY <1>2, <2>4 DEF Installed, Stored
  <2>6. Uploads' /\ Idle' /\ Running'
    BY <2>1, <2>2 DEF Uploads, Starts, Receives, Idle, Running, Flushing
  <2> QED BY <2>3, <2>5, <2>6 DEF IInv
<1> QED BY <1>1, <1>6, <1>7, <1>8, FlushFacts DEF Called

-----------------------------------------------------------------------------
(* All steps.                                                              *)

LEMMA RestartInv ==
  ASSUME IInv, RamLost,
         \A a \in Areas : upgrade'[a] \in [Pos(a) -> Unit],
         upgrade' = [a \in Areas |-> upgrade'[a]],
         verify' \in [Areas -> {"signed", "blank", "torn"}]
  PROVE  IInv'
<1>1. /\ variant' \in {"loader", "app"} /\ state' = "none"
      /\ exp_size' = 0 /\ img_offset' = 0
      /\ buf' = <<>> /\ wr_offset' = 0 /\ sm_idx' = None
      /\ at' = "idle" /\ caller' = "none" /\ rest' = <<>> /\ err' = FALSE
      /\ image' = None
  BY DEF RamLost
<1>2. 0 \in 0..W - 1 /\ <<>> \in Seq(Unit) /\ Len(<<>>) <= Buf
  BY EmptySeq, Measures
<1>3. Types'
  BY <1>1, <1>2 DEF Types, TypeOK, States
<1>4. Uploads' /\ Idle' /\ Running' /\ Installed'
  BY <1>1 DEF Uploads, Starts, Receives, Idle, Running, Flushing, Installed
<1> QED BY <1>3, <1>4 DEF IInv

(* What is cut off changes the one slot or its verify slot.                *)
LEMMA CutOffTypes ==
  ASSUME IInv, PowerLoss
  PROVE  /\ \A a \in Areas : upgrade'[a] \in [Pos(a) -> Unit]
         /\ upgrade' = [a \in Areas |-> upgrade'[a]]
         /\ verify' \in [Areas -> {"signed", "blank", "torn"}]
         /\ \/ UNCHANGED <<upgrade, verify>>
            \/ /\ sm_idx = Target(image) /\ sm_idx \in Areas
               /\ \A a \in Areas \ {sm_idx} :
                    upgrade'[a] = upgrade[a] /\ verify'[a] = verify[a]
               /\ upgrade' = upgrade \/ (verify' = verify /\ Opened(sm_idx))
<1> DEFINE slot == upgrade[sm_idx]
<1>1. /\ \A a \in Areas : upgrade[a] \in [Pos(a) -> Unit]
      /\ upgrade = [a \in Areas |-> upgrade[a]]
      /\ verify \in [Areas -> {"signed", "blank", "torn"}]
  BY DEF IInv, Types, TypeOK
<1>2. at \in {"verify", "erase", "write"} =>
        /\ sm_idx = Target(image) /\ sm_idx \in Areas
        /\ Flushing /\ at # "flush"
        /\ at # "verify" => Opened(sm_idx)
  BY DEF IInv, Running, Prepared, Flushing
<1>3. CASE UNCHANGED flash
  BY <1>1, <1>3 DEF flash
<1>4. CASE at = "verify" /\ UNCHANGED upgrade
           /\ verify' = [verify EXCEPT ![sm_idx] = "torn"]
  BY <1>1, <1>2, <1>4
<1>5. ASSUME NEW f, f \in [Pos(sm_idx) -> Unit], UNCHANGED verify,
             upgrade' = [upgrade EXCEPT ![sm_idx] = f],
             at \in {"erase", "write"}
      PROVE  /\ \A a \in Areas : upgrade'[a] \in [Pos(a) -> Unit]
             /\ upgrade' = [a \in Areas |-> upgrade'[a]]
             /\ sm_idx = Target(image) /\ sm_idx \in Areas /\ Opened(sm_idx)
             /\ \A a \in Areas \ {sm_idx} : upgrade'[a] = upgrade[a]
  BY <1>2, <1>5, SlotChanged
<1>6. CASE at = "erase" /\ Fits(Sector) /\ UNCHANGED verify
           /\ upgrade' = [upgrade EXCEPT ![sm_idx] =
                [i \in DOMAIN @ |-> IF Erased(@)[i] = @[i] THEN @[i] ELSE Garbage]]
  <2> DEFINE f == [i \in DOMAIN slot |->
                     IF Erased(slot)[i] = slot[i] THEN slot[i] ELSE Garbage]
  <2>1. f \in [Pos(sm_idx) -> Unit]
    BY <1>2, <1>6, SlotTypes DEF Unit
  <2>2. upgrade' = [upgrade EXCEPT ![sm_idx] = f]
    BY <1>6
  <2> HIDE DEF f
  <2> QED BY <1>1, <1>5, <1>6, <2>1, <2>2
<1>7. CASE at = "write" /\ Fits(Buf) /\ UNCHANGED verify
           /\ upgrade' = [upgrade EXCEPT ![sm_idx] =
                [i \in DOMAIN @ |-> IF Written(@)[i] = @[i] THEN @[i] ELSE Garbage]]
  <2> DEFINE f == [i \in DOMAIN slot |->
                     IF Written(slot)[i] = slot[i] THEN slot[i] ELSE Garbage]
  <2>1. f \in [Pos(sm_idx) -> Unit]
    BY <1>2, <1>7, SlotTypes DEF Unit
  <2>2. upgrade' = [upgrade EXCEPT ![sm_idx] = f]
    BY <1>7
  <2> HIDE DEF f
  <2> QED BY <1>1, <1>5, <1>7, <2>1, <2>2
<1> QED BY <1>3, <1>4, <1>6, <1>7 DEF PowerLoss

LEMMA StutterInv ==
  ASSUME IInv, UNCHANGED vars
  PROVE  IInv'
<1>1. UNCHANGED <<flash, variant, proto, ctx, at, call, image>>
  BY DEF vars
<1>2. Types'
  BY <1>1 DEF IInv, Types, TypeOK, flash, proto, ctx, call
<1>3. Uploads' /\ Installed'
  BY <1>1 DEF IInv, Uploads, Installed, Stored, flash, proto
<1>4. /\ Held' = Held /\ Aligned' = Aligned /\ Clear' = Clear
      /\ Called' = Called
  BY <1>1 DEF Held, Stored, From, Opened, Aligned, Clear, EmptyTo, Called,
              flash, proto, ctx, call
<1>5. Idle'
  BY <1>1, <1>4 DEF IInv, Idle, proto, ctx, call
<1>6. Prepared' = Prepared
  BY <1>1, <1>4 DEF Prepared, Opened, EmptyTo, flash, ctx
<1>7. Running'
  BY <1>1, <1>4, <1>6 DEF IInv, Running, Flushing, proto, ctx, call
<1> QED BY <1>2, <1>3, <1>5, <1>7 DEF IInv

LEMMA StepInv == ASSUME IInv, [Next]_vars PROVE IInv'
<1>1. CASE Control
  BY <1>1, OpcodesInv, ActivateInv DEF Control
<1>2. CASE Packet
  BY <1>2, OpcodesInv, DataPacketInv DEF Packet
<1>3. CASE Flush
  BY <1>3, FlushFirstInv, FlushRefusedInv, FlushNextInv, EraseVerifyInv,
     EraseSectorInv, SlotEndsInv, WriteBlockInv DEF Flush
<1>4. CASE Swapped
  <2>1. /\ \A a \in Areas : upgrade'[a] \in [Pos(a) -> Unit]
        /\ upgrade' = [a \in Areas |-> upgrade'[a]]
        /\ verify' \in [Areas -> {"signed", "blank", "torn"}]
    BY <1>4 DEF Swapped, Unit
  <2> QED BY <1>4, <2>1, RestartInv DEF Swapped
<1>5. CASE PowerLoss
  BY <1>5, CutOffTypes, RestartInv DEF PowerLoss
<1> QED BY <1>1, <1>2, <1>3, <1>4, <1>5, StutterInv DEF Next

(* The inductive invariant holds in every state.                           *)
THEOREM Invariance == Spec => []IInv
<1>1. IInv /\ [Next]_vars => IInv'
  BY StepInv
<1> QED BY InitInv, <1>1, PTL DEF Spec

(* Every variable keeps its type: zb_dfu_receive never fills the buffer    *)
(* beyond its size, and the offsets, which count on after exp_size has     *)
(* gone round, stay behind one slot and two buffers.                       *)
THEOREM TypeCorrect == Spec => []TypeOK
<1>1. IInv => TypeOK
  BY DEF IInv, Types
<1> QED BY <1>1, Invariance, PTL

(* Between two writes of the peer all it has sent of this image is in the  *)
(* upgrade slot or in the buffer, in order and once, whatever uploads were *)
(* given up before (zb_dfu_receive, flush_flash_img_ctx).                  *)
THEOREM ReceivesAll == Spec => []NothingSkipped
<1>1. IInv => NothingSkipped
  BY DEF IInv, Idle, Receives, Held, From, NothingSkipped
<1> QED BY <1>1, Invariance, PTL

(* The swapper is started with the whole image in the upgrade slot, unless *)
(* the image could not be put there and the application ignored it.        *)
THEOREM InstallsWhole == Spec => []Installed
<1>1. IInv => Installed
  BY DEF IInv
<1> QED BY <1>1, Invariance, PTL

(* Only the slot that the header of the image names is changed, and one    *)
(* that has a verify slot only after that was erased.                      *)
THEOREM TouchesOneSlot == Spec => OnlyTheSlotNamed
<1> DEFINE Kept ==
      Uploading => \A a \in Areas :
        /\ verify'[a] # verify[a] => Target(image) = a
        /\ upgrade'[a] # upgrade[a] =>
             Target(image) = a /\ (a \in InPlace \/ verify[a] = "blank")
<1>1. ASSUME IInv, Next PROVE Kept
  <2>1. CASE Swapped
    BY <2>1 DEF Uploading
  <2>2. CASE UNCHANGED <<upgrade, verify>>
    BY <2>2
  <2>3. CASE Control \/ Packet
    <3>1. UNCHANGED <<upgrade, verify>>
      BY <2>3 DEF Control, Packet, Start, InitPacket, ReceiveImage, Validate,
                  Opcode, Activate, StartPacket, InitData, DataPacket, flash
    <3> QED BY <2>2, <3>1
  <2>4. CASE FlushFirst \/ FlushRefused \/ FlushNext \/ SlotEnds
    <3>1. UNCHANGED <<upgrade, verify>>
      BY <2>4 DEF FlushFirst, FlushRefused, FlushNext, SlotEnds, flash
    <3> QED BY <2>2, <3>1
  <2>5. CASE EraseVerify
    <3>1. sm_idx = Target(image) /\ sm_idx \in Areas
      BY <1>1, <2>5 DEF EraseVerify, IInv, Running, Prepared, Flushing
    <3> QED BY <1>1, <2>5, <3>1 DEF EraseVerify, IInv, Types, TypeOK
  <2>6. CASE EraseSector \/ WriteBlock
    <3>1. /\ sm_idx = Target(image) /\ sm_idx \in Areas /\ Opened(sm_idx)
          /\ Flushing /\ at # "flush" /\ verify' = verify
      BY <1>1, <2>6 DEF EraseSector, WriteBlock, IInv, Running, Prepared,
                        Flushing
    <3>2. \A a \in Areas \ {sm_idx} : upgrade'[a] = upgrade[a]
      BY <1>1, <2>6, <3>1, SlotTypes, SlotChanged DEF EraseSector, WriteBlock
    <3> QED BY <3>1, <3>2 DEF Opened
  <2>7. CASE PowerLoss
    BY <1>1, <2>7, CutOffTypes DEF Opened
  <2> QED BY <1>1, <2>1, <2>3, <2>4, <2>5, <2>6, <2>7 DEF Next, Flush
<1>2. IInv /\ [Next]_vars => [Kept]_vars
  BY <1>1
<1> QED BY <1>2, Invariance, PTL DEF Spec, OnlyTheSlotNamed

=============================================================================
