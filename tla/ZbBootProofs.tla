----------------------------- MODULE ZbBootProofs ----------------------------
(***************************************************************************)
(* Proofs about the start of a ZB-8 device, for every number of sectors,   *)
(* every set of images and both layouts.  Power may fail once between two  *)
(* uploads: the second failure can come in the move of an image that the   *)
(* log still wants confirmed, and then FINALISE confirms what is left of   *)
(* it (TLC finds this with MaxLosses = 2).                                 *)
(***************************************************************************)
EXTENDS ZbBoot, SequenceTheorems, TLAPS

Pieces == [of : Images, part : Part, form : {"whole"}]

Cell == [of : Images \cup {None}, part : Part,
         form : {"whole", "broken", "blank", "torn"}]

Op ==
  {Unverify, Sign, Exchange} \cup {Log(w) : w \in {"exchange", "finalise", "end"}}
    \cup [op : {"erase"}, to : Address]
    \cup [op : {"write"}, to : Address, cell : Pieces]
    \cup [op : {"copy"}, from : Address, to : Address]

Places == {"fsl", "dead", "move", "swapper", "swap", "swapped", "app", "loader"}

Types ==
  /\ flash \in [Address -> Cell]
  /\ layout \in BOOLEAN
  /\ log \in {"exchange", "finalise", "end"}
  /\ at \in Places
  /\ ops \in Seq(Op)
  /\ losses \in 0..MaxLosses

(* VERIFY has the CRC of a whole image, or none.                           *)
Crc ==
  \/ verify = NoCrc
  \/ verify[0].of # None /\ verify = [i \in Part |-> Piece(verify[0].of, i)]

(* The area of the swapper, or of the loader, has what runs there, or the  *)
(* image for it is in the run slot and its move starts anew.               *)
Good(k) == Whole(k) /\ Image(k).kind = k

Homes ==
  \A k \in Moved : \/ Good(k)
                   \/ at \in {"fsl", "move"} /\ Verified /\ RunsFrom("run", k)

(* What a swap apart leaves in the run slot is whole, and so is what       *)
(* replaces it.                                                            *)
WholeIfAny == HasHdr("run") => Whole("run")

Logged ==
  /\ layout => log = "end"
  /\ log = "exchange" => /\ Whole("upgrade") /\ ~ Verified
                         /\ at \in {"fsl", "dead", "swapper", "swap"}
  /\ log = "finalise" =>
       /\ WholeIfAny
       /\ Verified /\ Image("run").kind \in Moved =>
            losses > 0 \/ at \in {"swap", "swapped"}
       /\ at = "move" => losses > 0

RunImage ==
  /\ ~ layout /\ RunsFrom("run", "run") => Whole("run")
  /\ at = "app" => RunsFrom("run", "run") /\ Whole("run")
  /\ at = "loader" /\ ~ layout => RunsFrom("run", "run")

(* What is still to be done.                                               *)
ToUpgrade(o) ==
  o.op \in {"erase", "write"} /\ o.to[1] = (IF layout THEN "run" ELSE "upgrade")
                              /\ (layout => o.to[2] > 0)

Uploading ==
  at \in {"app", "loader"} =>
    \A j \in 1..Len(ops) :
      \/ ops[j] = Unverify
      \/ ops[j] = Sign /\ at = "app"
      \/ ToUpgrade(ops[j]) /\ (at = "loader" \/ ~ layout)

MoveOp(k, j) ==
  IF j <= Parts THEN Erase(k, j - 1)
  ELSE IF j <= 2 * Parts THEN Copy("run", k, j - Parts - 1)
  ELSE Erase("run", j - 2 * Parts - 1)

ToDo(k, n) ==
  /\ Len(ops) = 3 * Parts - n
  /\ \A j \in 1..Len(ops) : ops[j] = MoveOp(k, n + j)

ToErase(k, n) == n <= Parts => \A i \in 0..n - 1 : flash[<<k, i>>] = Blank

ToCopy(k, n) ==
  Parts <= n /\ n <= 2 * Parts =>
    \A i \in Part : flash[<<k, i>>] = IF i < n - Parts THEN flash[<<"run", i>>]
                                      ELSE Blank

Moves(k, n) ==
  /\ ToDo(k, n)
  /\ n <= 2 * Parts => Verified /\ RunsFrom("run", k)
  /\ ToErase(k, n)
  /\ ToCopy(k, n)
  /\ 2 * Parts <= n => Good(k)
  /\ 2 * Parts < n => flash[<<"run", 0>>] = Blank

Moving == at = "move" => \E k \in Moved, n \in 0..3 * Parts : Moves(k, n)

SwapsApart ==
  at = "swap" /\ ~ layout =>
    \/ log = "end" /\ ops = SwapOps /\ Whole("upgrade") /\ ~ Verified
    \/ log = "exchange" /\ ops = <<Exchange>>
    \/ log = "finalise" /\ ops = <<>>

InPlace(m, i, n) ==
  /\ m # None
  /\ Len(ops) = 2 * (Parts - i) - n
  /\ \A j \in 1..Len(ops) : ops[j] = InPlaceOps[2 * i + n + j]
  /\ \A j \in Part : IF j < i THEN flash[<<"run", j>>] = Piece(m, j)
                     ELSE flash[<<"run", j + 1>>] = Piece(m, j)
  /\ n = 1 => flash[<<"run", i>>] = Blank

SwapsInPlace ==
  at = "swap" /\ layout =>
    \E m \in {flash[<<"run", 0>>].of, flash[<<"run", 1>>].of},
       i \in 0..Parts, n \in {0, 1} : InPlace(m, i, n)

Finalises ==
  at = "swapped" =>
    /\ WholeIfAny
    /\ ops \in IF log = "end" THEN {<<>>, <<Sign>>, <<Unverify, Sign>>}
               ELSE {<<Log("end")>>, <<Sign, Log("end")>>,
                     <<Unverify, Sign, Log("end")>>}
    /\ ops \notin {<<>>, <<Log("end")>>} => HasHdr("run")

Waiting == at \in {"fsl", "dead", "swapper"} => ops = <<>>

Doing ==
  Uploading /\ Moving /\ SwapsApart /\ SwapsInPlace /\ Finalises /\ Waiting

IInv == Types /\ Crc /\ Homes /\ Logged /\ RunImage /\ Doing

-----------------------------------------------------------------------------
LEMMA Constants ==
  /\ Parts \in Nat /\ Parts > 1 /\ Part = 0..Parts - 1 /\ 0 \in Part /\ 1 \in Part
  /\ MaxLosses \in Nat
  /\ NoCrc # [i \in Part |-> flash[Addr("run", i)]]
<1>1. Parts \in Nat /\ Parts > 1 /\ MaxLosses \in Nat
  BY BootAssumption
<1>2. Part = 0..Parts - 1 /\ 0 \in Part /\ 1 \in Part
  BY <1>1 DEF Part
<1>3. DOMAIN [i \in Part |-> flash[Addr("run", i)]] = Part
  OBVIOUS
<1>4. DOMAIN NoCrc = {}
  BY DEF NoCrc
<1> QED BY <1>1, <1>2, <1>3, <1>4

(* What is verified is whole.                                              *)
LEMMA VerifiedWhole ==
  ASSUME Crc, Verified
  PROVE  Whole("run")
<1>1. verify = Content("run") /\ HasHdr("run")
  BY DEF Verified
<1>2. verify # NoCrc
  BY <1>1, Constants DEF Content
<1>3. verify = [i \in Part |-> Piece(verify[0].of, i)]
  BY <1>2 DEF Crc
<1>4. \A i \in Part : Content("run")[i] = Piece(verify[0].of, i)
  BY <1>1, <1>3
<1>5. Header("run") = Content("run")[0]
  BY Constants DEF Header, Content
<1>6. Header("run") = Piece(verify[0].of, 0)
  BY <1>4, <1>5, Constants
<1>7. Image("run") = verify[0].of
  BY <1>6 DEF Image, Piece
<1> QED BY <1>1, <1>4, <1>7 DEF Whole

(* What is seen when flash, VERIFY and the layout stay                     *)
Seen == <<flash, verify, layout>>

LEMMA Same ==
  ASSUME UNCHANGED Seen
  PROVE  /\ \A a : /\ Whole(a)' <=> Whole(a)
                   /\ HasHdr(a)' <=> HasHdr(a)
                   /\ Image(a)' = Image(a)
         /\ \A a, k : RunsFrom(a, k)' <=> RunsFrom(a, k)
         /\ Verified' <=> Verified
         /\ \A k : Good(k)' <=> Good(k)
         /\ WholeIfAny' <=> WholeIfAny
         /\ Crc' <=> Crc
<1>0. flash' = flash /\ verify' = verify /\ layout' = layout
  BY DEF Seen
<1>1. \A a, i : Addr(a, i)' = Addr(a, i)
  BY <1>0 DEF Addr
<1>2. \A a : Content(a)' = Content(a) /\ Header(a)' = Header(a)
  BY <1>0, <1>1 DEF Content, Header
<1>3. \A a : (HasHdr(a)' <=> HasHdr(a)) /\ Image(a)' = Image(a)
  BY <1>2 DEF HasHdr, Image
<1>4. \A a : Whole(a)' <=> Whole(a)
  BY <1>2, <1>3 DEF Whole
<1>5. \A a, k : RunsFrom(a, k)' <=> RunsFrom(a, k)
  BY <1>3 DEF RunsFrom
<1>6. Verified' <=> Verified
  BY <1>0, <1>2, <1>3 DEF Verified
<1>7. \A k : Good(k)' <=> Good(k)
  BY <1>3, <1>4 DEF Good
<1>8. WholeIfAny' <=> WholeIfAny
  BY <1>3, <1>4 DEF WholeIfAny
<1>9. Crc' <=> Crc
  BY <1>0 DEF Crc
<1> QED BY <1>3, <1>4, <1>5, <1>6, <1>7, <1>8, <1>9

-----------------------------------------------------------------------------
(* A step that changes neither flash nor VERIFY nor the log                *)
LEMMA Kept ==
  ASSUME IInv, UNCHANGED Seen, log' = log,
         at' \in Places, ops' \in Seq(Op), losses' \in 0..MaxLosses,
         \A k \in Moved :
           Good(k) \/ (at' \in {"fsl", "move"} /\ Verified /\ RunsFrom("run", k)),
         log = "exchange" => at' \in {"fsl", "dead", "swapper", "swap"},
         log = "finalise" =>
           /\ Verified /\ Image("run").kind \in Moved =>
                losses' > 0 \/ at' \in {"swap", "swapped"}
           /\ at' = "move" => losses' > 0,
         at' = "app" => RunsFrom("run", "run") /\ Whole("run"),
         at' = "loader" /\ ~ layout => RunsFrom("run", "run"),
         Doing'
  PROVE  IInv'
<1>0. flash' = flash /\ verify' = verify /\ layout' = layout
  BY DEF Seen
<1>1. Types'
  BY <1>0 DEF IInv, Types
<1>2. Crc'
  BY Same DEF IInv
<1>3. Homes'
  BY Same DEF Homes
<1>4. Logged'
  <2>1. (log = "exchange" => Whole("upgrade") /\ ~ Verified)
         /\ (log = "finalise" => WholeIfAny) /\ (layout => log = "end")
    BY DEF IInv, Logged
  <2> QED BY <2>1, <1>0, Same DEF Logged
<1>5. RunImage'
  <2>1. ~ layout /\ RunsFrom("run", "run") => Whole("run")
    BY DEF IInv, RunImage
  <2> QED BY <2>1, <1>0, Same DEF RunImage
<1> QED BY <1>1, <1>2, <1>3, <1>4, <1>5 DEF IInv

LEMMA Empty ==
  /\ <<>> \in Seq(Op) /\ Len(<<>>) = 0
OBVIOUS

(* Nothing is left to do.                                                  *)
LEMMA Rests ==
  ASSUME ops' = <<>>, at' \in {"fsl", "dead", "swapper", "app", "loader"}
  PROVE  Doing'
<1>1. Uploading'
  BY Empty DEF Uploading
<1>2. Moving' /\ SwapsApart' /\ SwapsInPlace' /\ Finalises' /\ Waiting'
  BY DEF Moving, SwapsApart, SwapsInPlace, Finalises, Waiting
<1> QED BY <1>1, <1>2 DEF Doing

(* zb_fsl_move                                                             *)
LEMMA MoveOpsAre ==
  ASSUME NEW k \in Moved
  PROVE  /\ MoveOps(k) \in Seq(Op) /\ Len(MoveOps(k)) = 3 * Parts
         /\ \A j \in 1..3 * Parts : MoveOps(k)[j] = MoveOp(k, j)
<1> DEFINE C == [i \in 1..Parts |-> Copy("run", k, i - 1)]
           E(a) == [i \in 1..Parts |-> Erase(a, i - 1)]
<1>1. Parts \in Nat /\ \A i \in 1..Parts : i - 1 \in Part
  BY Constants
<1>2. \A i \in 1..Parts : <<"run", i - 1>> \in Address /\ <<k, i - 1>> \in Address
  BY <1>1 DEF Address, Moved, Part
<1>3. \A i : Addr("run", i) = <<"run", i>> /\ Addr(k, i) = <<k, i>>
  BY DEF Addr, Moved
<1>4. \A i \in 1..Parts : /\ Erase(k, i - 1) \in Op /\ Erase("run", i - 1) \in Op
                          /\ Copy("run", k, i - 1) \in Op
  BY <1>2, <1>3 DEF Erase, Copy, Op
<1>5. E(k) \in Seq(Op) /\ E("run") \in Seq(Op) /\ C \in Seq(Op)
  BY <1>1, <1>4
<1>6. Len(E(k)) = Parts /\ Len(E("run")) = Parts /\ Len(C) = Parts
  BY <1>1
<1>7. MoveOps(k) = E(k) \o C \o E("run")
  BY DEF MoveOps, EraseAll, CopyAll
<1>8. \A j \in 1..Parts : /\ E(k)[j] = Erase(k, j - 1) /\ C[j] = Copy("run", k, j - 1)
                          /\ E("run")[j] = Erase("run", j - 1)
  OBVIOUS
<1> HIDE DEF E, C
<1>9. /\ MoveOps(k) \in Seq(Op) /\ Len(MoveOps(k)) = 3 * Parts
      /\ \A j \in 1..Parts : /\ MoveOps(k)[j] = E(k)[j]
                            /\ MoveOps(k)[Parts + j] = C[j]
                            /\ MoveOps(k)[2 * Parts + j] = E("run")[j]
  <2>1. PICK e \in Seq(Op), c \in Seq(Op), r \in Seq(Op) :
           e = E(k) /\ c = C /\ r = E("run") /\ Len(e) = Parts /\ Len(c) = Parts
             /\ Len(r) = Parts
    BY <1>5, <1>6
  <2>2. e \o c \in Seq(Op) /\ Len(e \o c) = Parts + Parts
    BY <2>1
  <2>3. \A j \in 1..Parts : (e \o c)[j] = e[j] /\ (e \o c)[Parts + j] = c[j]
    BY <1>1, <2>1
  <2> DEFINE ec == e \o c
  <2>4. ec \in Seq(Op) /\ Len(ec) = Parts + Parts
    BY <2>2
  <2> HIDE DEF ec
  <2>5. ec \o r \in Seq(Op) /\ Len(ec \o r) = 3 * Parts
    BY <1>1, <2>1, <2>4
  <2>6. \A j \in 1..Parts : /\ (ec \o r)[j] = ec[j] /\ (ec \o r)[Parts + j] = ec[Parts + j]
                            /\ (ec \o r)[2 * Parts + j] = r[j]
    BY <1>1, <2>1, <2>4
  <2> QED BY <1>7, <2>1, <2>3, <2>5, <2>6 DEF ec
<1>10. ASSUME NEW j \in 1..3 * Parts
       PROVE  MoveOps(k)[j] = MoveOp(k, j)
  <2>1. CASE j <= Parts
    <3>1. j \in 1..Parts
      BY <2>1, <1>1
    <3> QED BY <2>1, <3>1, <1>8, <1>9 DEF MoveOp
  <2>2. CASE Parts < j /\ j <= 2 * Parts
    <3>1. j - Parts \in 1..Parts /\ ~ (j <= Parts) /\ Parts + (j - Parts) = j
      BY <2>2, <1>1
    <3>2. MoveOps(k)[j] = C[j - Parts]
      BY <3>1, <1>9
    <3> QED BY <2>2, <3>1, <3>2, <1>8 DEF MoveOp
  <2>3. CASE 2 * Parts < j
    <3>1. /\ j - 2 * Parts \in 1..Parts /\ ~ (j <= Parts) /\ ~ (j <= 2 * Parts)
          /\ 2 * Parts + (j - 2 * Parts) = j
      BY <2>3, <1>1
    <3>2. MoveOps(k)[j] = E("run")[j - 2 * Parts]
      BY <3>1, <1>9
    <3> QED BY <3>1, <3>2, <1>8 DEF MoveOp
  <2> QED BY <2>1, <2>2, <2>3, <1>1
<1> QED BY <1>9, <1>10

LEMMA Addresses ==
  /\ \A i \in Part : /\ <<"run", i>> \in Address /\ <<"run", i + 1>> \in Address
                      /\ \A a \in {"swpr", "ldr", "upgrade"} : <<a, i>> \in Address
  /\ \A i \in Part : Addr("upgrade", i) \in Address
  /\ \A a : a # "upgrade" => \A i : Addr(a, i) = <<a, i>>
<1>1. \A i \in Part : i \in 0..Parts /\ i + 1 \in 0..Parts
  BY Constants
<1>2. \A i \in Part : /\ <<"run", i>> \in Address /\ <<"run", i + 1>> \in Address
                      /\ \A a \in {"swpr", "ldr", "upgrade"} : <<a, i>> \in Address
  BY <1>1 DEF Address
<1>3. \A i \in Part : Addr("upgrade", i) \in Address
  BY <1>2 DEF Addr
<1>4. \A a : a # "upgrade" => \A i : Addr(a, i) = <<a, i>>
  BY DEF Addr
<1> QED BY <1>2, <1>3, <1>4

(* Where the processor is, what the areas hold.                            *)
LEMMA AtHome ==
  ASSUME IInv, at \notin {"fsl", "move"}
  PROVE  \A k \in Moved : Good(k)
BY DEF IInv, Homes

-----------------------------------------------------------------------------
(* The first stage loader                                                  *)
LEMMA StartRunInv ==
  ASSUME IInv, StartRun
  PROVE  IInv'
<1>1. /\ at = "fsl" /\ ops = <<>> /\ Verified /\ RunsFrom("run", "run") /\ at' = "app"
      /\ flash' = flash /\ verify' = verify /\ log' = log /\ layout' = layout
      /\ losses' = losses /\ ops' = ops
  BY DEF StartRun, Ready, Keep
<1>2. Whole("run")
  BY <1>1, VerifiedWhole DEF IInv
<1>3. \A k \in Moved : Good(k)
  BY <1>1 DEF IInv, Homes, RunsFrom, Moved
<1>4. log # "exchange" /\ Image("run").kind \notin Moved
  BY <1>1 DEF IInv, Logged, RunsFrom, Moved
<1>5. Doing'
  BY <1>1, Rests
<1> QED BY <1>1, <1>2, <1>3, <1>4, <1>5, Kept DEF IInv, Types, Places, Seen

LEMMA MoveImageInv ==
  ASSUME IInv, MoveImage
  PROVE  IInv'
<1>1. /\ at = "fsl" /\ Verified /\ at' = "move" /\ UNCHANGED Seen
      /\ flash' = flash /\ log' = log /\ layout' = layout /\ losses' = losses
  BY DEF MoveImage, Ready, Keep, Seen
<1>2. PICK k \in Moved : RunsFrom("run", k) /\ ops' = MoveOps(k)
  BY DEF MoveImage
<1>3. /\ ops' \in Seq(Op) /\ Len(ops') = 3 * Parts
      /\ \A j \in 1..3 * Parts : ops'[j] = MoveOp(k, j)
  BY <1>2, MoveOpsAre
<1>4. Moves(k, 0)'
  <2>1. \A j \in 1..Len(ops') : ops'[j] = MoveOp(k, 0 + j)
    BY <1>3, Constants
  <2>2. Verified' /\ RunsFrom("run", k)'
    BY <1>1, <1>2, Same
  <2>3. Len(ops') = 3 * Parts - 0 /\ ~ (Parts <= 0) /\ ~ (2 * Parts <= 0)
    BY <1>3, Constants
  <2>4. MoveOp(k, 0 + 1)' = MoveOp(k, 0 + 1) /\ \A j : MoveOp(k, j)' = MoveOp(k, j)
    BY <1>1 DEF MoveOp, Erase, Copy, Addr
  <2>5. \A i \in 0..0 - 1 : FALSE
    OBVIOUS
  <2> QED BY <2>1, <2>2, <2>3, <2>4, <2>5, Constants DEF Moves, ToDo, ToErase, ToCopy
<1>5. Doing'
  <2>1. Moving'
    <3>1. 0 \in 0..3 * Parts
      BY Constants
    <3> QED BY <1>4, <3>1 DEF Moving
  <2> QED BY <1>1, <2>1 DEF Doing, Uploading, SwapsApart, SwapsInPlace, Finalises,
                            Waiting
<1>6. \A m \in Moved : Good(m) \/ RunsFrom("run", m)
  BY DEF IInv, Homes
<1>7. log # "exchange"
  BY <1>1 DEF IInv, Logged
<1>8. log = "finalise" => losses > 0
  BY <1>1, <1>2 DEF IInv, Logged, RunsFrom
<1> QED BY <1>1, <1>3, <1>5, <1>6, <1>7, <1>8, Kept DEF IInv, Types, Places

LEMMA StartSwapperInv ==
  ASSUME IInv, StartSwapper
  PROVE  IInv'
<1>1. /\ at \in {"fsl", "move"} /\ ops = <<>> /\ at' = Jump("swpr", "swapper")
      /\ ops' = ops /\ UNCHANGED Seen /\ log' = log /\ layout' = layout
      /\ losses' = losses
  BY DEF StartSwapper, Ready, Keep, Seen
<1>2. ASSUME at = "move"
      PROVE  \E k \in Moved : Good(k) /\ flash[<<"run", 0>>] = Blank
  <2>1. PICK k \in Moved, n \in 0..3 * Parts : Moves(k, n)
    BY <1>2 DEF IInv, Doing, Moving
  <2>2. 3 * Parts - n = 0
    BY <1>1, <2>1, Empty DEF Moves, ToDo, ToErase, ToCopy
  <2>3. 2 * Parts <= n /\ 2 * Parts < n
    BY <2>2, Constants
  <2> QED BY <2>1, <2>3 DEF Moves, ToDo, ToErase, ToCopy
<1>3. at = "move" => ~ HasHdr("run")
  BY <1>2, Addresses DEF HasHdr, Header, Blank
<1>4. \A k \in Moved : Good(k)
  <2>1. CASE at = "move"
    BY <1>3, <2>1 DEF IInv, Homes, RunsFrom
  <2>2. CASE at = "fsl"
    BY <2>2 DEF IInv, Homes, StartSwapper, Ready
  <2> QED BY <1>1, <2>1, <2>2
<1>5. at' = "swapper"
  BY <1>1, <1>4 DEF Jump, RunsFrom, Good, Whole, Moved
<1>6. log = "finalise" /\ Verified /\ Image("run").kind \in Moved => losses > 0
  <2>1. CASE at = "move"
    BY <2>1, <1>3 DEF Verified
  <2>2. CASE at = "fsl"
    BY <2>2 DEF IInv, Logged
  <2> QED BY <1>1, <2>1, <2>2
<1>7. Doing'
  BY <1>1, <1>5, Rests
<1> QED BY <1>1, <1>4, <1>5, <1>6, <1>7, Kept DEF IInv, Types, Places

-----------------------------------------------------------------------------
(* The swapper                                                             *)
LEMMA Halves ==
  \A i \in Nat : /\ (2 * i + 1) % 2 = 1 /\ (2 * i + 2) % 2 # 1
                 /\ (2 * i + 1 - 1) \div 2 = i /\ (2 * i + 2 - 1) \div 2 = i
OBVIOUS

(* Sector i is erased, and the next one of the upgrade slot copied to it.  *)
LEMMA InPlaceOpsAre ==
  /\ DOMAIN InPlaceOps = 1..2 * Parts /\ Len(InPlaceOps) = 2 * Parts
  /\ \A i \in Part : /\ InPlaceOps[2 * i + 1] = Erase("run", i)
                      /\ InPlaceOps[2 * i + 2] = Copy("upgrade", "run", i)
  /\ InPlaceOps \in Seq(Op)
<1>1. DOMAIN InPlaceOps = 1..2 * Parts /\ Len(InPlaceOps) = 2 * Parts
  BY Constants DEF InPlaceOps
<1>2. ASSUME NEW i \in Part
      PROVE  /\ InPlaceOps[2 * i + 1] = Erase("run", i)
             /\ InPlaceOps[2 * i + 2] = Copy("upgrade", "run", i)
  <2>1. i \in Nat /\ 2 * i + 1 \in 1..2 * Parts /\ 2 * i + 2 \in 1..2 * Parts
    BY Constants
  <2> QED BY <2>1, Halves DEF InPlaceOps
<1>3. \A k \in 1..2 * Parts : (k - 1) \div 2 \in Part
  BY Constants
<1>4. \A i \in Part : Erase("run", i) \in Op /\ Copy("upgrade", "run", i) \in Op
  BY Addresses DEF Erase, Copy, Op
<1>5. \A k \in 1..2 * Parts : InPlaceOps[k] \in Op
  BY <1>3, <1>4 DEF InPlaceOps
<1>6. InPlaceOps = [k \in 1..2 * Parts |-> InPlaceOps[k]]
  BY DEF InPlaceOps
<1>7. 2 * Parts \in Nat
  BY Constants
<1>8. InPlaceOps \in [1..2 * Parts -> Op]
  BY <1>5, <1>6
<1> QED BY <1>1, <1>2, <1>7, <1>8

LEMMA SwapOpsAre ==
  /\ SwapOps \in Seq(Op) /\ Tail(SwapOps) = <<Exchange>> /\ <<Exchange>> \in Seq(Op)
  /\ SwapOps # <<>> /\ Head(SwapOps) = Log("exchange")
BY DEF SwapOps, Op

LEMMA AcceptInv ==
  ASSUME IInv, Accept
  PROVE  IInv'
<1>1. /\ at = "swapper" /\ at' = "swap" /\ ~ Verified /\ ~ Continues /\ UpgradeValid
      /\ ops' = (IF layout THEN InPlaceOps ELSE SwapOps)
      /\ UNCHANGED Seen /\ log' = log /\ layout' = layout /\ losses' = losses
      /\ flash' = flash
  BY DEF Accept, Ready, Keep, Seen
<1>2. Whole("upgrade")
  BY <1>1 DEF UpgradeValid
<1>3. ops' \in Seq(Op)
  BY <1>1, InPlaceOpsAre, SwapOpsAre
<1>4. \A k \in Moved : Good(k)
  BY <1>1, AtHome
<1>5. SwapsApart'
  <2>1. SwapOps' = SwapOps
    BY DEF SwapOps, Log, Exchange
  <2>2. ~ layout => log = "end"
    BY <1>1 DEF Continues
  <2> QED BY <1>1, <1>2, <2>1, <2>2, Same DEF SwapsApart
<1>6. ASSUME layout
      PROVE  SwapsInPlace'
  <2> DEFINE m == flash[<<"run", 1>>].of
  <2>1. \A i \in Part : Addr("upgrade", i) = <<"run", i + 1>>
    BY <1>6 DEF Addr
  <2>2. Header("upgrade") = flash[<<"run", 1>>]
    BY <2>1, Constants DEF Header
  <2>3. m # None /\ \A j \in Part : flash[<<"run", j + 1>>] = Piece(m, j)
    BY <1>2, <2>1, <2>2 DEF Whole, HasHdr, Image, Content
  <2>4. InPlaceOps' = InPlaceOps
    BY <1>1 DEF InPlaceOps, Erase, Copy, Addr
  <2>5. Len(ops') = 2 * (Parts - 0) - 0
    BY <1>1, <1>6, InPlaceOpsAre, Constants
  <2>6. \A j \in 1..Len(ops') : ops'[j] = InPlaceOps[2 * 0 + 0 + j]
    BY <1>1, <1>6
  <2>7. \A j \in Part : ~ (j < 0)
    BY Constants
  <2> HIDE DEF m
  <2>8. InPlace(m, 0, 0)'
    BY <2>3, <2>4, <2>5, <2>6, <2>7, <1>1 DEF InPlace, m
  <2>9. 0 \in 0..Parts /\ m' = flash'[<<"run", 1>>].of
    BY Constants DEF m
  <2> QED BY <2>8, <2>9 DEF SwapsInPlace
<1>7. Doing'
  <2>1. layout \/ SwapsInPlace'
    BY <1>1 DEF SwapsInPlace
  <2> QED BY <1>1, <1>5, <1>6, <2>1 DEF Doing, Uploading, Moving, Finalises, Waiting
<1> QED BY <1>1, <1>3, <1>4, <1>7, Kept DEF IInv, Types, Places

LEMMA ContinueInv ==
  ASSUME IInv, Continue
  PROVE  IInv'
<1>1. /\ at = "swapper" /\ at' = "swap" /\ ops = <<>> /\ ~ layout /\ log # "end"
      /\ UNCHANGED Seen /\ log' = log /\ layout' = layout /\ losses' = losses
  BY DEF Continue, Continues, Ready, Keep, Seen
<1>2. \/ log = "exchange" /\ ops' = <<Exchange>>
      \/ log = "finalise" /\ ops' = <<>>
  BY <1>1, SwapOpsAre DEF Continue
<1>3. ops' \in Seq(Op)
  BY <1>2, SwapOpsAre, Empty
<1>4. \A k \in Moved : Good(k)
  BY <1>1, AtHome
<1>5. Doing'
  <2>1. Exchange' = Exchange
    BY DEF Exchange
  <2> QED BY <1>1, <1>2, <2>1 DEF Doing, Uploading, Moving, SwapsApart, SwapsInPlace,
                                  Finalises, Waiting
<1> QED BY <1>1, <1>3, <1>4, <1>5, Kept DEF IInv, Types, Places

(* A swap that is done has put a whole image in the run slot, or none.     *)
LEMMA SwapDone ==
  ASSUME IInv, Ready("swap")
  PROVE  WholeIfAny /\ (log = "end" <=> layout) /\ log # "exchange"
<1>1. at = "swap" /\ ops = <<>> /\ Len(ops) = 0
  BY Empty DEF Ready
<1>2. CASE ~ layout
  <2>1. log = "finalise"
    BY <1>1, <1>2, SwapOpsAre DEF IInv, Doing, SwapsApart
  <2> QED BY <1>2, <2>1 DEF IInv, Logged
<1>3. CASE layout
  <2>1. PICK m \in {flash[<<"run", 0>>].of, flash[<<"run", 1>>].of},
             i \in 0..Parts, n \in {0, 1} : InPlace(m, i, n)
    BY <1>1, <1>3 DEF IInv, Doing, SwapsInPlace
  <2>2. 2 * (Parts - i) - n = 0
    BY <1>1, <2>1 DEF InPlace
  <2>3. i = Parts
    BY <2>2, Constants
  <2>4. \A j \in Part : flash[<<"run", j>>] = Piece(m, j)
    <3>1. \A j \in Part : j < i
      BY <2>3, Constants
    <3> QED BY <2>1, <3>1 DEF InPlace
  <2>5. \A j \in Part : Content("run")[j] = Piece(m, j)
    BY <2>4, Addresses DEF Content
  <2>6. Header("run") = Piece(m, 0)
    BY <2>4, Constants, Addresses DEF Header
  <2>7. Image("run") = m
    BY <2>6 DEF Image, Piece
  <2>8. WholeIfAny
    BY <2>5, <2>7 DEF WholeIfAny, Whole
  <2> QED BY <1>3, <2>8 DEF IInv, Logged
<1> QED BY <1>2, <1>3

LEMMA Appended ==
  ASSUME NEW a, NEW b, NEW c
  PROVE  <<a, b>> \o <<>> = <<a, b>> /\ <<a, b>> \o <<c>> = <<a, b, c>>
<1>1. <<a, b>> \o <<>> = <<a, b>>
  BY SMT
<1> DEFINE s == <<a, b>> \o <<c>>
           t == <<a, b, c>>
<1>2. s \in Seq({a, b, c}) /\ Len(s) = 3 /\ s[1] = a /\ s[2] = b /\ s[3] = c
  OBVIOUS
<1>3. t \in Seq({a, b, c}) /\ Len(t) = 3 /\ t[1] = a /\ t[2] = b /\ t[3] = c
  OBVIOUS
<1> HIDE DEF s, t
<1>4. \A i \in 1..Len(s) : i = 1 \/ i = 2 \/ i = 3
  BY <1>2
<1>5. s = t
  BY <1>2, <1>3, <1>4, SeqEqual
<1> QED BY <1>1, <1>5 DEF s, t

LEMMA FinaliseInv ==
  ASSUME IInv, Finalise
  PROVE  IInv'
<1>1. /\ at = "swap" /\ at' = "swapped" /\ Ready("swap")
      /\ UNCHANGED Seen /\ log' = log /\ layout' = layout /\ losses' = losses
  BY DEF Finalise, Ready, Keep, Seen
<1>2. WholeIfAny /\ (log = "end" <=> layout) /\ log # "exchange"
  BY <1>1, SwapDone
<1>3. /\ ops' \in IF log = "end" THEN {<<>>, <<Unverify, Sign>>}
                 ELSE {<<Log("end")>>, <<Unverify, Sign, Log("end")>>}
      /\ ops' \notin {<<>>, <<Log("end")>>} => HasHdr("run")
  <2>1. <<Unverify, Sign>> \o <<>> = <<Unverify, Sign>>
        /\ <<Unverify, Sign>> \o <<Log("end")>> = <<Unverify, Sign, Log("end")>>
    BY Appended
  <2> QED BY <1>2, <2>1 DEF Finalise
<1>4. ops' \in Seq(Op)
  <2>1. Unverify \in Op /\ Sign \in Op /\ Log("end") \in Op
    BY DEF Op
  <2>2. /\ <<>> \in Seq(Op) /\ <<Unverify, Sign>> \in Seq(Op) /\ <<Log("end")>> \in Seq(Op)
        /\ <<Unverify, Sign, Log("end")>> \in Seq(Op)
    BY <2>1
  <2> QED BY <1>3, <2>2
<1>5. Finalises'
  <2>1. Unverify' = Unverify /\ Sign' = Sign /\ Log("end")' = Log("end")
    BY DEF Unverify, Sign, Log
  <2>2. WholeIfAny' /\ (HasHdr("run")' <=> HasHdr("run"))
    BY <1>1, <1>2, Same
  <2> QED BY <1>1, <1>3, <2>1, <2>2 DEF Finalises
<1>6. \A k \in Moved : Good(k)
  BY <1>1, AtHome
<1>7. Doing'
  BY <1>1, <1>5 DEF Doing, Uploading, Moving, SwapsApart, SwapsInPlace, Waiting
<1> QED BY <1>1, <1>2, <1>4, <1>6, <1>7, Kept DEF IInv, Types, Places

LEMMA SwappedInv ==
  ASSUME IInv, Swapped
  PROVE  IInv'
<1>1. /\ ops = <<>> /\ UNCHANGED Seen /\ log' = log /\ layout' = layout
      /\ losses' = losses
      /\ at = "swapped" \/ (at = "swapper" /\ Verified)
  BY DEF Swapped, Ready, Keep, Seen
<1>2. ops' = <<>>
  BY <1>1 DEF Swapped, Fsl
<1>3. /\ at' \in {"fsl", "app", "dead"}
      /\ at' = "app" => RunsFrom("run", "run")
      /\ at' = "fsl" \/ ~ (RunsFrom("run", "swpr") \/ RunsFrom("run", "ldr"))
  BY DEF Swapped, Fsl, JumpRun, Jump
<1>4. log # "exchange"
  BY <1>1 DEF IInv, Logged
<1>5. log = "finalise" => at = "swapper"
  BY <1>1 DEF IInv, Doing, Finalises
<1>6. log = "finalise" /\ Verified /\ Image("run").kind \in Moved => losses > 0
  BY <1>5 DEF IInv, Logged
<1>7. HasHdr("run") => Whole("run")
  <2>1. CASE at = "swapped"
    BY <2>1 DEF IInv, Doing, Finalises, WholeIfAny
  <2>2. CASE Verified
    BY <2>2, VerifiedWhole DEF IInv
  <2> QED BY <1>1, <2>1, <2>2
<1>8. at' = "app" => Whole("run")
  BY <1>3, <1>7 DEF RunsFrom
<1>9. \A k \in Moved : Good(k)
  BY <1>1, AtHome
<1>10. Doing'
  BY <1>2, <1>3, Rests
<1> QED BY <1>1, <1>2, <1>3, <1>4, <1>6, <1>8, <1>9, <1>10, Empty, Kept
        DEF IInv, Types, Places

LEMMA BadImageInv ==
  ASSUME IInv, BadImage
  PROVE  IInv'
<1>1. /\ at = "swapper" /\ ops = <<>> /\ ops' = ops /\ UNCHANGED Seen /\ log' = log
      /\ layout' = layout /\ losses' = losses /\ ~ Verified /\ ~ Continues
  BY DEF BadImage, Ready, Keep, Seen
<1>2. \A k \in Moved : Good(k)
  BY <1>1, AtHome
<1>3. RunsFrom("ldr", "ldr")
  BY <1>2 DEF Good, Whole, RunsFrom, Moved
<1>4. log = "end"
  BY <1>1 DEF Continues, IInv, Logged
<1>5. \/ layout /\ at' = "loader"
      \/ ~ layout /\ at' = "app" /\ RunsFrom("run", "run")
      \/ at' = "dead"
  BY <1>3 DEF BadImage, JumpRun, Jump
<1>6. at' = "app" => Whole("run")
  BY <1>5 DEF IInv, RunImage
<1>7. Doing'
  BY <1>1, <1>5, Rests
<1> QED BY <1>1, <1>2, <1>4, <1>5, <1>6, <1>7, Kept DEF IInv, Types, Places

-----------------------------------------------------------------------------
(* The image in the run slot and the loader                                *)
LEMMA ConfirmInv ==
  ASSUME IInv, Confirm
  PROVE  IInv'
<1>1. /\ at = "app" /\ at' = at /\ ops' = <<Unverify, Sign>> /\ UNCHANGED Seen
      /\ log' = log /\ layout' = layout /\ losses' = losses
  BY DEF Confirm, Ready, Keep, Seen
<1>2. \A k \in Moved : Good(k)
  BY <1>1, AtHome
<1>3. /\ log # "exchange" /\ RunsFrom("run", "run") /\ Whole("run")
      /\ Image("run").kind \notin Moved
  BY <1>1 DEF IInv, Logged, RunImage, RunsFrom, Moved
<1>4. ops' \in Seq(Op)
  <2>1. Unverify \in Op /\ Sign \in Op
    BY DEF Op
  <2> QED BY <1>1, <2>1
<1>5. Uploading'
  <2>1. Unverify' = Unverify /\ Sign' = Sign
    BY DEF Unverify, Sign
  <2>2. \A j \in 1..Len(ops') : ops'[j] = Unverify \/ ops'[j] = Sign
    BY <1>1
  <2> QED BY <1>1, <2>1, <2>2 DEF Uploading
<1>6. Doing'
  BY <1>1, <1>5 DEF Doing, Moving, SwapsApart, SwapsInPlace, Finalises, Waiting
<1> QED BY <1>1, <1>2, <1>3, <1>4, <1>6, Kept DEF IInv, Types

LEMMA JumpToInv ==
  ASSUME IInv, NEW k \in {"swpr", "ldr"}, NEW place \in {"swapper", "loader"},
         JumpTo(k, place)
  PROVE  IInv'
<1>1. /\ at \in {"app", "loader"} /\ ops = <<>> /\ ops' = ops /\ at' = place
      /\ UNCHANGED Seen /\ log' = log /\ layout' = layout /\ losses' = losses
  BY DEF JumpTo, Ready, Keep, Seen
<1>2. \A m \in Moved : Good(m)
  BY <1>1, AtHome
<1>3. log # "exchange" /\ (~ layout => RunsFrom("run", "run"))
  BY <1>1 DEF IInv, Logged, RunImage
<1>4. log = "finalise" => Image("run").kind \notin Moved
  BY <1>3 DEF IInv, Logged, RunsFrom, Moved
<1>5. Doing'
  BY <1>1, Rests
<1> QED BY <1>1, <1>2, <1>3, <1>4, <1>5, Kept DEF IInv, Types, Places

LEMMA ResetInv ==
  ASSUME IInv, Reset
  PROVE  IInv'
<1>1. /\ at \in {"app", "loader", "dead"} /\ ops' = <<>> /\ at' = "fsl"
      /\ UNCHANGED Seen /\ log' = log /\ layout' = layout /\ losses' = losses
  BY DEF Reset, Fsl, Keep, Seen
<1>2. \A m \in Moved : Good(m)
  BY <1>1, AtHome
<1>3. log = "finalise" /\ Verified /\ Image("run").kind \in Moved => losses > 0
  BY <1>1 DEF IInv, Logged
<1>4. Doing'
  BY <1>1, Rests
<1> QED BY <1>1, <1>2, <1>3, <1>4, Empty, Kept DEF IInv, Types, Places

LEMMA UploadOpsAre ==
  ASSUME IInv, NEW m \in Images, Upload(m)
  PROVE  /\ ops' \in Seq(Op)
         /\ \A j \in 1..Len(ops') : ops'[j] = Unverify \/ ToUpgrade(ops'[j])
<1> DEFINE s == [k \in 1..2 * Parts |->
                   IF k % 2 = 1 THEN Erase("upgrade", (k - 1) \div 2)
                   ELSE Write("upgrade", (k - 1) \div 2, Piece(m, (k - 1) \div 2))]
           Ok == {o \in Op : o = Unverify \/ ToUpgrade(o)}
<1>1. \A k \in 1..2 * Parts : (k - 1) \div 2 \in Part
  BY Constants
<1>2. ASSUME NEW i \in Part
      PROVE  Erase("upgrade", i) \in Ok /\ Write("upgrade", i, Piece(m, i)) \in Ok
  <2>1. Addr("upgrade", i) \in Address /\ Piece(m, i) \in Pieces
    BY Addresses DEF Piece, Pieces
  <2>2. Erase("upgrade", i) \in Op /\ Write("upgrade", i, Piece(m, i)) \in Op
    BY <2>1 DEF Erase, Write, Op
  <2>3. /\ Addr("upgrade", i)[1] = (IF layout THEN "run" ELSE "upgrade")
        /\ layout => Addr("upgrade", i)[2] > 0
    BY Constants DEF Addr
  <2>4. ToUpgrade(Erase("upgrade", i)) /\ ToUpgrade(Write("upgrade", i, Piece(m, i)))
    BY <2>3 DEF ToUpgrade, Erase, Write
  <2> QED BY <2>2, <2>4
<1>3. Unverify \in Ok
  BY DEF Op
<1> HIDE DEF Ok
<1>4. 2 * Parts \in Nat
  BY Constants
<1>5. \A k \in 1..2 * Parts : s[k] \in Ok
  BY <1>1, <1>2
<1>6. s \in Seq(Ok)
  BY <1>4, <1>5
<1>7. ops' = (IF layout THEN <<>> ELSE <<Unverify>>) \o s
  BY DEF Upload
<1> HIDE DEF s
<1>8. ops' \in Seq(Ok)
  <2>1. <<>> \in Seq(Ok) /\ <<Unverify>> \in Seq(Ok)
    BY <1>3
  <2> QED BY <1>6, <1>7, <2>1, ConcatProperties
<1>9. ops' \in Seq(Op) /\ \A j \in 1..Len(ops') : ops'[j] \in Ok
  <2>1. \A o \in Ok : o \in Op
    BY DEF Ok
  <2>2. \A j \in 1..Len(ops') : ops'[j] \in Ok
    BY <1>8
  <2> QED BY <1>8, <2>1, <2>2
<1> QED BY <1>9 DEF Ok

LEMMA UploadInv ==
  ASSUME IInv, NEW m \in Images, Upload(m)
  PROVE  IInv'
<1>1. /\ Receives /\ UNCHANGED Seen /\ log' = log /\ layout' = layout /\ losses' = 0
      /\ at' = at /\ at \in {"app", "loader"} /\ (at = "loader" \/ ~ layout)
  BY DEF Upload, Receives, Seen
<1>2. \A k \in Moved : Good(k)
  BY <1>1, AtHome
<1>3. /\ log # "exchange" /\ (~ layout => RunsFrom("run", "run"))
      /\ at = "app" => RunsFrom("run", "run") /\ Whole("run")
  BY <1>1 DEF IInv, Logged, RunImage
<1>4. log = "finalise" => Image("run").kind \notin Moved
  BY <1>3 DEF IInv, Logged, RunsFrom, Moved
<1>5. Uploading'
  <2>1. \A o : ToUpgrade(o)' <=> ToUpgrade(o)
    BY <1>1 DEF ToUpgrade
  <2> QED BY <1>1, <2>1, UploadOpsAre DEF Uploading, Unverify
<1>6. Doing'
  BY <1>1, <1>5 DEF Doing, Moving, SwapsApart, SwapsInPlace, Finalises, Waiting
<1>7. 0 \in 0..MaxLosses
  BY Constants
<1> QED BY <1>1, <1>2, <1>3, <1>4, <1>6, <1>7, UploadOpsAre, Kept DEF IInv, Types

-----------------------------------------------------------------------------
(* What a step that changes flash leaves alone                             *)
LEMMA SameArea ==
  ASSUME NEW a, a # "upgrade", \A i \in Part : flash'[<<a, i>>] = flash[<<a, i>>]
  PROVE  /\ Content(a)' = Content(a)
         /\ Image(a)' = Image(a)
         /\ HasHdr(a)' <=> HasHdr(a)
         /\ Whole(a)' <=> Whole(a)
         /\ \A k : RunsFrom(a, k)' <=> RunsFrom(a, k)
         /\ Good(a)' <=> Good(a)
<1>1. \A i : Addr(a, i) = <<a, i>> /\ Addr(a, i)' = <<a, i>>
  BY DEF Addr
<1>2. Content(a)' = Content(a)
  BY <1>1 DEF Content
<1>3. Header(a)' = Header(a)
  BY <1>1, Constants DEF Header
<1>4. (HasHdr(a)' <=> HasHdr(a)) /\ Image(a)' = Image(a)
  BY <1>3 DEF HasHdr, Image
<1>5. Whole(a)' <=> Whole(a)
  BY <1>2, <1>4 DEF Whole
<1> QED BY <1>2, <1>4, <1>5 DEF RunsFrom, Good

LEMMA SameRun ==
  ASSUME \A i \in Part : flash'[<<"run", i>>] = flash[<<"run", i>>], verify' = verify
  PROVE  (Verified' <=> Verified) /\ (WholeIfAny' <=> WholeIfAny)
BY SameArea DEF Verified, WholeIfAny

(* One sector changes.                                                     *)
LEMMA OneSector ==
  ASSUME Types, NEW a, NEW n, <<a, n>> \in Address, NEW c \in Cell,
         flash' = [flash EXCEPT ![<<a, n>>] = c]
  PROVE  /\ flash' \in [Address -> Cell]
         /\ flash'[<<a, n>>] = c
         /\ \A b, i : <<b, i>> \in Address /\ <<b, i>> # <<a, n>> =>
              flash'[<<b, i>>] = flash[<<b, i>>]
         /\ \A b \in {"run", "swpr", "ldr"} : b # a =>
              \A i \in Part : flash'[<<b, i>>] = flash[<<b, i>>]
<1>1. flash \in [Address -> Cell]
  BY DEF Types
<1>2. /\ flash' \in [Address -> Cell]
      /\ flash'[<<a, n>>] = c
      /\ \A x \in Address : x # <<a, n>> => flash'[x] = flash[x]
  BY <1>1
<1>3. \A b \in {"run", "swpr", "ldr"} : \A i \in Part : <<b, i>> \in Address
  BY Addresses
<1> QED BY <1>2, <1>3

LEMMA Cells ==
  /\ Blank \in Cell /\ Torn \in Cell /\ Blank.of = None
  /\ \A c \in Pieces : c \in Cell
BY Constants DEF Blank, Torn, Cell, Pieces

LEMMA DamagedIs ==
  ASSUME NEW old \in Cell, NEW new \in Cell, NEW c \in Damaged(old, new)
  PROVE  c \in Cell /\ (c.of # None => c.of \in {old.of, new.of})
<1>1. CASE c \in {Blank, Torn}
  BY <1>1, Cells DEF Torn, Blank
<1>2. CASE \E x \in {old, new} : c = [x EXCEPT !.form = "broken"]
  BY <1>2 DEF Cell
<1> QED BY <1>1, <1>2 DEF Damaged

(* The operation that is executed                                          *)
LEMMA FirstCmd ==
  ASSUME IInv, ops # <<>>
  PROVE  /\ Head(ops) \in Op /\ Head(ops) = ops[1] /\ 1 \in 1..Len(ops)
         /\ Tail(ops) \in Seq(Op) /\ Len(Tail(ops)) = Len(ops) - 1
         /\ Len(ops) \in Nat /\ Len(ops) >= 1
         /\ \A j \in 1..Len(Tail(ops)) : Tail(ops)[j] = ops[j + 1] /\ j + 1 \in 1..Len(ops)
<1>1. ops \in Seq(Op)
  BY DEF IInv, Types
<1> QED BY <1>1

(* What it does                                                            *)
LEMMA Executed ==
  ASSUME IInv, Execute
  PROVE  /\ ops # <<>> /\ ops' = Tail(ops)
         /\ layout' = layout /\ at' = at /\ losses' = losses
         /\ Head(ops).op = "erase" =>
              /\ flash' = [flash EXCEPT ![Head(ops).to] = Blank]
              /\ verify' = verify /\ log' = log
         /\ Head(ops).op = "write" =>
              /\ flash' = Programmed(Head(ops).to, Head(ops).cell)
              /\ verify' = verify /\ log' = log
         /\ Head(ops).op = "copy" =>
              /\ flash' = Programmed(Head(ops).to, flash[Head(ops).from])
              /\ verify' = verify /\ log' = log
         /\ Head(ops) = Exchange =>
              flash' = Exchanged /\ verify' = verify /\ log' = "finalise"
         /\ Head(ops) = Unverify => flash' = flash /\ verify' = NoCrc /\ log' = log
         /\ Head(ops) = Sign => flash' = flash /\ verify' = Content("run") /\ log' = log
         /\ \A w : Head(ops) = Log(w) => flash' = flash /\ verify' = verify /\ log' = w
<1>1. ops # <<>> /\ ops' = Tail(ops) /\ layout' = layout /\ at' = at /\ losses' = losses
  BY DEF Execute
<1> DEFINE o == Head(ops)
<1>2. /\ flash' = CASE o.op = "erase" -> [flash EXCEPT ![o.to] = Blank]
                    [] o.op = "write" -> Programmed(o.to, o.cell)
                    [] o.op = "copy"  -> Programmed(o.to, flash[o.from])
                    [] o.op = "exchange" -> Exchanged
                    [] OTHER -> flash
      /\ verify' = CASE o.op = "unverify" -> NoCrc
                     [] o.op = "sign" -> Content("run")
                     [] OTHER -> verify
      /\ log' = CASE o.op = "log" -> o.what
                  [] o.op = "exchange" -> "finalise"
                  [] OTHER -> log
  BY DEF Execute
<1> HIDE DEF o
<1>3. /\ o = Exchange => o.op = "exchange"
      /\ o = Unverify => o.op = "unverify"
      /\ o = Sign => o.op = "sign"
      /\ \A w : o = Log(w) => o.op = "log" /\ o.what = w
  BY DEF Exchange, Unverify, Sign, Log
<1>4. o.op = "erase" => flash' = [flash EXCEPT ![o.to] = Blank] /\ verify' = verify /\ log' = log
  BY <1>2
<1>5. o.op = "write" => flash' = Programmed(o.to, o.cell) /\ verify' = verify /\ log' = log
  BY <1>2
<1>6. o.op = "copy" => flash' = Programmed(o.to, flash[o.from]) /\ verify' = verify /\ log' = log
  BY <1>2
<1>7. o.op = "exchange" => flash' = Exchanged /\ verify' = verify /\ log' = "finalise"
  BY <1>2
<1>8. o.op = "unverify" => flash' = flash /\ verify' = NoCrc /\ log' = log
  BY <1>2
<1>9. o.op = "sign" => flash' = flash /\ verify' = Content("run") /\ log' = log
  BY <1>2
<1>10. o.op = "log" => flash' = flash /\ verify' = verify /\ log' = o.what
  BY <1>2
<1> QED BY <1>1, <1>3, <1>4, <1>5, <1>6, <1>7, <1>8, <1>9, <1>10 DEF o

(* VERIFY is erased, or gets the CRC of the run slot.                      *)
LEMMA Erased ==
  ASSUME verify' = NoCrc
  PROVE  Crc' /\ ~ Verified'
<1>1. DOMAIN Content("run")' = Part
  BY DEF Content
<1>2. NoCrc # Content("run")'
  BY <1>1, Constants DEF NoCrc
<1>3. NoCrc' = NoCrc
  BY DEF NoCrc
<1> QED BY <1>2, <1>3 DEF Crc, Verified

LEMMA Signed ==
  ASSUME Whole("run"), verify' = Content("run")
  PROVE  Crc'
<1>1. \A i \in Part : Content("run")[i] = Piece(Image("run"), i)
  BY DEF Whole
<1>2. Content("run") = [i \in Part |-> Piece(Image("run"), i)]
  BY <1>1 DEF Content
<1>3. Content("run")[0].of = Image("run")
  <2>1. Content("run")[0] = Piece(Image("run"), 0)
    BY <1>1, Constants
  <2> QED BY <2>1 DEF Piece
<1>4. Image("run") # None
  BY DEF Whole, HasHdr, Image
<1> QED BY <1>2, <1>3, <1>4 DEF Crc, Piece

LEMMA SameFlash ==
  ASSUME flash' = flash, layout' = layout
  PROVE  /\ \A a : /\ Whole(a)' <=> Whole(a)
                   /\ HasHdr(a)' <=> HasHdr(a)
                   /\ Image(a)' = Image(a)
         /\ \A a, k : RunsFrom(a, k)' <=> RunsFrom(a, k)
         /\ \A k : Good(k)' <=> Good(k)
         /\ WholeIfAny' <=> WholeIfAny
         /\ verify' = verify => Verified' = Verified
<1>1. \A a, i : Addr(a, i)' = Addr(a, i)
  BY DEF Addr
<1>2. \A a : Content(a)' = Content(a) /\ Header(a)' = Header(a)
  BY <1>1 DEF Content, Header
<1>3. \A a : (HasHdr(a)' <=> HasHdr(a)) /\ Image(a)' = Image(a)
  BY <1>2 DEF HasHdr, Image
<1>4. \A a : Whole(a)' <=> Whole(a)
  BY <1>2, <1>3 DEF Whole
<1>5. \A a, k : RunsFrom(a, k)' <=> RunsFrom(a, k)
  BY <1>3 DEF RunsFrom
<1>6. \A k : Good(k)' <=> Good(k)
  BY <1>3, <1>4 DEF Good
<1>7. WholeIfAny' <=> WholeIfAny
  BY <1>3, <1>4 DEF WholeIfAny
<1>8. verify' = verify => Verified' = Verified
  BY <1>2, <1>3 DEF Verified
<1> QED BY <1>3, <1>4, <1>5, <1>6, <1>7, <1>8

(* An upload that is written to the upgrade slot.                          *)
LEMMA ToUpgradeIs ==
  ASSUME NEW o \in Op, ToUpgrade(o)
  PROVE  \E n : /\ o.to = <<IF layout THEN "run" ELSE "upgrade", n>>
                /\ o.to \in Address
<1>1. o.op \in {"erase", "write"}
  BY DEF ToUpgrade
<1>2. o.to \in Address
  BY <1>1 DEF Op, Unverify, Sign, Exchange, Log
<1>3. o.to = <<o.to[1], o.to[2]>>
  BY <1>2 DEF Address
<1> QED BY <1>2, <1>3 DEF ToUpgrade

LEMMA UpgradeCell ==
  ASSUME IInv, NEW o \in Op, ToUpgrade(o), NEW c \in Cell, layout' = layout,
         verify' = verify, flash' = [flash EXCEPT ![o.to] = c]
  PROVE  /\ flash' \in [Address -> Cell] /\ Crc'
         /\ \A k \in Moved : Good(k)' <=> Good(k)
         /\ ~ layout => /\ RunsFrom("run", "run")' <=> RunsFrom("run", "run")
                        /\ Whole("run")' <=> Whole("run")
                        /\ Image("run")' = Image("run")
                        /\ Verified' <=> Verified
                        /\ WholeIfAny' <=> WholeIfAny
<1> DEFINE a == IF layout THEN "run" ELSE "upgrade"
<1>0. Types /\ Crc
  BY DEF IInv
<1>1. PICK n : o.to = <<a, n>> /\ o.to \in Address
  BY ToUpgradeIs
<1>2. a \notin {"swpr", "ldr"} /\ (~ layout => a # "run")
  OBVIOUS
<1> HIDE DEF a
<1>3. /\ flash' \in [Address -> Cell]
      /\ \A b \in {"run", "swpr", "ldr"} : b # a =>
           \A i \in Part : flash'[<<b, i>>] = flash[<<b, i>>]
  <2>1. <<a, n>> \in Address /\ flash' = [flash EXCEPT ![<<a, n>>] = c]
    BY <1>1
  <2>2. flash' \in [Address -> Cell]
    BY <1>0, <2>1, OneSector
  <2>3. ASSUME NEW b \in {"run", "swpr", "ldr"}, b # a, NEW i \in Part
        PROVE  flash'[<<b, i>>] = flash[<<b, i>>]
    BY <1>0, <2>1, <2>3, OneSector
  <2> QED BY <2>2, <2>3
<1>4. \A k \in Moved : Good(k)' <=> Good(k)
  <2>1. Good("swpr")' <=> Good("swpr")
    BY <1>2, <1>3, SameArea
  <2>2. Good("ldr")' <=> Good("ldr")
    BY <1>2, <1>3, SameArea
  <2> QED BY <2>1, <2>2 DEF Moved
<1>5. ASSUME ~ layout
      PROVE  /\ RunsFrom("run", "run")' <=> RunsFrom("run", "run")
             /\ Whole("run")' <=> Whole("run")
             /\ Image("run")' = Image("run")
             /\ Verified' <=> Verified
             /\ WholeIfAny' <=> WholeIfAny
  <2>1. \A i \in Part : flash'[<<"run", i>>] = flash[<<"run", i>>]
    BY <1>2, <1>3, <1>5
  <2> QED BY <2>1, SameArea, SameRun
<1>6. Crc'
  BY <1>0 DEF Crc, NoCrc, Piece
<1> QED BY <1>3, <1>4, <1>5, <1>6

After(x, c) == IF flash[x] = Blank THEN c ELSE Torn

LEMMA ProgrammedIs ==
  /\ \A x, c : Programmed(x, c) = [flash EXCEPT ![x] = After(x, c)]
  /\ \A x, c : c \in Cell => After(x, c) \in Cell
  /\ \A x, c : flash[x] = Blank => After(x, c) = c
BY Cells DEF Programmed, After

LEMMA UploadExecInv ==
  ASSUME IInv, Execute, at \in {"app", "loader"}
  PROVE  IInv'
<1>0. /\ Types /\ Crc /\ Logged /\ RunImage /\ Uploading /\ MaxLosses \in Nat
      /\ Head(ops) \in Op
  BY FirstCmd, Executed, Constants DEF IInv, Doing
<1>1. /\ ops # <<>> /\ ops' = Tail(ops) /\ layout' = layout /\ at' = at /\ losses' = losses
  BY Executed
<1>2. \/ Head(ops) = Unverify
      \/ Head(ops) = Sign /\ at = "app"
      \/ ToUpgrade(Head(ops)) /\ (at = "loader" \/ ~ layout)
  BY <1>0, <1>1, FirstCmd DEF Uploading
<1>3. Doing'
  <2>1. Uploading'
    <3>1. \A o : ToUpgrade(o)' <=> ToUpgrade(o)
      BY <1>1 DEF ToUpgrade
    <3>2. Unverify' = Unverify /\ Sign' = Sign
      BY DEF Unverify, Sign
    <3> QED BY <1>0, <1>1, <3>1, <3>2, FirstCmd DEF Uploading
  <2> QED BY <1>1, <2>1 DEF Doing, Moving, SwapsApart, SwapsInPlace, Finalises, Waiting
<1>4. \A k \in Moved : Good(k)
  BY AtHome
<1>5. log # "exchange" /\ ((at = "loader" /\ ~ layout) => RunsFrom("run", "run"))
      /\ (at = "app" => RunsFrom("run", "run") /\ Whole("run"))
  BY <1>0 DEF Logged, RunImage
<1>6. ~ layout => Image("run").kind \notin Moved
  BY <1>5 DEF RunsFrom, Moved
<1>7. ops' \in Seq(Op)
  BY <1>1, FirstCmd
<1>8. CASE Head(ops) = Unverify
  <2>1. flash' = flash /\ verify' = NoCrc /\ log' = log
    BY <1>8, Executed
  <2>2. Types'
    BY <1>0, <1>1, <1>7, <2>1 DEF Types
  <2>3. Crc' /\ ~ Verified'
    BY <2>1, Erased
  <2>4. Homes'
    BY <1>1, <1>4, <2>1, SameFlash DEF Homes
  <2>5. Logged' /\ RunImage'
    BY <1>0, <1>1, <2>1, <2>3, <1>5, SameFlash DEF Logged, RunImage
  <2> QED BY <1>3, <2>2, <2>3, <2>4, <2>5 DEF IInv
<1>9. CASE Head(ops) = Sign /\ at = "app"
  <2>1. flash' = flash /\ verify' = Content("run") /\ log' = log
    BY <1>9, Executed
  <2>2. Types'
    BY <1>0, <1>1, <1>7, <2>1 DEF Types
  <2>3. Crc'
    BY <2>1, <1>5, <1>9, Signed
  <2>4. Homes'
    BY <1>1, <1>4, <2>1, SameFlash DEF Homes
  <2>5. Logged'
    <3>1. Image("run")'.kind \notin Moved
      BY <1>1, <1>5, <1>9, <2>1, SameFlash DEF RunsFrom, Moved
    <3> QED BY <1>0, <1>1, <2>1, <1>5, <1>9, <3>1, SameFlash DEF Logged
  <2>6. RunImage'
    BY <1>0, <1>1, <2>1, <1>5, SameFlash DEF RunImage
  <2> QED BY <1>3, <2>2, <2>3, <2>4, <2>5, <2>6 DEF IInv
<1>10. CASE ToUpgrade(Head(ops)) /\ (at = "loader" \/ ~ layout)
  <2>0. PICK o \in Op : o = Head(ops)
    BY <1>0
  <2>1. PICK c \in Cell : flash' = [flash EXCEPT ![o.to] = c]
    <3>1. o.to \in Address
      BY <1>10, <2>0, ToUpgradeIs
    <3>2. CASE o.op = "erase"
      BY <2>0, <3>2, Executed, Cells
    <3>3. CASE o.op = "write"
      <4>1. o.cell \in Cell
        BY <3>3, Cells DEF Op, Unverify, Sign, Exchange, Log
      <4>2. flash' = Programmed(o.to, o.cell)
        BY <2>0, <3>3, Executed
      <4>3. PICK x \in Address, c \in Cell : x = o.to /\ c = o.cell
        BY <3>1, <4>1
      <4> QED BY <4>2, <4>3, ProgrammedIs
    <3> QED BY <1>10, <2>0, <3>2, <3>3 DEF ToUpgrade
  <2>2. verify' = verify /\ log' = log
    BY <1>10, <2>0, Executed DEF ToUpgrade
  <2>3. /\ flash' \in [Address -> Cell] /\ Crc'
        /\ \A k \in Moved : Good(k)' <=> Good(k)
        /\ ~ layout => /\ RunsFrom("run", "run")' <=> RunsFrom("run", "run")
                       /\ Whole("run")' <=> Whole("run")
                       /\ Image("run")' = Image("run")
                       /\ Verified' <=> Verified
                       /\ WholeIfAny' <=> WholeIfAny
    BY <1>1, <1>10, <2>0, <2>1, <2>2, UpgradeCell
  <2>4. Types'
    BY <1>0, <1>1, <1>7, <2>2, <2>3 DEF Types
  <2>5. Homes'
    BY <1>1, <1>4, <2>3 DEF Homes
  <2>6. Logged' /\ RunImage'
    BY <1>0, <1>1, <1>5, <1>6, <1>10, <2>2, <2>3 DEF Logged, RunImage
  <2> QED BY <1>3, <2>3, <2>4, <2>5, <2>6 DEF IInv
<1> QED BY <1>2, <1>8, <1>9, <1>10

LEMMA Tails ==
  ASSUME NEW a, NEW b, NEW c
  PROVE  /\ Tail(<<a>>) = <<>> /\ Head(<<a>>) = a
         /\ Tail(<<a, b>>) = <<b>> /\ Head(<<a, b>>) = a
         /\ Tail(<<a, b, c>>) = <<b, c>> /\ Head(<<a, b, c>>) = a
OBVIOUS

LEMMA SwappedExecInv ==
  ASSUME IInv, Execute, at = "swapped"
  PROVE  IInv'
<1>0. Types /\ Crc /\ Logged /\ RunImage /\ Finalises
  BY DEF IInv, Doing
<1>1. /\ ops # <<>> /\ ops' = Tail(ops) /\ layout' = layout /\ at' = at /\ losses' = losses
  BY Executed
<1>2. \A k \in Moved : Good(k)
  BY AtHome
<1>3. ops' \in Seq(Op)
  BY <1>1, FirstCmd
<1>4. /\ WholeIfAny
      /\ ops \in IF log = "end" THEN {<<Sign>>, <<Unverify, Sign>>}
               ELSE {<<Log("end")>>, <<Sign, Log("end")>>, <<Unverify, Sign, Log("end")>>}
      /\ ops # <<Log("end")>> => HasHdr("run")
  BY <1>0, <1>1 DEF Finalises
<1>5. log # "exchange"
  BY <1>0 DEF Logged
<1>6. /\ Unverify # Sign /\ Unverify # Log("end") /\ Sign # Log("end")
      /\ Unverify' = Unverify /\ Sign' = Sign /\ Log("end")' = Log("end")
  BY DEF Unverify, Sign, Log
<1>7. \/ Head(ops) = Unverify /\ ops' = <<Sign>> /\ log = "end" /\ HasHdr("run")
      \/ Head(ops) = Sign /\ ops' = <<>> /\ log = "end" /\ HasHdr("run")
      \/ /\ Head(ops) = Unverify /\ ops' = <<Sign, Log("end")>> /\ log # "end"
         /\ HasHdr("run")
      \/ Head(ops) = Sign /\ ops' = <<Log("end")>> /\ log # "end" /\ HasHdr("run")
      \/ Head(ops) = Log("end") /\ ops' = <<>> /\ log # "end"
  <2> HIDE DEF Finalises
  <2>1. CASE ops = <<Sign>>
    BY <2>1, <1>1, <1>4, <1>6, Tails
  <2>2. CASE ops = <<Unverify, Sign>>
    BY <2>2, <1>1, <1>4, <1>6, Tails
  <2>3. CASE ops = <<Log("end")>>
    BY <2>3, <1>1, <1>4, <1>6, Tails
  <2>4. CASE ops = <<Sign, Log("end")>>
    BY <2>4, <1>1, <1>4, <1>6, Tails
  <2>5. CASE ops = <<Unverify, Sign, Log("end")>>
    BY <2>5, <1>1, <1>4, <1>6, Tails
  <2> QED BY <1>4, <2>1, <2>2, <2>3, <2>4, <2>5
<1>8. /\ flash' = flash /\ Crc'
      /\ log' = IF Head(ops) = Log("end") THEN "end" ELSE log
  <2>1. CASE Head(ops) = Unverify
    BY <2>1, <1>6, Executed, Erased
  <2>2. CASE Head(ops) = Sign
    <3>1. Whole("run")
      BY <2>2, <1>4, <1>6, <1>7 DEF WholeIfAny
    <3> QED BY <2>2, <3>1, <1>6, Executed, Signed
  <2>3. CASE Head(ops) = Log("end")
    <3>1. flash' = flash /\ verify' = verify /\ log' = "end"
      BY <2>3, Executed
    <3> QED BY <2>3, <3>1, <1>0 DEF Crc, NoCrc, Piece
  <2> QED BY <1>7, <2>1, <2>2, <2>3
<1>9. Types'
  <2>1. log' \in {"exchange", "finalise", "end"}
    BY <1>0, <1>8 DEF Types
  <2> QED BY <1>0, <1>1, <1>3, <1>8, <2>1 DEF Types
<1>10. Homes'
  BY <1>1, <1>2, <1>8, SameFlash DEF Homes
<1>11. Logged' /\ RunImage'
  BY <1>0, <1>1, <1>4, <1>5, <1>8, SameFlash DEF Logged, RunImage
<1>12. Finalises'
  <2>1. WholeIfAny' /\ (HasHdr("run")' <=> HasHdr("run"))
    BY <1>1, <1>4, <1>8, SameFlash
  <2>2. log # "end" /\ Head(ops) # Log("end") => log' # "end"
    BY <1>8
  <2>3. /\ ops' \in IF log' = "end" THEN {<<>>, <<Sign>>, <<Unverify, Sign>>}
                   ELSE {<<Log("end")>>, <<Sign, Log("end")>>,
                         <<Unverify, Sign, Log("end")>>}
        /\ ops' \notin {<<>>, <<Log("end")>>} => HasHdr("run")
    BY <1>6, <1>7, <1>8, <2>2
  <2> QED BY <1>6, <2>1, <2>3 DEF Finalises
<1>13. Doing'
  BY <1>1, <1>12 DEF Doing, Uploading, Moving, SwapsApart, SwapsInPlace, Waiting
<1> QED BY <1>8, <1>9, <1>10, <1>11, <1>13 DEF IInv

(* A swap of images that have areas of their own                           *)
LEMMA ExchangedIs ==
  ASSUME Types, ~ layout, layout' = layout, Whole("upgrade"), flash' = Exchanged
  PROVE  /\ flash' \in [Address -> Cell]
         /\ Whole("run")'
         /\ \A k \in Moved : Good(k)' <=> Good(k)
<1>1. flash \in [Address -> Cell]
  BY DEF Types
<1>2. \A a, i : Addr(a, i) = <<a, i>> /\ Addr(a, i)' = <<a, i>>
  BY DEF Addr
<1>3. \A i \in Part : /\ <<"run", i>> \in Address /\ <<"upgrade", i>> \in Address
                      /\ <<"swpr", i>> \in Address /\ <<"ldr", i>> \in Address
  BY Addresses
<1>4. \A i \in Part : /\ flash'[<<"run", i>>] = flash[<<"upgrade", i>>]
                      /\ flash'[<<"swpr", i>>] = flash[<<"swpr", i>>]
                      /\ flash'[<<"ldr", i>>] = flash[<<"ldr", i>>]
  BY <1>2, <1>3 DEF Exchanged
<1>5. flash' \in [Address -> Cell]
  <2>1. ASSUME NEW x \in Address
        PROVE  Exchanged[x] \in Cell
    <3>1. CASE x \in {Addr("run", i) : i \in Part}
      <4>1. PICK i \in Part : x = <<"run", i>>
        BY <1>2, <3>1
      <4>2. Exchanged[x] = flash[<<"upgrade", i>>]
        BY <1>2, <3>1, <4>1 DEF Exchanged
      <4> QED BY <1>1, <1>3, <4>2
    <3>2. CASE x \in {Addr("upgrade", i) : i \in Part} /\ x \notin {Addr("run", i) : i \in Part}
      <4>1. PICK i \in Part : x = <<"upgrade", i>>
        BY <1>2, <3>2
      <4>2. Exchanged[x] \in {flash[<<"run", i>>], Blank, flash[x]}
        BY <1>2, <3>2, <4>1 DEF Exchanged
      <4> QED BY <1>1, <1>3, <4>2, Cells
    <3>3. CASE x \notin {Addr("upgrade", i) : i \in Part} /\ x \notin {Addr("run", i) : i \in Part}
      BY <1>1, <3>3 DEF Exchanged
    <3> QED BY <3>1, <3>2, <3>3
  <2>2. Exchanged = [x \in Address |-> Exchanged[x]]
    BY DEF Exchanged
  <2> QED BY <2>1, <2>2
<1>6. Whole("run")'
  <2>1. Content("run")' = Content("upgrade") /\ Header("run")' = Header("upgrade")
    BY <1>2, <1>4, Constants DEF Content, Header
  <2> QED BY <2>1 DEF Whole, HasHdr, Image
<1>7. (Good("swpr")' <=> Good("swpr")) /\ (Good("ldr")' <=> Good("ldr"))
  BY <1>4, SameArea
<1> QED BY <1>5, <1>6, <1>7 DEF Moved

LEMMA SwapExecInv ==
  ASSUME IInv, Execute, at = "swap", ~ layout
  PROVE  IInv'
<1>0. Types /\ Crc /\ Logged /\ RunImage /\ SwapsApart
  BY DEF IInv, Doing
<1>1. /\ ops # <<>> /\ ops' = Tail(ops) /\ layout' = layout /\ at' = at /\ losses' = losses
  BY Executed
<1>2. \A k \in Moved : Good(k)
  BY AtHome
<1>3. ops' \in Seq(Op)
  BY <1>1, FirstCmd
<1>4. \/ /\ log = "end" /\ Head(ops) = Log("exchange") /\ ops' = <<Exchange>>
         /\ Whole("upgrade") /\ ~ Verified
      \/ log = "exchange" /\ Head(ops) = Exchange /\ ops' = <<>>
  BY <1>0, <1>1, SwapOpsAre, Tails DEF SwapsApart
<1>5. Exchange' = Exchange
  BY DEF Exchange
<1>6. CASE log = "end" /\ Head(ops) = Log("exchange") /\ ops' = <<Exchange>>
            /\ Whole("upgrade") /\ ~ Verified
  <2>1. flash' = flash /\ verify' = verify /\ log' = "exchange"
    BY <1>6, Executed
  <2>2. Types'
    BY <1>0, <1>1, <1>3, <2>1 DEF Types
  <2>3. Crc'
    BY <1>0, <2>1 DEF Crc, NoCrc, Piece
  <2>4. Homes'
    BY <1>1, <1>2, <2>1, SameFlash DEF Homes
  <2>5. Logged' /\ RunImage'
    BY <1>0, <1>1, <1>6, <2>1, SameFlash DEF Logged, RunImage
  <2>6. Doing'
    BY <1>1, <1>5, <1>6, <2>1
       DEF Doing, Uploading, Moving, SwapsApart, SwapsInPlace, Finalises, Waiting
  <2> QED BY <2>2, <2>3, <2>4, <2>5, <2>6 DEF IInv
<1>7. CASE log = "exchange" /\ Head(ops) = Exchange /\ ops' = <<>>
  <2>1. flash' = Exchanged /\ verify' = verify /\ log' = "finalise"
    BY <1>7, Executed
  <2>2. Whole("upgrade")
    BY <1>0, <1>7 DEF Logged
  <2>3. /\ flash' \in [Address -> Cell] /\ Whole("run")'
        /\ \A k \in Moved : Good(k)' <=> Good(k)
    BY <1>0, <1>1, <2>1, <2>2, ExchangedIs
  <2>4. Types'
    BY <1>0, <1>1, <1>3, <2>1, <2>3 DEF Types
  <2>5. Crc'
    BY <1>0, <2>1 DEF Crc, NoCrc, Piece
  <2>6. Homes'
    BY <1>1, <1>2, <2>3 DEF Homes
  <2>7. Logged' /\ RunImage'
    BY <1>1, <2>1, <2>3 DEF Logged, RunImage, WholeIfAny
  <2>8. Doing'
    BY <1>1, <1>7, <2>1
       DEF Doing, Uploading, Moving, SwapsApart, SwapsInPlace, Finalises, Waiting
  <2> QED BY <2>4, <2>5, <2>6, <2>7, <2>8 DEF IInv
<1> QED BY <1>4, <1>6, <1>7

(* A swap in place                                                         *)
LEMMA InPlaceHead ==
  ASSUME IInv, ops # <<>>, layout, NEW m, NEW i \in 0..Parts, NEW n \in {0, 1},
         InPlace(m, i, n)
  PROVE  /\ i \in Part
         /\ n = 0 => Head(ops).op = "erase" /\ Head(ops).to = <<"run", i>>
         /\ n = 1 => /\ Head(ops).op = "copy" /\ Head(ops).to = <<"run", i>>
                     /\ Head(ops).from = <<"run", i + 1>>
<1>1. Len(ops) \in Nat /\ Len(ops) >= 1 /\ Head(ops) = ops[1] /\ 1 \in 1..Len(ops)
  BY FirstCmd
<1>2. Len(ops) = 2 * (Parts - i) - n
  BY DEF InPlace
<1>3. i \in Part
  BY <1>1, <1>2, Constants
<1>4. Head(ops) = InPlaceOps[2 * i + n + 1]
  BY <1>1 DEF InPlace
<1>5. Addr("upgrade", i) = <<"run", i + 1>> /\ Addr("run", i) = <<"run", i>>
  BY DEF Addr
<1>6. ASSUME n = 0
      PROVE  Head(ops).op = "erase" /\ Head(ops).to = <<"run", i>>
  <2>1. 2 * i + n + 1 = 2 * i + 1
    BY <1>6, <1>3, Constants
  <2>2. Head(ops) = Erase("run", i)
    BY <1>3, <1>4, <2>1, InPlaceOpsAre
  <2> QED BY <1>5, <2>2 DEF Erase
<1>7. ASSUME n = 1
      PROVE  /\ Head(ops).op = "copy" /\ Head(ops).to = <<"run", i>>
             /\ Head(ops).from = <<"run", i + 1>>
  <2>1. 2 * i + n + 1 = 2 * i + 2
    BY <1>7, <1>3, Constants
  <2>2. Head(ops) = Copy("upgrade", "run", i)
    BY <1>3, <1>4, <2>1, InPlaceOpsAre
  <2> QED BY <1>5, <2>2 DEF Copy
<1> QED BY <1>3, <1>6, <1>7

LEMMA InPlaceExecInv ==
  ASSUME IInv, Execute, at = "swap", layout
  PROVE  IInv'
<1>0. Types /\ Crc /\ Logged /\ SwapsInPlace
  BY DEF IInv, Doing
<1>1. /\ ops # <<>> /\ ops' = Tail(ops) /\ layout' = layout /\ at' = at /\ losses' = losses
  BY Executed
<1>2. \A k \in Moved : Good(k)
  BY AtHome
<1>3. ops' \in Seq(Op)
  BY <1>1, FirstCmd
<1>4. PICK m \in {flash[<<"run", 0>>].of, flash[<<"run", 1>>].of},
           i \in 0..Parts, n \in {0, 1} : InPlace(m, i, n)
  BY <1>0 DEF SwapsInPlace
<1>5. /\ i \in Part
      /\ n = 0 => Head(ops).op = "erase" /\ Head(ops).to = <<"run", i>>
      /\ n = 1 => /\ Head(ops).op = "copy" /\ Head(ops).to = <<"run", i>>
                  /\ Head(ops).from = <<"run", i + 1>>
  BY <1>1, <1>4, InPlaceHead
<1>6. /\ <<"run", i>> \in Address /\ <<"run", i + 1>> \in Address
      /\ flash[<<"run", i + 1>>] \in Cell
  BY <1>0, <1>5, Addresses DEF Types
<1>7. \A j \in Part : IF j < i THEN flash[<<"run", j>>] = Piece(m, j)
                     ELSE flash[<<"run", j + 1>>] = Piece(m, j)
  BY <1>4 DEF InPlace
<1>8. flash[<<"run", i + 1>>] = Piece(m, i)
  BY <1>5, <1>7, Constants
<1>c. PICK c : c = IF n = 0 THEN Blank ELSE Piece(m, i)
  OBVIOUS
<1>9. c \in Cell /\ flash' = [flash EXCEPT ![<<"run", i>>] = c]
  <2>1. CASE n = 0
    <3>1. flash' = [flash EXCEPT ![<<"run", i>>] = Blank]
      BY <1>5, <2>1, Executed
    <3> QED BY <1>c, <2>1, <3>1, Cells
  <2>2. CASE n = 1
    <3>1. flash[<<"run", i>>] = Blank
      BY <1>4, <2>2 DEF InPlace
    <3>2. flash' = Programmed(<<"run", i>>, flash[<<"run", i + 1>>])
      BY <1>5, <2>2, Executed
    <3>3. After(<<"run", i>>, flash[<<"run", i + 1>>]) = flash[<<"run", i + 1>>]
      BY <3>1, ProgrammedIs
    <3>4. flash' = [flash EXCEPT ![<<"run", i>>] = flash[<<"run", i + 1>>]]
      BY <3>2, <3>3, ProgrammedIs
    <3>5. c = flash[<<"run", i + 1>>]
      BY <1>c, <1>8, <2>2
    <3> QED BY <1>6, <3>4, <3>5
  <2> QED BY <2>1, <2>2
<1>10. verify' = verify /\ log' = log /\ log = "end"
  BY <1>0, <1>5, Executed DEF Logged
<1>11. /\ flash' \in [Address -> Cell]
       /\ flash'[<<"run", i>>] = c
       /\ \A b, j : <<b, j>> \in Address /\ <<b, j>> # <<"run", i>> =>
            flash'[<<b, j>>] = flash[<<b, j>>]
       /\ \A b \in {"run", "swpr", "ldr"} : b # "run" =>
            \A j \in Part : flash'[<<b, j>>] = flash[<<b, j>>]
  BY <1>0, <1>6, <1>9, OneSector
<1>12. \A j \in 0..Parts : j # i => flash'[<<"run", j>>] = flash[<<"run", j>>]
  <2>1. \A j \in 0..Parts : <<"run", j>> \in Address
    BY DEF Address
  <2> QED BY <2>1, <1>11
<1>13. Types' /\ Crc'
  BY <1>0, <1>1, <1>3, <1>10, <1>11 DEF Types, Crc, NoCrc, Piece
<1>14. Homes'
  <2>1. (Good("swpr")' <=> Good("swpr")) /\ (Good("ldr")' <=> Good("ldr"))
    BY <1>11, SameArea
  <2> QED BY <1>1, <1>2, <2>1 DEF Homes, Moved
<1>15. Logged' /\ RunImage'
  BY <1>1, <1>10 DEF Logged, RunImage
<1>16. SwapsInPlace'
  <2>1. PICK i2 \in 0..Parts, n2 \in {0, 1} :
           IF n = 0 THEN i2 = i /\ n2 = 1 ELSE i2 = i + 1 /\ n2 = 0
    BY <1>5, Constants
  <2>2. Len(ops') = 2 * (Parts - i2) - n2
    <3>1. Len(ops) = 2 * (Parts - i) - n /\ Len(ops') = Len(ops) - 1
      BY <1>1, <1>4, FirstCmd DEF InPlace
    <3>2. i \in Int /\ Parts \in Int
      BY <1>5, Constants
    <3>3. CASE n = 0
      BY <2>1, <3>1, <3>2, <3>3
    <3>4. CASE n = 1
      BY <2>1, <3>1, <3>2, <3>4
    <3> QED BY <3>3, <3>4
  <2>3. \A j \in 1..Len(ops') : ops'[j] = InPlaceOps[2 * i2 + n2 + j]
    <3>1. ASSUME NEW j \in 1..Len(ops')
          PROVE  ops'[j] = InPlaceOps[2 * i2 + n2 + j]
      <4>1. ops'[j] = ops[j + 1] /\ j + 1 \in 1..Len(ops)
        BY <1>1, FirstCmd
      <4>2. ops[j + 1] = InPlaceOps[2 * i + n + (j + 1)]
        BY <1>4, <4>1 DEF InPlace
      <4>3. j \in Int
        OBVIOUS
      <4>4. 2 * i + n + (j + 1) = 2 * i2 + n2 + j
        <5>1. i \in Int
          BY <1>5, Constants
        <5>2. CASE n = 0
          BY <2>1, <4>3, <5>1, <5>2
        <5>3. CASE n = 1
          BY <2>1, <4>3, <5>1, <5>3
        <5> QED BY <5>2, <5>3
      <4> QED BY <4>1, <4>2, <4>4
    <3> QED BY <3>1
  <2>4. \A j \in Part : IF j < i2 THEN flash'[<<"run", j>>] = Piece(m, j)
                       ELSE flash'[<<"run", j + 1>>] = Piece(m, j)
    <3>1. ASSUME NEW j \in Part, j < i
          PROVE  j < i2 /\ flash'[<<"run", j>>] = Piece(m, j)
      <4>1. j < i2 /\ j # i /\ j \in 0..Parts
        BY <3>1, <1>5, <2>1, Constants
      <4>2. flash[<<"run", j>>] = Piece(m, j)
        BY <3>1, <1>7
      <4> QED BY <4>1, <4>2, <1>12
    <3>2. ASSUME NEW j \in Part, ~ (j < i2)
          PROVE  flash'[<<"run", j + 1>>] = Piece(m, j)
      <4>1. ~ (j < i) /\ j + 1 \in 0..Parts /\ j + 1 # i
        BY <3>2, <1>5, <2>1, Constants
      <4> QED BY <4>1, <1>7, <1>12
    <3>3. ASSUME NEW j \in Part, ~ (j < i), j < i2
          PROVE  flash'[<<"run", j>>] = Piece(m, j)
      <4>1. j = i /\ n = 1
        BY <3>3, <1>5, <2>1, Constants
      <4> QED BY <4>1, <1>c, <1>11
    <3> QED BY <3>1, <3>2, <3>3
  <2>5. n2 = 1 => flash'[<<"run", i2>>] = Blank
    BY <1>c, <1>11, <2>1
  <2>6. m # None
    BY <1>4 DEF InPlace
  <2>7. InPlaceOps' = InPlaceOps
    BY <1>1 DEF InPlaceOps, Erase, Copy, Addr
  <2>8. InPlace(m, i2, n2)'
    BY <2>2, <2>3, <2>4, <2>5, <2>6, <2>7 DEF InPlace, Blank, Piece
  <2>9. m \in {flash'[<<"run", 0>>].of, flash'[<<"run", 1>>].of}
    <3>1. Piece(m, 0).of = m
      BY DEF Piece
    <3>2. flash'[<<"run", 0>>] = Piece(m, 0) \/ flash'[<<"run", 0 + 1>>] = Piece(m, 0)
      BY <2>4, Constants
    <3> QED BY <3>1, <3>2
  <2> QED BY <2>8, <2>9 DEF SwapsInPlace
<1>17. Doing'
  BY <1>1, <1>16 DEF Doing, Uploading, Moving, SwapsApart, Finalises, Waiting
<1> QED BY <1>13, <1>14, <1>15, <1>17 DEF IInv

(* The move of the first stage loader                                      *)
LEMMA MoveOpIs ==
  ASSUME NEW k, NEW j \in Nat
  PROVE  /\ j <= Parts => MoveOp(k, j) = Erase(k, j - 1)
         /\ ~ (j <= Parts) /\ j <= 2 * Parts =>
              MoveOp(k, j) = Copy("run", k, j - Parts - 1)
         /\ ~ (j <= Parts) /\ ~ (j <= 2 * Parts) =>
              MoveOp(k, j) = Erase("run", j - 2 * Parts - 1)
BY DEF MoveOp

LEMMA MoveHead ==
  ASSUME IInv, ops # <<>>, NEW k \in Moved, NEW n \in 0..3 * Parts, Moves(k, n)
  PROVE  /\ n < 3 * Parts
         /\ n < Parts => /\ Head(ops).op = "erase" /\ Head(ops).to = <<k, n>>
                        /\ n \in Part
         /\ Parts <= n /\ n < 2 * Parts =>
              /\ Head(ops).op = "copy" /\ Head(ops).from = <<"run", n - Parts>>
              /\ Head(ops).to = <<k, n - Parts>> /\ n - Parts \in Part
         /\ 2 * Parts <= n =>
              /\ Head(ops).op = "erase" /\ Head(ops).to = <<"run", n - 2 * Parts>>
              /\ n - 2 * Parts \in Part
<1>1. Len(ops) \in Nat /\ Len(ops) >= 1 /\ Head(ops) = ops[1] /\ 1 \in 1..Len(ops)
  BY FirstCmd
<1>2. Len(ops) = 3 * Parts - n /\ Head(ops) = MoveOp(k, n + 1)
  BY <1>1 DEF Moves, ToDo, ToErase, ToCopy
<1>3. n \in Nat /\ Parts \in Nat /\ Parts > 1 /\ Part = 0..Parts - 1
  BY Constants
<1>4. n < 3 * Parts
  BY <1>1, <1>2, <1>3
<1>5. \A i : Addr("run", i) = <<"run", i>> /\ Addr(k, i) = <<k, i>>
  BY DEF Addr, Moved
<1>6. ASSUME n < Parts
      PROVE  /\ Head(ops).op = "erase" /\ Head(ops).to = <<k, n>>
             /\ n \in Part
  <2>1. n + 1 <= Parts /\ n + 1 - 1 = n /\ n \in Part
    BY <1>3, <1>6
  <2>2. Head(ops) = Erase(k, n)
    BY <1>2, <2>1 DEF MoveOp
  <2> QED BY <1>5, <2>1, <2>2 DEF Erase
<1>7. ASSUME Parts <= n, n < 2 * Parts
      PROVE  /\ Head(ops).op = "copy" /\ Head(ops).from = <<"run", n - Parts>>
             /\ Head(ops).to = <<k, n - Parts>> /\ n - Parts \in Part
  <2>1. /\ ~ (n + 1 <= Parts) /\ n + 1 <= 2 * Parts /\ n + 1 - Parts - 1 = n - Parts
        /\ n - Parts \in Part
    BY <1>3, <1>7
  <2>2. Head(ops) = Copy("run", k, n - Parts)
    <3>1. PICK q \in Nat : q = n + 1
      BY <1>3
    <3>2. MoveOp(k, q) = Copy("run", k, q - Parts - 1)
      BY <2>1, <3>1, MoveOpIs
    <3>3. q - Parts - 1 = n - Parts
      BY <1>3, <3>1
    <3> QED BY <1>2, <3>1, <3>2, <3>3
  <2> QED BY <1>5, <2>1, <2>2 DEF Copy
<1>8. ASSUME 2 * Parts <= n
      PROVE  /\ Head(ops).op = "erase" /\ Head(ops).to = <<"run", n - 2 * Parts>>
             /\ n - 2 * Parts \in Part
  <2>1. /\ ~ (n + 1 <= Parts) /\ ~ (n + 1 <= 2 * Parts)
        /\ n + 1 - 2 * Parts - 1 = n - 2 * Parts /\ n - 2 * Parts \in Part
    BY <1>3, <1>4, <1>8
  <2>2. Head(ops) = Erase("run", n - 2 * Parts)
    <3>1. PICK q \in Nat : q = n + 1
      BY <1>3
    <3>2. MoveOp(k, q) = Erase("run", q - 2 * Parts - 1)
      BY <2>1, <3>1, MoveOpIs
    <3>3. q - 2 * Parts - 1 = n - 2 * Parts
      BY <1>3, <3>1
    <3> QED BY <1>2, <3>1, <3>2, <3>3
  <2> QED BY <1>5, <2>1, <2>2 DEF Erase
<1> QED BY <1>4, <1>6, <1>7, <1>8

(* The area that is not moved to keeps what it has.                        *)
LEMMA OtherHome ==
  ASSUME IInv, at = "move", NEW k \in Moved, NEW n \in 0..3 * Parts, Moves(k, n)
  PROVE  \A j \in Moved : j # k \/ 2 * Parts <= n => Good(j)
<1>1. \A j \in Moved : Good(j) \/ (Verified /\ RunsFrom("run", j))
  BY DEF IInv, Homes
<1>2. n \in Nat /\ Parts \in Nat
  BY Constants
<1>3. CASE n <= 2 * Parts
  BY <1>1, <1>3 DEF Moves, ToDo, ToErase, ToCopy, RunsFrom
<1>4. CASE 2 * Parts < n
  <2>1. ~ HasHdr("run")
    BY <1>4, Addresses DEF Moves, ToDo, ToErase, ToCopy, HasHdr, Header, Blank
  <2> QED BY <1>1, <2>1 DEF RunsFrom
<1> QED BY <1>2, <1>3, <1>4

(* The operations that are left                                            *)
LEMMA MoveTail ==
  ASSUME IInv, Execute, NEW k \in Moved, NEW n \in 0..3 * Parts, Moves(k, n)
  PROVE  /\ n + 1 \in 0..3 * Parts
         /\ Len(ops') = 3 * Parts - (n + 1)
         /\ \A j \in 1..Len(ops') : ops'[j] = MoveOp(k, (n + 1) + j)'
<1>1. ops # <<>> /\ ops' = Tail(ops) /\ layout' = layout
  BY Executed
<1>2. n < 3 * Parts
  BY <1>1, MoveHead
<1>3. Len(ops) = 3 * Parts - n /\ Len(ops') = Len(ops) - 1
  BY <1>1, FirstCmd DEF Moves, ToDo, ToErase, ToCopy
<1>4. ASSUME NEW j \in 1..Len(ops')
      PROVE  ops'[j] = MoveOp(k, (n + 1) + j)'
  <2>1. ops'[j] = ops[j + 1] /\ j + 1 \in 1..Len(ops)
    BY <1>1, FirstCmd
  <2>2. ops[j + 1] = MoveOp(k, n + (j + 1))
    BY <2>1 DEF Moves, ToDo, ToErase, ToCopy
  <2>3. n + (j + 1) = (n + 1) + j
    BY Constants
  <2>4. MoveOp(k, (n + 1) + j)' = MoveOp(k, (n + 1) + j)
    BY <1>1 DEF MoveOp, Erase, Copy, Addr
  <2> QED BY <2>1, <2>2, <2>3, <2>4
<1> QED BY <1>2, <1>3, <1>4, Constants

LEMMA MoveExecInv ==
  ASSUME IInv, Execute, at = "move"
  PROVE  IInv'
<1>0. Types /\ Crc /\ Logged /\ Moving /\ log # "exchange"
  BY DEF IInv, Doing, Logged
<1>1. /\ ops # <<>> /\ ops' = Tail(ops) /\ layout' = layout /\ at' = at /\ losses' = losses
  BY Executed
<1>2. PICK k \in Moved, n \in 0..3 * Parts : Moves(k, n)
  BY <1>0 DEF Moving
<1>3. \A j \in Moved : j # k \/ 2 * Parts <= n => Good(j)
  BY <1>2, OtherHome
<1>4. ops' \in Seq(Op)
  BY <1>1, FirstCmd
<1>5. /\ n < 3 * Parts
      /\ n < Parts => /\ Head(ops).op = "erase" /\ Head(ops).to = <<k, n>>
                     /\ n \in Part
      /\ Parts <= n /\ n < 2 * Parts =>
           /\ Head(ops).op = "copy" /\ Head(ops).from = <<"run", n - Parts>>
           /\ Head(ops).to = <<k, n - Parts>> /\ n - Parts \in Part
      /\ 2 * Parts <= n =>
           /\ Head(ops).op = "erase" /\ Head(ops).to = <<"run", n - 2 * Parts>>
           /\ n - 2 * Parts \in Part
  BY <1>1, <1>2, MoveHead
<1>6. /\ n + 1 \in 0..3 * Parts
      /\ Len(ops') = 3 * Parts - (n + 1)
      /\ \A j \in 1..Len(ops') : ops'[j] = MoveOp(k, (n + 1) + j)'
  BY <1>2, MoveTail
<1>7. n \in Nat /\ Parts \in Nat /\ Parts > 1 /\ Part = 0..Parts - 1
  BY Constants
<1>8. verify' = verify /\ log' = log
  <2>1. Head(ops).op \in {"erase", "copy"}
    BY <1>5, <1>7
  <2> QED BY <2>1, Executed
<1>9. Crc'
  BY <1>0, <1>8 DEF Crc, NoCrc, Piece
<1>10. k \in {"swpr", "ldr"}
  BY DEF Moved
<1>11. CASE n < 2 * Parts
  <2>1. PICK q \in Part : q = IF n < Parts THEN n ELSE n - Parts
    <3>1. n < Parts \/ (Parts <= n /\ ~ (n < Parts))
      BY <1>7
    <3> QED BY <1>5, <1>11, <3>1
  <2>2. <<k, q>> \in Address /\ <<"run", q>> \in Address /\ flash[<<"run", q>>] \in Cell
    BY <1>0, <1>10, Addresses DEF Types
  <2>3. PICK c : c = IF n < Parts THEN Blank ELSE flash[<<"run", q>>]
    OBVIOUS
  <2>4. c \in Cell
    BY <2>2, <2>3, Cells
  <2>5. flash' = [flash EXCEPT ![<<k, q>>] = c]
    <3>1. CASE n < Parts
      BY <1>5, <2>1, <2>3, <3>1, Executed
    <3>2. CASE Parts <= n
      <4>1. q = n - Parts /\ Head(ops).op = "copy" /\ ~ (n < Parts)
        BY <1>5, <1>7, <1>11, <2>1, <3>2
      <4>2. flash[<<k, q>>] = Blank
        <5>1. n <= 2 * Parts /\ ~ (q < n - Parts)
          BY <1>7, <1>11, <4>1
        <5> QED BY <1>2, <3>2, <5>1 DEF Moves, ToDo, ToErase, ToCopy
      <4>3. flash' = Programmed(<<k, q>>, flash[<<"run", q>>])
        BY <1>5, <1>11, <3>2, <4>1, Executed
      <4>4. After(<<k, q>>, flash[<<"run", q>>]) = c
        BY <2>3, <4>1, <4>2, ProgrammedIs
      <4> QED BY <4>3, <4>4, ProgrammedIs
    <3> QED BY <1>7, <3>1, <3>2
  <2>6. /\ flash' \in [Address -> Cell] /\ flash'[<<k, q>>] = c
        /\ \A b, j : <<b, j>> \in Address /\ <<b, j>> # <<k, q>> =>
             flash'[<<b, j>>] = flash[<<b, j>>]
        /\ \A b \in {"run", "swpr", "ldr"} : b # k =>
             \A j \in Part : flash'[<<b, j>>] = flash[<<b, j>>]
    BY <1>0, <2>2, <2>4, <2>5, OneSector
  <2>7. \A j \in Part : flash'[<<"run", j>>] = flash[<<"run", j>>]
    BY <1>10, <2>6
  <2>8. \A j \in Part : j # q => flash'[<<k, j>>] = flash[<<k, j>>]
    BY <1>10, <2>6, Addresses
  <2>9. \A j \in Moved : j # k => (Good(j)' <=> Good(j))
    BY <2>6, SameArea DEF Moved
  <2>10. Verified /\ RunsFrom("run", k) /\ Whole("run")
    BY <1>2, <1>7, <1>11, VerifiedWhole DEF Moves, ToDo, ToErase, ToCopy, IInv
  <2>11. Verified' /\ RunsFrom("run", k)' /\ Whole("run")'
    BY <1>8, <2>7, <2>10, SameArea, SameRun
  <2>12. Types'
    BY <1>0, <1>1, <1>4, <1>8, <2>6 DEF Types
  <2>13. Homes'
    BY <1>1, <1>3, <2>9, <2>11 DEF Homes
  <2>14. Logged' /\ RunImage'
    BY <1>0, <1>1, <1>8, <2>11 DEF Logged, RunImage, WholeIfAny
  <2>15. n < Parts => \A j \in 0..n : flash'[<<k, j>>] = Blank
    <3>1. ASSUME n < Parts, NEW j \in 0..n
          PROVE  flash'[<<k, j>>] = Blank
      <4>1. j \in Part /\ q = n
        BY <1>7, <2>1, <3>1
      <4>2. CASE j = q
        BY <2>3, <2>6, <3>1, <4>2
      <4>3. CASE j # q
        <5>1. j \in 0..n - 1 /\ n <= Parts
          BY <1>7, <3>1, <4>1, <4>3
        <5> QED BY <1>2, <2>8, <4>1, <4>3, <5>1 DEF Moves, ToDo, ToErase, ToCopy
      <4> QED BY <4>2, <4>3
    <3> QED BY <3>1
  <2>16. ASSUME Parts <= n + 1, NEW j \in Part
         PROVE  flash'[<<k, j>>] = IF j < (n + 1) - Parts THEN flash'[<<"run", j>>]
                                   ELSE Blank
    <3>1. CASE n < Parts
      <4>1. j \in 0..n /\ ~ (j < (n + 1) - Parts)
        BY <1>7, <2>16, <3>1
      <4> QED BY <2>15, <3>1, <4>1
    <3>2. CASE Parts <= n
      <4>1. q = n - Parts /\ ~ (n < Parts)
        BY <1>7, <2>1, <3>2
      <4>2. CASE j = q
        <5>1. j < (n + 1) - Parts
          BY <1>7, <4>1, <4>2
        <5> QED BY <2>3, <2>6, <2>7, <4>1, <4>2, <5>1
      <4>3. CASE j # q
        <5>1. (j < n - Parts) <=> (j < (n + 1) - Parts)
          BY <1>7, <4>1, <4>3
        <5>2. flash[<<k, j>>] = IF j < n - Parts THEN flash[<<"run", j>>] ELSE Blank
          BY <1>2, <1>7, <1>11, <3>2 DEF Moves, ToDo, ToErase, ToCopy
        <5> QED BY <2>7, <2>8, <4>3, <5>1, <5>2
      <4> QED BY <4>2, <4>3
    <3> QED BY <1>7, <3>1, <3>2
  <2>17. 2 * Parts <= n + 1 => Good(k)'
    <3>1. SUFFICES ASSUME 2 * Parts <= n + 1 PROVE Good(k)'
      OBVIOUS
    <3>2. \A j \in Part : flash'[<<k, j>>] = flash'[<<"run", j>>]
      <4>1. \A j \in Part : j < (n + 1) - Parts
        BY <1>7, <3>1
      <4>2. Parts <= n + 1
        BY <1>7, <3>1
      <4> QED BY <2>16, <4>1, <4>2
    <3>3. \A j : Addr(k, j)' = <<k, j>> /\ Addr("run", j)' = <<"run", j>>
      BY <1>10 DEF Addr
    <3>4. Content(k)' = Content("run")' /\ Header(k)' = Header("run")'
      BY <3>2, <3>3, Constants DEF Content, Header
    <3> QED BY <2>11, <3>4 DEF Good, Whole, HasHdr, Image, RunsFrom
  <2>18. Moves(k, n + 1)'
    <3>1. n + 1 <= Parts => \A j \in 0..(n + 1) - 1 : flash'[<<k, j>>] = Blank
      BY <1>7, <2>15
    <3>2. ~ (2 * Parts < n + 1)
      BY <1>7, <1>11
    <3>3. ToCopy(k, n + 1)'
      BY <2>16, Zenon DEF ToCopy, Blank
    <3>4. ToErase(k, n + 1)'
      BY <3>1 DEF ToErase, Blank
    <3>5. ToDo(k, n + 1)'
      BY <1>6 DEF ToDo
    <3>6. (2 * Parts < n + 1 => flash[<<"run", 0>>] = Blank)'
      BY <3>2
    <3> QED BY <2>11, <2>17, <3>3, <3>4, <3>5, <3>6 DEF Moves
  <2>19. Doing'
    <3>1. Moving'
      BY <1>6, <2>18 DEF Moving
    <3> QED BY <1>0, <1>1, <3>1
            DEF Doing, Uploading, SwapsApart, SwapsInPlace, Finalises, Waiting
  <2> QED BY <1>9, <2>12, <2>13, <2>14, <2>19 DEF IInv
<1>12. CASE 2 * Parts <= n
  <2>1. PICK q \in Part : q = n - 2 * Parts
    BY <1>5, <1>12
  <2>2. <<"run", q>> \in Address
    BY Addresses
  <2>3. flash' = [flash EXCEPT ![<<"run", q>>] = Blank]
    BY <1>5, <1>12, <2>1, Executed
  <2>4. /\ flash' \in [Address -> Cell] /\ flash'[<<"run", q>>] = Blank
        /\ \A b, j : <<b, j>> \in Address /\ <<b, j>> # <<"run", q>> =>
             flash'[<<b, j>>] = flash[<<b, j>>]
        /\ \A b \in {"run", "swpr", "ldr"} : b # "run" =>
             \A j \in Part : flash'[<<b, j>>] = flash[<<b, j>>]
    BY <1>0, <2>2, <2>3, Cells, OneSector
  <2>5. \A j \in Moved : Good(j)'
    <3>1. \A j \in Moved : Good(j)
      BY <1>3, <1>12
    <3> QED BY <2>4, <3>1, SameArea DEF Moved
  <2>6. flash'[<<"run", 0>>] = Blank
    <3>1. CASE q = 0
      BY <2>4, <3>1
    <3>2. CASE q # 0
      <4>1. 2 * Parts < n
        BY <1>7, <1>12, <2>1, <3>2
      <4> QED BY <1>2, <2>4, <3>2, <4>1, Addresses, Constants DEF Moves, ToDo, ToErase, ToCopy
    <3> QED BY <3>1, <3>2
  <2>7. ~ HasHdr("run")'
    BY <2>6, Cells DEF HasHdr, Header, Addr
  <2>8. Types'
    BY <1>0, <1>1, <1>4, <1>8, <2>4 DEF Types
  <2>9. Homes'
    BY <2>5 DEF Homes
  <2>10. Logged' /\ RunImage'
    BY <1>0, <1>1, <1>8, <2>7 DEF Logged, RunImage, WholeIfAny, Verified, RunsFrom
  <2>11. Moves(k, n + 1)'
    <3>1. /\ ~ (n + 1 <= 2 * Parts) /\ ~ (n + 1 <= Parts)
          /\ 2 * Parts <= n + 1
      BY <1>7, <1>12
    <3> QED BY <1>6, <2>5, <2>6, <3>1 DEF Moves, ToDo, ToErase, ToCopy, Blank
  <2>12. Doing'
    <3>1. Moving'
      BY <1>6, <2>11 DEF Moving
    <3> QED BY <1>0, <1>1, <3>1
            DEF Doing, Uploading, SwapsApart, SwapsInPlace, Finalises, Waiting
  <2> QED BY <1>9, <2>8, <2>9, <2>10, <2>12 DEF IInv
<1> QED BY <1>7, <1>11, <1>12

LEMMA ExecuteInv ==
  ASSUME IInv, Execute
  PROVE  IInv'
<1>1. at \in Places
  BY DEF IInv, Types
<1>2. at \notin {"fsl", "dead", "swapper"}
  BY Executed DEF IInv, Doing, Waiting
<1>3. layout \in BOOLEAN
  BY DEF IInv, Types
<1> QED BY <1>1, <1>2, <1>3, UploadExecInv, MoveExecInv, SwapExecInv, InPlaceExecInv,
           SwappedExecInv DEF Places

-----------------------------------------------------------------------------
(* Power is lost.                                                          *)
LEMMA LostInv ==
  ASSUME IInv, losses < MaxLosses, losses' = losses + 1, Fsl, log' = log,
         layout' = layout, flash' \in [Address -> Cell], Crc', Homes',
         log = "exchange" => Whole("upgrade")' /\ ~ Verified',
         log = "finalise" => WholeIfAny',
         ~ layout /\ RunsFrom("run", "run")' => Whole("run")'
  PROVE  IInv'
<1>1. at' = "fsl" /\ ops' = <<>>
  BY DEF Fsl
<1>2. Types /\ Logged /\ losses \in Nat
  BY Constants DEF IInv, Types
<1>3. losses' \in 0..MaxLosses /\ losses' > 0
  BY <1>2, Constants
<1>4. Types'
  BY <1>1, <1>2, <1>3, Empty DEF Types, Places
<1>5. Logged'
  BY <1>1, <1>2, <1>3 DEF Logged
<1>6. RunImage'
  BY <1>1 DEF RunImage
<1>7. Doing'
  BY <1>1, Rests
<1> QED BY <1>4, <1>5, <1>6, <1>7 DEF IInv

(* What it may damage                                                      *)
Power == losses < MaxLosses /\ losses' = losses + 1 /\ Fsl /\ log' = log /\ layout' = layout

Damage(c) ==
  /\ ops # <<>> /\ Head(ops).op \in {"erase", "write", "copy"}
  /\ flash' = [flash EXCEPT ![Head(ops).to] = c]
  /\ verify' = verify
  /\ c \in Damaged(flash[Head(ops).to], CASE Head(ops).op = "erase" -> Blank
                                          [] Head(ops).op = "write" -> Head(ops).cell
                                          [] Head(ops).op = "copy" -> flash[Head(ops).from])

LEMMA Losses ==
  ASSUME PowerLoss
  PROVE  /\ Power
         /\ \/ flash' = flash /\ verify' = verify
            \/ \E c : Damage(c)
            \/ /\ ops # <<>> /\ Head(ops).op \in {"unverify", "sign"}
               /\ verify' = NoCrc /\ flash' = flash
<1>1. Power
  BY DEF PowerLoss, Power
<1>2. CASE ops = <<>>
  BY <1>1, <1>2 DEF PowerLoss
<1>3. CASE ops # <<>>
  BY <1>1, <1>3 DEF PowerLoss, Damage
<1> QED BY <1>2, <1>3

LEMMA LostNothing ==
  ASSUME IInv, Power, flash' = flash, verify' = verify
  PROVE  IInv'
<1>1. UNCHANGED Seen /\ at' = "fsl"
  BY DEF Power, Seen, Fsl
<1>2. Types /\ Crc /\ Homes /\ Logged /\ RunImage
  BY DEF IInv
<1>3. Crc' /\ Homes'
  BY <1>1, <1>2, Same DEF Homes
<1>4. flash' \in [Address -> Cell]
  BY <1>2 DEF Types
<1>5. /\ log = "exchange" => Whole("upgrade")' /\ ~ Verified'
      /\ log = "finalise" => WholeIfAny'
      /\ ~ layout /\ RunsFrom("run", "run")' => Whole("run")'
  BY <1>1, <1>2, Same DEF Logged, RunImage
<1> QED BY <1>3, <1>4, <1>5, LostInv DEF Power

LEMMA LostVerify ==
  ASSUME IInv, Power, flash' = flash, verify' = NoCrc, ops # <<>>,
         Head(ops).op \in {"unverify", "sign"}
  PROVE  IInv'
<1>1. Types /\ Logged /\ RunImage /\ layout' = layout /\ at' = "fsl"
  BY DEF IInv, Power, Fsl
<1>2. at \notin {"fsl", "move"}
  <2>1. at # "fsl"
    BY DEF IInv, Doing, Waiting
  <2>2. ASSUME at = "move" PROVE FALSE
    <3>1. PICK k \in Moved, n \in 0..3 * Parts : Moves(k, n)
      BY <2>2 DEF IInv, Doing, Moving
    <3>2. n < Parts \/ (Parts <= n /\ n < 2 * Parts) \/ 2 * Parts <= n
      BY Constants
    <3>3. Head(ops).op \in {"erase", "copy"}
      BY <3>1, <3>2, MoveHead
    <3> QED BY <3>3
  <2> QED BY <2>1, <2>2
<1>3. \A k \in Moved : Good(k)
  BY <1>2, AtHome
<1>4. Crc' /\ ~ Verified'
  BY Erased
<1>5. Homes'
  BY <1>1, <1>3, SameFlash DEF Homes
<1>6. flash' \in [Address -> Cell]
  BY <1>1 DEF Types
<1>7. /\ log = "exchange" => Whole("upgrade")'
      /\ log = "finalise" => WholeIfAny'
      /\ ~ layout /\ RunsFrom("run", "run")' => Whole("run")'
  BY <1>1, SameFlash DEF Logged, RunImage
<1> QED BY <1>4, <1>5, <1>6, <1>7, LostInv DEF Power

LEMMA DamageIs ==
  ASSUME IInv, NEW c, Damage(c)
  PROVE  /\ c \in Cell /\ Head(ops).to \in Address
         /\ Head(ops).op = "erase" /\ c.of # None => c.of = flash[Head(ops).to].of
<1>1. PICK o \in Op : o = Head(ops)
  BY FirstCmd DEF Damage
<1>2. o.op \in {"erase", "write", "copy"}
  BY <1>1 DEF Damage
<1>3. /\ o.to \in Address
      /\ o.op = "write" => o.cell \in Cell
      /\ o.op = "copy" => o.from \in Address
  BY <1>2, Cells DEF Op, Unverify, Sign, Exchange, Log
<1>4. flash \in [Address -> Cell]
  BY DEF IInv, Types
<1>5. PICK old \in Cell : old = flash[o.to]
  BY <1>3, <1>4
<1>6. CASE o.op = "erase"
  <2>1. c \in Damaged(old, Blank)
    BY <1>1, <1>5, <1>6 DEF Damage
  <2>2. c \in Cell /\ (c.of # None => c.of \in {old.of, Blank.of})
    BY <2>1, Cells, DamagedIs
  <2> QED BY <1>1, <1>3, <1>5, <2>2, Cells
<1>7. CASE o.op = "write"
  <2>1. PICK new \in Cell : new = o.cell
    BY <1>3, <1>7
  <2>2. c \in Damaged(old, new)
    BY <1>1, <1>5, <1>7, <2>1 DEF Damage
  <2>3. c \in Cell
    BY <2>2, DamagedIs
  <2> QED BY <1>1, <1>3, <1>7, <2>3
<1>8. CASE o.op = "copy"
  <2>1. PICK new \in Cell : new = flash[o.from]
    BY <1>3, <1>4, <1>8
  <2>2. c \in Damaged(old, new)
    BY <1>1, <1>5, <1>8, <2>1 DEF Damage
  <2>3. c \in Cell
    BY <2>2, DamagedIs
  <2> QED BY <1>1, <1>3, <1>8, <2>3
<1> QED BY <1>2, <1>6, <1>7, <1>8

LEMMA LostUpload ==
  ASSUME IInv, Power, NEW c, Damage(c), at \in {"app", "loader"}
  PROVE  IInv'
<1>1. /\ ops # <<>> /\ Head(ops).op \in {"erase", "write", "copy"} /\ verify' = verify
      /\ flash' = [flash EXCEPT ![Head(ops).to] = c] /\ layout' = layout
  BY DEF Damage, Power
<1>2. c \in Cell
  BY DamageIs
<1>3. PICK o \in Op : o = Head(ops)
  BY <1>1, FirstCmd
<1>4. ToUpgrade(o)
  BY <1>1, <1>3, FirstCmd DEF IInv, Doing, Uploading, Unverify, Sign
<1>5. /\ flash' \in [Address -> Cell] /\ Crc'
      /\ \A k \in Moved : Good(k)' <=> Good(k)
      /\ ~ layout => /\ RunsFrom("run", "run")' <=> RunsFrom("run", "run")
                     /\ Whole("run")' <=> Whole("run")
                     /\ WholeIfAny' <=> WholeIfAny
  BY <1>1, <1>2, <1>3, <1>4, UpgradeCell
<1>6. Homes'
  BY <1>5, AtHome DEF Homes
<1>7. Logged /\ RunImage
  BY DEF IInv
<1>8. log # "exchange" /\ (log = "finalise" => WholeIfAny')
  BY <1>5, <1>7 DEF Logged
<1>9. ~ layout /\ RunsFrom("run", "run")' => Whole("run")'
  BY <1>5, <1>7 DEF RunImage
<1> QED BY <1>5, <1>6, <1>8, <1>9, LostInv DEF Power

LEMMA LostInPlace ==
  ASSUME IInv, Power, NEW c, Damage(c), at = "swap", layout
  PROVE  IInv'
<1>1. /\ ops # <<>> /\ verify' = verify /\ layout' = layout
      /\ flash' = [flash EXCEPT ![Head(ops).to] = c]
  BY DEF Damage, Power
<1>2. Types /\ Crc /\ Logged /\ c \in Cell
  BY DamageIs DEF IInv
<1>3. PICK m \in {flash[<<"run", 0>>].of, flash[<<"run", 1>>].of},
           e \in 0..Parts, n \in {0, 1} : InPlace(m, e, n)
  BY DEF IInv, Doing, SwapsInPlace
<1>4. Head(ops).to = <<"run", e>> /\ e \in Part
  BY <1>1, <1>3, InPlaceHead
<1>5. <<"run", e>> \in Address /\ flash' = [flash EXCEPT ![<<"run", e>>] = c]
  BY <1>1, <1>4, Addresses
<1>6. flash' \in [Address -> Cell]
  BY <1>2, <1>5, OneSector
<1>7. \A b \in {"run", "swpr", "ldr"} : b # "run" =>
        \A j \in Part : flash'[<<b, j>>] = flash[<<b, j>>]
  BY <1>2, <1>5, OneSector
<1>8. Homes'
  <2>1. (Good("swpr")' <=> Good("swpr")) /\ (Good("ldr")' <=> Good("ldr"))
    BY <1>7, SameArea
  <2> QED BY <2>1, AtHome DEF Homes, Moved
<1>9. Crc'
  BY <1>1, <1>2 DEF Crc, NoCrc, Piece
<1>10. log = "end"
  BY <1>2 DEF Logged
<1> QED BY <1>6, <1>8, <1>9, <1>10, LostInv DEF Power

(* An image that is being moved is in the run slot until the new one is    *)
(* complete; while the log asks for it to be confirmed, power has failed   *)
(* before.                                                                 *)
LEMMA LostMove ==
  ASSUME MaxLosses <= 1, IInv, Power, NEW c, Damage(c), at = "move"
  PROVE  IInv'
<1>1. /\ ops # <<>> /\ verify' = verify /\ layout' = layout /\ at' = "fsl"
      /\ flash' = [flash EXCEPT ![Head(ops).to] = c] /\ losses < MaxLosses
  BY DEF Damage, Power, Fsl
<1>2. Types /\ Crc /\ Logged /\ RunImage /\ c \in Cell
  BY DamageIs DEF IInv
<1>3. PICK k \in Moved, n \in 0..3 * Parts : Moves(k, n)
  BY DEF IInv, Doing, Moving
<1>4. log = "end"
  BY <1>1, <1>2, Constants DEF Logged, Types
<1>5. k \in {"swpr", "ldr"} /\ n \in Nat /\ Parts \in Nat /\ Parts > 1
  BY Constants DEF Moved
<1>6. \A j \in Moved : j # k \/ 2 * Parts <= n => Good(j)
  BY <1>3, OtherHome
<1>7. Crc'
  BY <1>1, <1>2 DEF Crc, NoCrc, Piece
<1>8. CASE n < 2 * Parts
  <2>1. PICK e \in Part : Head(ops).to = <<k, e>>
    <3>1. n < Parts \/ (Parts <= n /\ n < 2 * Parts)
      BY <1>5, <1>8
    <3> QED BY <1>1, <1>3, <3>1, MoveHead
  <2>2. <<k, e>> \in Address /\ flash' = [flash EXCEPT ![<<k, e>>] = c]
    BY <1>1, <1>5, <2>1, Addresses
  <2>3. flash' \in [Address -> Cell]
    BY <1>2, <2>2, OneSector
  <2>4. \A b \in {"run", "swpr", "ldr"} : b # k =>
          \A j \in Part : flash'[<<b, j>>] = flash[<<b, j>>]
    BY <1>2, <2>2, OneSector
  <2>5. \A j \in Part : flash'[<<"run", j>>] = flash[<<"run", j>>]
    BY <1>5, <2>4
  <2>6. Verified /\ RunsFrom("run", k) /\ Whole("run")
    BY <1>2, <1>3, <1>5, <1>8, VerifiedWhole DEF Moves
  <2>7. Verified' /\ RunsFrom("run", k)' /\ Whole("run")'
    BY <1>1, <2>5, <2>6, SameArea, SameRun
  <2>8. \A j \in Moved : j # k => (Good(j)' <=> Good(j))
    BY <2>4, SameArea DEF Moved
  <2>9. Homes'
    BY <1>1, <1>6, <2>7, <2>8 DEF Homes
  <2> QED BY <1>4, <1>7, <2>3, <2>7, <2>9, LostInv DEF Power
<1>9. CASE 2 * Parts <= n
  <2>1. /\ Head(ops).op = "erase" /\ Head(ops).to = <<"run", n - 2 * Parts>>
        /\ n - 2 * Parts \in Part
    BY <1>1, <1>3, <1>9, MoveHead
  <2>2. PICK e \in Part : e = n - 2 * Parts
    BY <2>1
  <2>3. <<"run", e>> \in Address /\ flash' = [flash EXCEPT ![<<"run", e>>] = c]
    BY <1>1, <2>1, <2>2, Addresses
  <2>4. flash' \in [Address -> Cell] /\ flash'[<<"run", e>>] = c
    BY <1>2, <2>3, OneSector
  <2>5. \A b, j : <<b, j>> \in Address /\ <<b, j>> # <<"run", e>> =>
          flash'[<<b, j>>] = flash[<<b, j>>]
    BY <1>2, <2>3, OneSector
  <2>6. \A b \in {"run", "swpr", "ldr"} : b # "run" =>
          \A j \in Part : flash'[<<b, j>>] = flash[<<b, j>>]
    BY <1>2, <2>3, OneSector
  <2>7. Homes'
    <3>1. (Good("swpr")' <=> Good("swpr")) /\ (Good("ldr")' <=> Good("ldr"))
      BY <2>6, SameArea
    <3> QED BY <1>6, <1>9, <3>1 DEF Homes, Moved
  <2>8. ~ RunsFrom("run", "run")'
    <3>1. Header("run")' = flash'[<<"run", 0>>]
      BY DEF Header, Addr
    <3>2. CASE e = 0
      <4>1. n <= 2 * Parts
        BY <1>5, <2>2, <3>2
      <4>2. flash[<<"run", 0>>].of.kind = k
        BY <1>3, <4>1, Addresses DEF Moves, RunsFrom, Image, Header
      <4>3. c.of # None => c.of = flash[<<"run", 0>>].of
        BY <2>1, <2>2, <3>2, DamageIs
      <4> QED BY <1>5, <2>4, <3>1, <3>2, <4>2, <4>3 DEF RunsFrom, HasHdr, Image
    <3>3. CASE e # 0
      <4>1. 2 * Parts < n
        BY <1>5, <1>9, <2>2, <3>3
      <4>2. flash[<<"run", 0>>] = Blank
        BY <1>3, <4>1 DEF Moves
      <4>3. flash'[<<"run", 0>>] = Blank
        BY <2>5, <3>3, <4>2, Addresses, Constants
      <4> QED BY <3>1, <4>3, Cells DEF RunsFrom, HasHdr
    <3> QED BY <3>2, <3>3
  <2> QED BY <1>4, <1>7, <2>4, <2>7, <2>8, LostInv DEF Power
<1> QED BY <1>5, <1>8, <1>9

LEMMA PowerLossInv ==
  ASSUME MaxLosses <= 1, IInv, PowerLoss
  PROVE  IInv'
<1>1. Power
  BY Losses
<1>2. ASSUME NEW c, Damage(c)
      PROVE  IInv'
  <2>1. ops # <<>> /\ Head(ops).op \in {"erase", "write", "copy"}
    BY <1>2 DEF Damage
  <2>2. at \in Places /\ layout \in BOOLEAN /\ at \notin {"fsl", "dead", "swapper"}
    BY <2>1 DEF IInv, Types, Doing, Waiting
  <2>3. ASSUME at = "swap", ~ layout PROVE FALSE
    BY <2>1, <2>3, SwapOpsAre, Tails DEF IInv, Doing, SwapsApart, Log, Exchange
  <2>4. ASSUME at = "swapped" PROVE FALSE
    <3>1. ops \in {<<Sign>>, <<Unverify, Sign>>, <<Log("end")>>, <<Sign, Log("end")>>,
                   <<Unverify, Sign, Log("end")>>}
      BY <2>1, <2>4 DEF IInv, Doing, Finalises
    <3>2. Head(ops) \in {Sign, Unverify, Log("end")}
      BY <3>1, Tails
    <3> QED BY <2>1, <3>2 DEF Sign, Unverify, Log
  <2> QED BY <1>1, <1>2, <2>2, <2>3, <2>4, LostUpload, LostInPlace, LostMove DEF Places
<1> QED BY <1>1, <1>2, Losses, LostNothing, LostVerify

-----------------------------------------------------------------------------
LEMMA InitInv ==
  ASSUME Init
  PROVE  IInv
<1>1. /\ layout \in BOOLEAN /\ log = "end" /\ at = "fsl" /\ ops = <<>> /\ losses = 0
      /\ verify = [i \in Part |-> Piece(Delivered["run"], i)]
      /\ flash = [x \in Address |->
                    IF x[1] \in DOMAIN Delivered /\ x[2] \in Part
                    THEN Piece(Delivered[x[1]], x[2]) ELSE Blank]
  BY BootAssumption DEF Init
<1>2. /\ Delivered \in [{"run", "swpr", "ldr"} -> Images] /\ None \notin Images
      /\ \A a \in {"run", "swpr", "ldr"} : Delivered[a].kind = a
  BY BootAssumption
<1>3. \A a \in {"run", "swpr", "ldr"}, i \in Part :
        flash[<<a, i>>] = Piece(Delivered[a], i)
  BY <1>1, <1>2, Addresses
<1>4. flash \in [Address -> Cell]
  <2>1. \A m \in Images, i \in Part : Piece(m, i) \in Cell
    BY DEF Piece, Cell
  <2> QED BY <1>1, <1>2, <2>1, Cells
<1>5. \A a \in {"run", "swpr", "ldr"} : Whole(a) /\ Image(a) = Delivered[a]
  <2>1. ASSUME NEW a \in {"run", "swpr", "ldr"}
        PROVE  Whole(a) /\ Image(a) = Delivered[a]
    <3>1. \A i : Addr(a, i) = <<a, i>>
      BY DEF Addr
    <3>2. \A i \in Part : Content(a)[i] = Piece(Delivered[a], i)
      BY <1>3, <3>1 DEF Content
    <3>3. Header(a) = Piece(Delivered[a], 0)
      BY <1>3, <3>1, Constants DEF Header
    <3>4. Delivered[a] # None
      BY <1>2
    <3> QED BY <3>2, <3>3, <3>4 DEF Whole, HasHdr, Image, Piece
  <2> QED BY <2>1
<1>6. Types
  <2>1. ops \in Seq(Op) /\ 0 \in 0..MaxLosses
    <3>1. MaxLosses \in Nat
      BY Constants
    <3>2. 0 \in 0..MaxLosses
      BY <3>1
    <3>3. ops \in Seq(Op)
      BY <1>1, Empty
    <3> QED BY <3>2, <3>3
  <2> QED BY <1>1, <1>4, <2>1 DEF Types, Places
<1>7. Crc
  <2>1. verify[0].of = Delivered["run"]
    <3>1. verify[0] = Piece(Delivered["run"], 0)
      BY <1>1, Constants
    <3> QED BY <3>1 DEF Piece
  <2>2. Delivered["run"] # None
    BY <1>2
  <2> QED BY <1>1, <2>1, <2>2 DEF Crc
<1>8. Homes
  BY <1>2, <1>5 DEF Homes, Moved, Good
<1>9. Logged /\ RunImage
  BY <1>1, <1>5 DEF Logged, RunImage
<1>10. Doing
  <2>1. Uploading /\ Moving /\ SwapsApart /\ SwapsInPlace /\ Finalises /\ Waiting
    BY <1>1 DEF Uploading, Moving, SwapsApart, SwapsInPlace, Finalises, Waiting
  <2> QED BY <2>1 DEF Doing
<1> QED BY <1>6, <1>7, <1>8, <1>9, <1>10 DEF IInv

LEMMA StepInv ==
  ASSUME MaxLosses <= 1, IInv, [Next]_vars
  PROVE  IInv'
<1>1. CASE Starting
  BY <1>1, StartRunInv, MoveImageInv, StartSwapperInv, AcceptInv, ContinueInv, FinaliseInv,
     SwappedInv, BadImageInv DEF Starting
<1>2. CASE Execute
  BY <1>2, ExecuteInv
<1>3. CASE Running
  BY <1>3, UploadInv, ConfirmInv, JumpToInv, BootAssumption DEF Running
<1>4. CASE Reset
  BY <1>4, ResetInv
<1>5. CASE PowerLoss
  BY <1>5, PowerLossInv
<1>6. CASE UNCHANGED vars
  <2>1. /\ UNCHANGED Seen /\ flash' = flash /\ layout' = layout /\ log' = log /\ at' = at
        /\ ops' = ops /\ losses' = losses
    BY <1>6 DEF vars, Seen
  <2>2. Types /\ Homes /\ Logged /\ RunImage /\ Doing
    BY <2>1 DEF IInv
  <2>3. Doing'
    <3>1. Uploading'
      BY <2>1, <2>2 DEF Doing, Uploading, ToUpgrade, Unverify, Sign
    <3>2. Moving'
      <4>1. \A k, j : MoveOp(k, j)' = MoveOp(k, j)
        BY <2>1 DEF MoveOp, Erase, Copy, Addr
      <4>2. \A k, n : Moves(k, n) => Moves(k, n)'
        BY <2>1, <4>1, Same DEF Moves, ToDo, ToErase, ToCopy, Blank
      <4> QED BY <2>1, <2>2, <4>2 DEF Doing, Moving
    <3>3. SwapsApart'
      BY <2>1, <2>2, Same DEF Doing, SwapsApart, SwapOps, Exchange, Log
    <3>4. SwapsInPlace'
      <4>1. InPlaceOps' = InPlaceOps
        BY <2>1 DEF InPlaceOps, Erase, Copy, Addr
      <4>2. \A m, i, n : InPlace(m, i, n) => InPlace(m, i, n)'
        BY <2>1, <4>1 DEF InPlace, Piece, Blank
      <4> QED BY <2>1, <2>2, <4>2 DEF Doing, SwapsInPlace
    <3>5. Finalises'
      BY <2>1, <2>2, Same DEF Doing, Finalises, Unverify, Sign, Log
    <3>6. Waiting'
      BY <2>1, <2>2 DEF Doing, Waiting
    <3> QED BY <3>1, <3>2, <3>3, <3>4, <3>5, <3>6 DEF Doing
  <2> QED BY <2>1, <2>2, <2>3, Kept DEF Types, Homes, Logged, RunImage
<1> QED BY <1>1, <1>2, <1>3, <1>4, <1>5, <1>6 DEF Next

(* The inductive invariant, which relates what flash has, what VERIFY says *)
(* of it and what the running code has still to do                         *)
THEOREM Invariance ==
  ASSUME MaxLosses <= 1
  PROVE  Spec => []IInv
<1>1. IInv /\ [Next]_vars => IInv'
  BY StepInv
<1> QED BY InitInv, <1>1, PTL DEF Spec

(* Neither a swapper, a loader nor an image that is not whole is started,  *)
(* wherever an upload, a swap in place or a move is cut off: zb_fsl_boot,  *)
(* zb_fsl_move, zb_img_swap, main of the swapper.                          *)
THEOREM StartsOnlyWhole ==
  ASSUME MaxLosses <= 1
  PROVE  Spec => []StartsWhole
<1>1. IInv => StartsWhole
  <2>1. ASSUME IInv, at \in DOMAIN Home
        PROVE  Whole(Home[at])
    <3>1. at \in {"swapper", "loader", "app"}
      BY <2>1 DEF Home
    <3>2. Whole("swpr") /\ Whole("ldr") /\ (at = "app" => Whole("run"))
      BY <2>1, <3>1, AtHome DEF Good, Moved, IInv, RunImage
    <3> QED BY <3>1, <3>2 DEF Home
  <2> QED BY <2>1 DEF StartsWhole
<1> QED BY <1>1, Invariance, PTL
=============================================================================
