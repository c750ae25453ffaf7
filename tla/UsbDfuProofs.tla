----------------------------- MODULE UsbDfuProofs ---------------------------
(***************************************************************************)
(* Proofs about the USB DFU class, for every size of the areas and of the  *)
(* buffer of flash_img_context, every set of downloads, and whichever      *)
(* flash operations fail.                                                  *)
(***************************************************************************)
EXTENDS UsbDfu, SequenceTheorems, TLAPS

(* The host does none of the three things the code does not guard against. *)
Polite == {"busy", "flush", "interface"} \subseteq Manners

Blocks == Downloads \X Nat
Cells  == {Blank, Garbage} \cup Blocks
Sent   == (DOMAIN AreaSize) \X Nat

Types ==
  /\ TypeOK
  /\ bank \in [Slots -> Cells]
  /\ ctx \in [off: Nat, buf: Seq(Cells)]
  /\ worker \in [state: {"dfuIDLE", "dfuDNLOAD_IDLE"},
                 len: Downloads \cup {0}, buf: Cells]
  /\ sent \in Seq(Blocks) /\ done \in Seq(Blocks) /\ got \in Seq(Sent)

(* While the work is queued or runs, the host only asks for the state.     *)
Busy    == pending \/ at # "idle"
Waiting == {"dfuDNBUSY", "dfuMANIFEST_SYNC", "dfuIDLE"}

Alone ==
  /\ Busy => state \in Waiting /\ seen \in Waiting
  /\ pending => at = "idle"
  /\ state = "dfuUPLOAD_IDLE" => seen = "dfuUPLOAD_IDLE"

(* The first k blocks of the download are in flash or in the buffer, and   *)
(* flash is blank behind them.                                             *)
StoredUpTo(k) ==
  /\ k = ctx.off + Len(ctx.buf) /\ k <= Len(sent)
  /\ \A i \in 1..k : sent[i] = IF i <= ctx.off THEN bank[i - 1]
                               ELSE ctx.buf[i - ctx.off]
  /\ \A i \in Slots : i >= ctx.off => bank[i] = Blank

(* All but the block that dfu_data_worker holds                            *)
Handed ==
  IF worker.len = 0 THEN done = sent
  ELSE Len(sent) > 0 /\ worker.buf = sent[Len(sent)]

ToStore == IF worker.len = 0 THEN Len(sent) ELSE Len(sent) - 1

Image(q) == [i \in Slots |-> IF i < Len(q) THEN q[i + 1] ELSE Blank]

Transferred ==
  /\ state = "dfuDNLOAD_IDLE" => StoredUpTo(Len(sent)) /\ ~upgrade
  /\ at = "erase" => worker.state = "dfuIDLE"
  /\ (pending /\ worker.state = "dfuIDLE") \/ at = "erase"
       => ctx = FreshCtx /\ Handed /\ ToStore = 0
  /\ (pending /\ worker.state # "dfuIDLE") \/ at = "write"
       => Handed /\ StoredUpTo(ToStore) /\ ~upgrade
  /\ at = "write" => len = worker.len
  /\ at = "written" => /\ StoredUpTo(Len(sent)) /\ ~upgrade
                       /\ len = 0 => done = sent /\ ctx.buf = <<>>
  /\ Requested => bank = Image(done)

(* What an upload in progress has given the host                           *)
Uploaded ==
  state = "dfuUPLOAD_IDLE" =>
    /\ Len(got) = bytes_sent
    /\ \A i \in 1..bytes_sent : got[i] = <<flash_area_id, i - 1>>

(* The inductive invariant.                                                *)
IInv == Types /\ Alone /\ Transferred

-----------------------------------------------------------------------------
LEMMA Areas ==
  /\ AreaSize["image1"] \in Nat \ {0} /\ "image1" \in DOMAIN AreaSize
  /\ \A a \in DOMAIN AreaSize : AreaSize[a] \in Nat \ {0}
  BY UsbAssumption

LEMMA Fresh ==
  /\ FreshCtx \in [off: Nat, buf: Seq(Cells)]
  /\ FreshCtx.off = 0 /\ FreshCtx.buf = <<>> /\ Len(FreshCtx.buf) = 0
  BY EmptySeq DEF FreshCtx

LEMMA FreeIsAlone ==
  ASSUME Polite, IInv, Free
  PROVE  ~Busy
  BY DEF Polite, IInv, Alone, Waiting, Free, Busy

LEMMA InitInv == Init => IInv
<1> SUFFICES ASSUME Init PROVE IInv
  OBVIOUS
<1>1. Types
  <2>1. TypeOK
    <3>1. ctx.off \in 0..AreaSize["image1"] /\ Len(ctx.buf) < BufBlocks
      BY Areas, Fresh, UsbAssumption DEF Init
    <3>2. worker.state \in {"dfuIDLE", "dfuDNLOAD_IDLE"} /\ worker.len = 0
      BY DEF Init
    <3>3. pending \in BOOLEAN /\ upgrade \in BOOLEAN /\ signaled \in BOOLEAN
          /\ whole \in BOOLEAN
      BY DEF Init
    <3>4. ticks \in 0..MaxTicks
      BY UsbAssumption DEF Init
    <3> QED BY <3>1, <3>2, <3>3, <3>4, Areas DEF Init, TypeOK, States
  <2>2. sent \in Seq(Blocks) /\ done \in Seq(Blocks) /\ got \in Seq(Sent)
    BY EmptySeq DEF Init
  <2>3. Garbage \in Cells
    BY DEF Cells
  <2>4. /\ bank \in [Slots -> Cells]
        /\ worker \in [state: {"dfuIDLE", "dfuDNLOAD_IDLE"},
                       len: Downloads \cup {0}, buf: Cells]
    BY <2>3 DEF Init
  <2> QED BY <2>1, <2>2, <2>4, Fresh DEF Init, Types
<1>2. Alone
  BY DEF Init, Alone, Busy, Waiting
<1>3. Transferred
  BY DEF Init, Transferred, Requested
<1> QED BY <1>1, <1>2, <1>3 DEF IInv

(* A request that leaves the work and the flash alone.                     *)
LEMMA KeptTransferred ==
  ASSUME IInv, UNCHANGED <<flash, work, sent, done>>,
         \/ UNCHANGED ctx /\ (state' = "dfuDNLOAD_IDLE" => state' = state)
         \/ ~Busy /\ state' # "dfuDNLOAD_IDLE"
  PROVE  Transferred'
  BY DEF IInv, Transferred, StoredUpTo, Handed, ToStore, Requested, Busy,
         flash, work, Image

LEMMA KeptTypes ==
  ASSUME IInv, UNCHANGED <<work, flash, waiter, ticks, files>>,
         state' \in States, seen' = state', signaled' \in BOOLEAN,
         status' \in {"OK", "errWRITE", "errERASE", "errFILE", "errUNKNOWN"},
         flash_area_id' \in DOMAIN AreaSize,
         <<bytes_sent, block_nr>>' \in {<<bytes_sent, block_nr>>, <<0, 0>>},
         ctx' \in {ctx, FreshCtx},
         state' = "dfuUPLOAD_IDLE" =>
           state = state' /\ UNCHANGED <<flash_area_id, bytes_sent>>
  PROVE  Types'
<1>1. /\ state' = "dfuUPLOAD_IDLE" => bytes_sent' <= UploadSize'
      /\ bytes_sent' \in Nat /\ block_nr' \in Nat
  BY DEF IInv, Types, TypeOK, UploadSize
<1>2. /\ ctx' \in [off: Nat, buf: Seq(Cells)]
      /\ ctx.off' \in 0..AreaSize["image1"] /\ Len(ctx.buf') < BufBlocks
  BY Fresh, Areas, UsbAssumption DEF IInv, Types, TypeOK
<1>3. TypeOK'
  BY <1>1, <1>2 DEF IInv, Types, TypeOK, work, flash, files
<1> QED BY <1>2, <1>3 DEF IInv, Types, work, flash, files

-----------------------------------------------------------------------------
(* The requests.                                                           *)

LEMMA StatusInv ==
  ASSUME IInv, Status, seen' = state'
  PROVE  IInv'
<1>1. /\ UNCHANGED <<status, upload, ctx, work, wait, flash, files>>
      /\ state' = state \/ (state = "dfuMANIFEST_SYNC" /\ state' = "dfuIDLE")
  BY DEF Status, GetStatus, GetState, dfu
<1>2. Types'
  BY <1>1, KeptTypes DEF IInv, Types, TypeOK, States, upload, wait
<1>3. Alone'
  BY <1>1 DEF IInv, Alone, Busy, Waiting, work
<1>4. Transferred'
  BY <1>1, KeptTransferred DEF files
<1> QED BY <1>2, <1>3, <1>4 DEF IInv

Plain ==
  \/ RefusedByApp \/ Abort \/ ClrStatus \/ Detach \/ BusReset
  \/ WrongState({"dfuIDLE", "dfuDNLOAD_IDLE"})
  \/ WrongState({"dfuIDLE", "dfuUPLOAD_IDLE"})
  \/ \E area \in DOMAIN AreaSize : SetInterface(area)

LEMMA PlainInv ==
  ASSUME Polite, IInv, ~Busy, Plain, seen' = state'
  PROVE  IInv'
<1>1. /\ UNCHANGED <<work, wait, flash, files>>
      /\ state' \in States
      /\ \/ UNCHANGED <<bytes_sent, block_nr, ctx>>
         \/ bytes_sent' = 0 /\ block_nr' = 0 /\ ctx' = FreshCtx
      /\ flash_area_id' \in DOMAIN AreaSize
      /\ status' \in {status, "OK", "errUNKNOWN"}
      /\ state' \in {"dfuUPLOAD_IDLE", "dfuDNLOAD_IDLE"} =>
           /\ state' = state /\ UNCHANGED <<bytes_sent, ctx>>
           /\ state = "dfuUPLOAD_IDLE" => UNCHANGED flash_area_id
  BY DEF Polite, IInv, Types, TypeOK, Alone, Plain, RefusedByApp, Abort,
         ClrStatus, Detach, BusReset, WrongState, SetInterface, Untouched,
         ResetCounters, States, App, upload, dfu
<1>2. Types'
  BY <1>1, KeptTypes DEF IInv, Types, TypeOK, wait
<1>3. Alone'
  BY <1>1 DEF IInv, Alone, Busy, Waiting, work
<1>4. Transferred'
  BY <1>1, KeptTransferred DEF files
<1> QED BY <1>2, <1>3, <1>4 DEF IInv

(* The types of what a download changes                                    *)
LEMMA DnloadTypes ==
  ASSUME IInv, seen' = state', state' \in States, state' # "dfuUPLOAD_IDLE",
         UNCHANGED <<status, flash_area_id, at, len, flash, got, whole>>,
         UNCHANGED <<bytes_sent, block_nr>> \/ (bytes_sent' = 0 /\ block_nr' = 0),
         ctx' \in {ctx, FreshCtx}, pending' \in BOOLEAN, signaled' \in BOOLEAN,
         waiter' \in {"polling", "waiting", "gone"}, ticks' = ticks,
         worker' \in [state: {"dfuIDLE", "dfuDNLOAD_IDLE"},
                      len: Downloads \cup {0}, buf: Cells],
         sent' \in Seq(Blocks), done' \in Seq(Blocks)
  PROVE  Types'
<1>1. /\ ctx' \in [off: Nat, buf: Seq(Cells)]
      /\ ctx.off' \in 0..AreaSize["image1"] /\ Len(ctx.buf') < BufBlocks
  BY Fresh, Areas, UsbAssumption DEF IInv, Types, TypeOK
<1>2. worker.state' \in {"dfuIDLE", "dfuDNLOAD_IDLE"}
      /\ worker.len' \in Downloads \cup {0}
  OBVIOUS
<1>3. TypeOK'
  BY <1>1, <1>2 DEF IInv, Types, TypeOK, flash
<1> QED BY <1>1, <1>3 DEF IInv, Types, flash

LEMMA DnloadFirstInv ==
  ASSUME Polite, IInv, ~Busy, NEW d \in Downloads \cup {0}, DnloadFirst(d),
         seen' = state'
  PROVE  IInv'
<1>1. CASE flash_area_id # "image1"
  <2>1. /\ UNCHANGED <<work, flash, waiter, ticks, files, flash_area_id>>
        /\ state' = "dfuERROR" /\ status' = "errWRITE" /\ signaled' = FALSE
        /\ bytes_sent' = 0 /\ block_nr' = 0 /\ ctx' = FreshCtx
    BY <1>1 DEF DnloadFirst, ResetCounters
  <2>2. Types'
    BY <2>1, KeptTypes DEF IInv, Types, TypeOK, States
  <2>3. Alone'
    BY <2>1 DEF IInv, Alone, Busy, work
  <2>4. Transferred'
    BY <2>1, KeptTransferred DEF files
  <2> QED BY <2>2, <2>3, <2>4 DEF IInv
<1>2. CASE flash_area_id = "image1"
  <2> DEFINE q == IF d = 0 THEN <<>> ELSE <<<<d, 0>>>>
  <2>1. /\ state' = "dfuDNBUSY" /\ sent' = q /\ Submit("dfuIDLE", d)
        /\ bytes_sent' = 0 /\ block_nr' = 0 /\ ctx' = FreshCtx
        /\ signaled' = FALSE
        /\ UNCHANGED <<status, flash_area_id, waiter, ticks, flash>>
    BY <1>2 DEF DnloadFirst, ResetCounters
  <2>2. /\ q \in Seq(Blocks)
        /\ Len(q) = IF d = 0 THEN 0 ELSE 1
        /\ d # 0 => q[1] \in Blocks
    <3>1. <<d, 0>> \in Blocks => <<<<d, 0>>>> \in Seq(Blocks)
      OBVIOUS
    <3>2. d # 0 => <<d, 0>> \in Blocks
      BY DEF Blocks
    <3> QED BY <3>1, <3>2, EmptySeq
  <2>3. /\ worker' = [state |-> "dfuIDLE", len |-> d,
                       buf |-> IF d = 0 THEN worker.buf ELSE q[1]]
        /\ pending' = TRUE /\ UNCHANGED <<at, len, got, whole>>
        /\ done' = IF d = 0 THEN q ELSE done
    BY <2>1, <2>2 DEF Submit
  <2>4. worker' \in [state: {"dfuIDLE", "dfuDNLOAD_IDLE"},
                     len: Downloads \cup {0}, buf: Cells]
    BY <2>2, <2>3 DEF IInv, Types, Cells
  <2>5. Types'
    BY <2>1, <2>2, <2>3, <2>4, DnloadTypes DEF IInv, Types, TypeOK, States
  <2>6. Alone'
    BY <2>1, <2>3 DEF IInv, Alone, Busy, Waiting
  <2>7. Transferred'
    BY <2>1, <2>2, <2>3 DEF IInv, Transferred, Requested, Busy, Handed,
       ToStore, flash
  <2> QED BY <2>5, <2>6, <2>7 DEF IInv
<1> QED BY <1>1, <1>2

LEMMA DnloadNextInv ==
  ASSUME Polite, IInv, ~Busy, NEW d \in Downloads \cup {0}, DnloadNext(d),
         seen' = state'
  PROVE  IInv'
<1> DEFINE q == IF d = 0 THEN sent ELSE Append(sent, <<d, Len(sent)>>)
<1>1. /\ state = "dfuDNLOAD_IDLE" /\ sent' = q
      /\ state' \in {"dfuDNBUSY", "dfuMANIFEST_SYNC"}
      /\ Submit("dfuDNLOAD_IDLE", d)
      /\ UNCHANGED <<status, upload, ctx, flash, ticks>>
      /\ waiter' \in {waiter, "gone"} /\ signaled' \in {signaled, TRUE}
  BY DEF DnloadNext, Raise, wait
<1>2. sent \in Seq(Blocks) /\ Len(sent) \in Nat
  BY LenProperties DEF IInv, Types
<1>3. d # 0 => /\ <<d, Len(sent)>> \in Blocks
               /\ q \in Seq(Blocks) /\ Len(q) = Len(sent) + 1
               /\ q[Len(q)] = <<d, Len(sent)>>
               /\ \A i \in 1..Len(sent) : q[i] = sent[i]
  BY <1>2, AppendProperties DEF Blocks
<1>4. /\ worker' = [state |-> "dfuDNLOAD_IDLE", len |-> d,
                     buf |-> IF d = 0 THEN worker.buf ELSE q[Len(q)]]
      /\ pending' = TRUE /\ UNCHANGED <<at, len, got, whole>>
      /\ done' = IF d = 0 THEN q ELSE done
  BY <1>1 DEF Submit
<1>5. worker' \in [state: {"dfuIDLE", "dfuDNLOAD_IDLE"},
                   len: Downloads \cup {0}, buf: Cells]
  BY <1>3, <1>4 DEF IInv, Types, Cells
<1>6. Types'
  BY <1>1, <1>2, <1>3, <1>4, <1>5, DnloadTypes
     DEF IInv, Types, TypeOK, States, upload
<1>7. Alone'
  BY <1>1, <1>4 DEF IInv, Alone, Busy, Waiting
<1>8. StoredUpTo(Len(sent)) /\ ~upgrade /\ ~pending /\ at = "idle"
  BY <1>1 DEF IInv, Transferred, Busy
<1>9. Handed' /\ ToStore' = Len(sent)
  BY <1>1, <1>2, <1>3, <1>4 DEF Handed, ToStore
<1>10. StoredUpTo(ToStore)'
  BY <1>1, <1>2, <1>3, <1>8, <1>9 DEF StoredUpTo, flash
<1>11. Transferred'
  BY <1>1, <1>4, <1>8, <1>9, <1>10 DEF Transferred, Requested, flash
<1> QED BY <1>6, <1>7, <1>11 DEF IInv

LEMMA UploadFacts ==
  ASSUME IInv, state \in {"dfuIDLE", "dfuUPLOAD_IDLE"}, NEW n \in Lens
  PROVE  /\ UploadSize \in Nat \ {0}
         /\ Counters.sent \in 0..UploadSize /\ Counters.nr \in Nat
         /\ UploadLen(n) \in Nat /\ n \in Nat
         /\ UploadLen(n) = IF UploadSize - Counters.sent <= n
                           THEN UploadSize - Counters.sent ELSE n
<1>1. UploadSize \in Nat \ {0} /\ n \in Nat
  BY Areas, UsbAssumption DEF IInv, Types, TypeOK, UploadSize
<1>2. Counters.sent \in 0..UploadSize /\ Counters.nr \in Nat
  BY <1>1 DEF IInv, Types, TypeOK, Counters
<1> QED BY <1>1, <1>2 DEF UploadLen

(* What a block of an upload adds to what the host has got                 *)
Read(n) == [i \in 1..UploadLen(n) |-> <<flash_area_id, Counters.sent + i - 1>>]

Before == IF Counters.sent = 0 THEN <<>> ELSE got

LEMMA ReadFacts ==
  ASSUME IInv, state \in {"dfuIDLE", "dfuUPLOAD_IDLE"}, NEW n \in Lens
  PROVE  /\ Read(n) \in Seq(Sent) /\ Len(Read(n)) = UploadLen(n)
         /\ Before \in Seq(Sent)
<1>1. UploadLen(n) \in Nat
  BY UploadFacts
<1>2. Read(n) \in [1..UploadLen(n) -> Sent]
  BY <1>1, UploadFacts DEF Read, Sent, IInv, Types, TypeOK
<1>3. Read(n) \in Seq(Sent) /\ Len(Read(n)) = UploadLen(n)
  <2> HIDE DEF Read
  <2> QED BY <1>1, <1>2, UploadFacts
<1> QED BY <1>3, EmptySeq DEF Before, IInv, Types

LEMMA UploadBlockFacts ==
  ASSUME IInv, state \in {"dfuIDLE", "dfuUPLOAD_IDLE"}, NEW n \in Lens,
         UploadBlock(n)
  PROVE  \E last \in BOOLEAN :
           /\ last <=> Counters.sent + UploadLen(n) = UploadSize
                         /\ UploadLen(n) < n
           /\ bytes_sent' = Counters.sent + UploadLen(n)
           /\ block_nr' = Counters.nr + 1 /\ UNCHANGED status
           /\ got' = Before \o (IF last THEN <<>> ELSE Read(n))
           /\ state' = IF last THEN "dfuIDLE" ELSE "dfuUPLOAD_IDLE"
           /\ whole' = (last => got' = [i \in 1..UploadSize |->
                                          <<flash_area_id, i - 1>>])
<1> DEFINE last == Counters.sent + UploadLen(n) = UploadSize
                     /\ UploadLen(n) < n
<1>1. last \in BOOLEAN
  OBVIOUS
<1> QED BY <1>1, Zenon DEF UploadBlock, Before, Read

LEMMA UploadInv ==
  ASSUME Polite, IInv, ~Busy, NEW n \in Lens, NEW number,
         state \in {"dfuIDLE", "dfuUPLOAD_IDLE"}, Upload(n, number),
         seen' = state'
  PROVE  IInv'
<1>1. /\ ctx' \in {ctx, FreshCtx}
      /\ UNCHANGED <<flash_area_id, work, wait, flash, sent, done>>
      /\ \/ UploadBlock(n) 
         \/ UploadFails("errUNKNOWN") \/ UploadFails("errFILE")
  BY DEF Upload, WrongState
<1>2. /\ state' \in {"dfuERROR", "dfuIDLE", "dfuUPLOAD_IDLE"}
      /\ bytes_sent' \in 0..UploadSize /\ block_nr' \in Nat
      /\ got' \in Seq(Sent) /\ whole' \in BOOLEAN
      /\ status' \in {status, "errUNKNOWN", "errFILE"}
  <2>1. CASE UploadBlock(n)
    <3>1. PICK last \in BOOLEAN :
             /\ bytes_sent' = Counters.sent + UploadLen(n)
             /\ block_nr' = Counters.nr + 1 /\ UNCHANGED status
             /\ got' = Before \o (IF last THEN <<>> ELSE Read(n))
             /\ state' = IF last THEN "dfuIDLE" ELSE "dfuUPLOAD_IDLE"
             /\ whole' = (last => got' = [i \in 1..UploadSize |->
                                            <<flash_area_id, i - 1>>])
      BY <2>1, UploadBlockFacts
    <3>2. got' \in Seq(Sent)
      BY <3>1, ReadFacts, EmptySeq, ConcatProperties
    <3>3. whole' \in BOOLEAN
      BY <3>1
    <3>4. bytes_sent' \in 0..UploadSize /\ block_nr' \in Nat
      BY <3>1, UploadFacts
    <3>5. state' \in {"dfuIDLE", "dfuUPLOAD_IDLE"}
      BY <3>1
    <3> QED BY <3>1, <3>2, <3>3, <3>4, <3>5
  <2>2. CASE UploadFails("errUNKNOWN") \/ UploadFails("errFILE")
    BY <2>2, UploadFacts DEF UploadFails, IInv, Types, TypeOK
  <2> QED BY <1>1, <2>1, <2>2
<1>3. /\ ctx' \in [off: Nat, buf: Seq(Cells)]
      /\ ctx.off' \in 0..AreaSize["image1"] /\ Len(ctx.buf') < BufBlocks
  BY <1>1, Fresh, Areas, UsbAssumption DEF IInv, Types, TypeOK
<1>4. bytes_sent' \in Nat /\ bytes_sent' <= UploadSize'
  BY <1>1, <1>2, UploadFacts DEF UploadSize
<1>5. Types'
  BY <1>1, <1>2, <1>3, <1>4 DEF IInv, Types, TypeOK, States, work, wait, flash
<1>6. Alone'
  BY <1>1, <1>2 DEF IInv, Alone, Busy, work
<1>7. Transferred'
  BY <1>1, <1>2, KeptTransferred
<1> QED BY <1>5, <1>6, <1>7 DEF IInv

-----------------------------------------------------------------------------
(* The work.                                                               *)

LEMMA WorkStartsInv == ASSUME IInv, WorkStarts PROVE IInv'
<1>1. /\ at = "idle" /\ pending /\ pending' = FALSE
      /\ \/ worker.state = "dfuIDLE" /\ at' = "erase" /\ len' = len
         \/ worker.state # "dfuIDLE" /\ at' = "write" /\ len' = worker.len
      /\ UNCHANGED <<dfu, upload, ctx, worker, wait, flash, seen, files>>
  BY DEF WorkStarts
<1>2. Types'
  BY <1>1 DEF IInv, Types, TypeOK, UploadSize, dfu, upload, wait, flash, files
<1>3. Alone'
  BY <1>1 DEF IInv, Alone, Busy, dfu
<1>4. Transferred'
  BY <1>1 DEF IInv, Transferred, Requested, StoredUpTo, Handed, ToStore,
              Image, dfu, flash, files
<1> QED BY <1>2, <1>3, <1>4 DEF IInv

LEMMA WorkErasesInv == ASSUME IInv, WorkErases PROVE IInv'
<1>1. /\ at = "erase" /\ at' = "write" /\ len' = worker.len
      /\ bank' = [i \in Slots |-> Blank] /\ upgrade' = FALSE
      /\ UNCHANGED <<dfu, upload, ctx, worker, pending, wait, seen, files>>
  BY DEF WorkErases
<1>2. bank' \in [Slots -> Cells]
  BY <1>1 DEF Cells
<1>3. Types'
  BY <1>1, <1>2 DEF IInv, Types, TypeOK, UploadSize, dfu, upload, wait, files
<1>4. Alone'
  BY <1>1 DEF IInv, Alone, Busy, dfu
<1>5. ctx.off = 0 /\ Len(ctx.buf) = 0 /\ Handed /\ ToStore = 0 /\ ~pending
  BY <1>1, Fresh DEF IInv, Transferred, Alone
<1>6. Len(sent) \in Nat
  BY LenProperties DEF IInv, Types
<1>7. StoredUpTo(ToStore)' /\ Handed'
  BY <1>1, <1>5, <1>6 DEF StoredUpTo, Handed, ToStore, files
<1>8. state \in Waiting
  BY <1>1 DEF IInv, Alone, Busy
<1>9. Transferred'
  BY <1>1, <1>5, <1>7, <1>8 DEF Transferred, Requested, Waiting, dfu
<1> QED BY <1>3, <1>4, <1>9 DEF IInv

(* The work ends with an error; what is in flash was erased before.        *)
LEMMA FailsInv ==
  ASSUME IInv, at \in {"erase", "failed", "request"}, NEW s, WorkFails(s),
         s \in {"errERASE", "errWRITE"},
         bank' \in [Slots -> Cells], bank' = bank \/ at = "erase"
  PROVE  IInv'
<1>1. /\ state' = "dfuERROR" /\ status' = s /\ at' = "idle" /\ len' = 0
      /\ UNCHANGED <<upload, ctx, worker, pending, wait, upgrade, seen, files>>
  BY DEF WorkFails
<1>2. Types'
  BY <1>1 DEF IInv, Types, TypeOK, States, upload, wait, files
<1>3. ~pending
  BY DEF IInv, Alone
<1>4. Alone'
  BY <1>1, <1>3 DEF IInv, Alone, Busy
<1>5. Transferred'
  BY <1>1, <1>3 DEF IInv, Transferred, Requested, Image, files
<1> QED BY <1>2, <1>4, <1>5 DEF IInv

(* What flash_img_buffered_write gathers is what follows in the download.  *)
LEMMA GatheredFacts ==
  ASSUME IInv, at = "write"
  PROVE  /\ Gathered \in Seq(Cells) /\ Len(Gathered) \in Nat
         /\ ctx.off \in Nat /\ ctx.off + Len(Gathered) = Len(sent)
         /\ \A i \in 1..Len(Gathered) : Gathered[i] = sent[ctx.off + i]
         /\ \A i \in 1..ctx.off : sent[i] = bank[i - 1] /\ i - 1 \in Slots
         /\ \A i \in Slots : i >= ctx.off => bank[i] = Blank
         /\ Len(Gathered) <= BufBlocks
         /\ len = 0 => Gathered = ctx.buf
<1>1. /\ Handed /\ StoredUpTo(ToStore) /\ len = worker.len
      /\ ctx \in [off: Nat, buf: Seq(Cells)] /\ sent \in Seq(Blocks)
      /\ worker.buf \in Cells /\ ctx.off <= AreaSize["image1"]
      /\ Len(ctx.buf) < BufBlocks
  BY DEF IInv, Types, TypeOK, Transferred
<1>2. /\ ctx.off \in Nat /\ ctx.buf \in Seq(Cells)
      /\ Len(ctx.buf) \in Nat /\ Len(sent) \in Nat
      /\ AreaSize["image1"] \in Nat /\ BufBlocks \in Nat
  BY <1>1, LenProperties, UsbAssumption
<1>3. /\ \A i \in 1..ctx.off : sent[i] = bank[i - 1] /\ i - 1 \in Slots
      /\ \A i \in Slots : i >= ctx.off => bank[i] = Blank
      /\ \A i \in 1..Len(ctx.buf) : ctx.buf[i] = sent[ctx.off + i]
      /\ ToStore = ctx.off + Len(ctx.buf)
  <2>1. \A i \in 1..ctx.off : sent[i] = bank[i - 1] /\ i - 1 \in Slots
    BY <1>1, <1>2 DEF StoredUpTo, Slots
  <2>2. \A i \in 1..Len(ctx.buf) : ctx.buf[i] = sent[ctx.off + i]
    <3> TAKE i \in 1..Len(ctx.buf)
    <3>1. /\ ctx.off + i \in 1..ToStore /\ ~(ctx.off + i <= ctx.off)
          /\ (ctx.off + i) - ctx.off = i
      BY <1>1, <1>2 DEF StoredUpTo
    <3> QED BY <1>1, <3>1 DEF StoredUpTo
  <2> QED BY <1>1, <2>1, <2>2 DEF StoredUpTo
<1>4. CASE len = 0
  <2>1. Gathered = ctx.buf /\ ToStore = Len(sent)
    BY <1>1, <1>4 DEF Gathered, ToStore
  <2> QED BY <1>1, <1>2, <1>3, <2>1
<1>5. CASE len # 0
  <2>1. /\ Gathered = Append(ctx.buf, worker.buf) /\ ToStore = Len(sent) - 1
        /\ worker.buf = sent[Len(sent)]
    BY <1>1, <1>5 DEF Gathered, ToStore, Handed
  <2>2. /\ Gathered \in Seq(Cells) /\ Len(Gathered) = Len(ctx.buf) + 1
        /\ \A i \in 1..Len(ctx.buf) : Gathered[i] = ctx.buf[i]
        /\ Gathered[Len(ctx.buf) + 1] = worker.buf
    BY <1>1, <1>2, <2>1, AppendProperties
  <2>3. Len(sent) = ctx.off + Len(ctx.buf) + 1
    BY <1>2, <1>3, <2>1
  <2>4. ASSUME NEW i \in 1..Len(Gathered)
        PROVE  Gathered[i] = sent[ctx.off + i]
    <3>1. CASE i \in 1..Len(ctx.buf)
      BY <1>3, <2>2, <3>1
    <3>2. CASE i = Len(ctx.buf) + 1
      BY <1>2, <2>1, <2>2, <2>3, <3>2
    <3> QED BY <1>2, <2>2, <3>1, <3>2
  <2>5. /\ Len(Gathered) \in Nat /\ Len(Gathered) <= BufBlocks
        /\ ctx.off + Len(Gathered) = Len(sent)
    BY <1>1, <1>2, <2>2, <2>3
  <2> QED BY <1>2, <1>3, <1>5, <2>2, <2>4, <2>5
<1> QED BY <1>4, <1>5

LEMMA ProgrammedFacts ==
  ASSUME IInv, at = "write", Room
  PROVE  /\ Programmed \in [Slots -> Cells]
         /\ \A i \in 1..Len(sent) : Programmed[i - 1] = sent[i]
         /\ \A i \in Slots : i >= Len(sent) => Programmed[i] = Blank
         /\ Len(sent) \in 0..AreaSize["image1"]
<1> DEFINE g == Gathered
<1>1. /\ g \in Seq(Cells) /\ Len(g) \in Nat /\ ctx.off \in Nat
      /\ ctx.off + Len(g) = Len(sent)
      /\ \A i \in 1..Len(g) : g[i] = sent[ctx.off + i]
      /\ \A i \in 1..ctx.off : sent[i] = bank[i - 1] /\ i - 1 \in Slots
      /\ \A i \in Slots : i >= ctx.off => bank[i] = Blank
      /\ bank \in [Slots -> Cells] /\ AreaSize["image1"] \in Nat
  BY GatheredFacts, Areas DEF IInv, Types
<1>2. Programmed = [i \in Slots |->
                      LET k == i - ctx.off + 1
                      IN  IF k \notin 1..Len(g) THEN bank[i]
                          ELSE IF bank[i] = Blank THEN g[k] ELSE Garbage]
  BY DEF Programmed
<1> HIDE DEF g
<1>3. Len(sent) <= AreaSize["image1"]
  BY <1>1 DEF Room, g
<1>4. ASSUME NEW i \in Slots PROVE Programmed[i] \in Cells
  <2>1. \A k \in 1..Len(g) : g[k] \in Cells
    BY <1>1, ElementOfSeq
  <2> QED BY <1>1, <1>2, <2>1 DEF Cells
<1>5. ASSUME NEW i \in 1..Len(sent) PROVE Programmed[i - 1] = sent[i]
  <2>1. i - 1 \in Slots
    BY <1>1, <1>3 DEF Slots
  <2>2. CASE i <= ctx.off
    <3>1. (i - 1) - ctx.off + 1 \notin 1..Len(g) /\ i \in 1..ctx.off
      BY <1>1, <2>2
    <3> QED BY <1>1, <1>2, <2>1, <3>1
  <2>3. CASE i > ctx.off
    <3>1. /\ (i - 1) - ctx.off + 1 = i - ctx.off /\ i - ctx.off \in 1..Len(g)
          /\ i - 1 >= ctx.off /\ ctx.off + (i - ctx.off) = i
      BY <1>1, <2>3
    <3>2. bank[i - 1] = Blank /\ g[i - ctx.off] = sent[i]
      BY <1>1, <2>1, <3>1
    <3> QED BY <1>2, <2>1, <3>1, <3>2
  <2> QED BY <1>1, <2>2, <2>3
<1>6. ASSUME NEW i \in Slots, i >= Len(sent) PROVE Programmed[i] = Blank
  <2>1. i - ctx.off + 1 \notin 1..Len(g) /\ i >= ctx.off
    BY <1>1, <1>6 DEF Slots
  <2> QED BY <1>1, <1>2, <2>1
<1>7. Programmed \in [Slots -> Cells]
  <2>1. \A i \in Slots : Programmed[i] \in Cells
    BY <1>4
  <2> QED BY <1>2, <2>1
<1>8. Len(sent) \in 0..AreaSize["image1"]
  BY <1>1, <1>3
<1> QED BY <1>5, <1>6, <1>7, <1>8

LEMMA WorkWritesInv == ASSUME IInv, WorkWrites PROVE IInv'
<1>1. /\ at = "write" /\ at' = "written"
      /\ UNCHANGED <<dfu, upload, worker, pending, len, wait, upgrade, seen,
                     files>>
      /\ \/ /\ Due /\ Room /\ bank' = Programmed
            /\ ctx' = [off |-> ctx.off + Len(Gathered), buf |-> <<>>]
         \/ /\ ~Due /\ ctx' = [ctx EXCEPT !.buf = Gathered] /\ bank' = bank
  BY DEF WorkWrites
<1>2. /\ Gathered \in Seq(Cells) /\ Len(Gathered) \in Nat
      /\ ctx.off \in Nat /\ ctx.off + Len(Gathered) = Len(sent)
      /\ \A i \in 1..Len(Gathered) : Gathered[i] = sent[ctx.off + i]
      /\ \A i \in 1..ctx.off : sent[i] = bank[i - 1] /\ i - 1 \in Slots
      /\ \A i \in Slots : i >= ctx.off => bank[i] = Blank
      /\ Len(Gathered) <= BufBlocks
      /\ len = 0 => Gathered = ctx.buf
  BY <1>1, GatheredFacts
<1>3. /\ Len(sent) \in Nat /\ Handed /\ ~upgrade /\ len = worker.len
      /\ state \in Waiting /\ ~pending
      /\ ctx \in [off: Nat, buf: Seq(Cells)]
      /\ ctx.off <= AreaSize["image1"] /\ BufBlocks \in Nat \ {0}
  BY <1>1, LenProperties, UsbAssumption
     DEF IInv, Types, TypeOK, Alone, Busy, Transferred
<1>4. /\ bank' \in [Slots -> Cells] /\ ctx' \in [off: Nat, buf: Seq(Cells)]
      /\ ctx.off' \in 0..AreaSize["image1"] /\ Len(ctx.buf') < BufBlocks
      /\ StoredUpTo(Len(sent))' /\ (len = 0 => ctx.buf' = <<>>)
  <2>1. CASE Due
    <3>0. Room /\ bank' = Programmed /\ ctx' = [off |-> Len(sent), buf |-> <<>>]
      BY <1>1, <1>2, <2>1
    <3>1. /\ Room /\ bank' = Programmed /\ ctx'.off = Len(sent)
          /\ ctx'.buf = <<>> /\ Len(ctx'.buf) = 0
          /\ ctx' \in [off: Nat, buf: Seq(Cells)]
      <4>1. <<>> \in Seq(Cells) /\ Len(<<>>) = 0
        BY EmptySeq
      <4> QED BY <1>3, <3>0, <4>1
    <3>2. /\ Programmed \in [Slots -> Cells]
          /\ \A i \in 1..Len(sent) : Programmed[i - 1] = sent[i]
          /\ \A i \in Slots : i >= Len(sent) => Programmed[i] = Blank
          /\ Len(sent) \in 0..AreaSize["image1"]
      BY <1>1, <3>1, ProgrammedFacts
    <3>3. StoredUpTo(Len(sent))'
      BY <1>1, <1>3, <3>1, <3>2 DEF StoredUpTo, files
    <3> QED BY <1>3, <3>1, <3>2, <3>3
  <2>2. CASE ~Due
    <3>1. /\ ctx'.off = ctx.off /\ ctx'.buf = Gathered /\ bank' = bank
          /\ ctx' \in [off: Nat, buf: Seq(Cells)] /\ sent' = sent
      BY <1>1, <1>2, <1>3, <2>2 DEF files
    <3>2. Len(Gathered) < BufBlocks /\ (len = 0 => Gathered = <<>>)
      BY <1>2, <1>3, <2>2 DEF Due
    <3>3. ASSUME NEW i \in 1..Len(sent)
          PROVE  sent[i] = IF i <= ctx.off THEN bank[i - 1]
                           ELSE Gathered[i - ctx.off]
      <4>1. CASE i <= ctx.off
        BY <1>2, <4>1
      <4>2. CASE i > ctx.off
        <5>1. i - ctx.off \in 1..Len(Gathered) /\ ctx.off + (i - ctx.off) = i
          BY <1>2, <4>2
        <5> QED BY <1>2, <4>2, <5>1
      <4> QED BY <1>2, <4>1, <4>2
    <3>4. StoredUpTo(Len(sent))'
      BY <1>2, <1>3, <3>1, <3>3 DEF StoredUpTo
    <3>5. bank' \in [Slots -> Cells] /\ ctx.off' \in 0..AreaSize["image1"]
      BY <1>2, <1>3, <3>1, Areas DEF IInv, Types
    <3> QED BY <3>1, <3>2, <3>4, <3>5
  <2> QED BY <2>1, <2>2
<1>5. Types'
  BY <1>1, <1>4 DEF IInv, Types, TypeOK, UploadSize, dfu, upload, wait, files
<1>6. Alone'
  BY <1>1 DEF IInv, Alone, Busy, dfu
<1>7. Transferred'
  BY <1>1, <1>3, <1>4 DEF Transferred, Requested, Handed, Waiting, dfu, files
<1> QED BY <1>5, <1>6, <1>7 DEF IInv

LEMMA WriteFailsInv == ASSUME IInv, WriteFails PROVE IInv'
<1>1. /\ at = "write" /\ at' = "failed"
      /\ bank' = [i \in Slots |-> IF Programmed[i] = bank[i] THEN bank[i]
                                  ELSE Garbage]
      /\ UNCHANGED <<dfu, upload, ctx, worker, pending, len, wait, upgrade,
                     seen, files>>
  BY DEF WriteFails
<1>2. bank' \in [Slots -> Cells]
  BY <1>1 DEF Cells, IInv, Types
<1>3. Types'
  BY <1>1, <1>2 DEF IInv, Types, TypeOK, UploadSize, dfu, upload, wait, files
<1>4. Alone'
  BY <1>1 DEF IInv, Alone, Busy, dfu
<1>5. state \in Waiting /\ ~pending /\ ~upgrade
  BY <1>1 DEF IInv, Alone, Busy, Transferred
<1>6. Transferred'
  BY <1>1, <1>5 DEF Transferred, Requested, Waiting, dfu, files
<1> QED BY <1>3, <1>4, <1>6 DEF IInv

LEMMA BlockReportedInv == ASSUME IInv, BlockReported PROVE IInv'
<1>1. /\ at = "written" /\ len # 0 /\ state' = "dfuDNLOAD_IDLE"
      /\ at' = "idle" /\ len' = 0
      /\ UNCHANGED <<status, upload, ctx, worker, pending, wait, flash, seen,
                     files>>
  BY DEF BlockReported
<1>2. Types'
  BY <1>1 DEF IInv, Types, TypeOK, States, upload, wait, flash, files
<1>3. ~pending
  BY <1>1 DEF IInv, Alone
<1>4. Alone'
  BY <1>1, <1>3 DEF IInv, Alone, Busy
<1>5. Transferred'
  BY <1>1, <1>3 DEF IInv, Transferred, Requested, StoredUpTo, Image, flash,
                    files
<1> QED BY <1>2, <1>4, <1>5 DEF IInv

LEMMA EndReportedInv == ASSUME IInv, EndReported PROVE IInv'
<1>1. /\ at = "written" /\ len = 0 /\ state' = "dfuMANIFEST_SYNC"
      /\ bytes_sent' = 0 /\ block_nr' = 0 /\ ctx' = FreshCtx
      /\ at' = "request"
      /\ UNCHANGED <<status, flash_area_id, worker, pending, len, wait, flash,
                     seen, files>>
  BY DEF EndReported, ResetCounters
<1>2. /\ ctx' \in [off: Nat, buf: Seq(Cells)]
      /\ ctx.off' \in 0..AreaSize["image1"] /\ Len(ctx.buf') < BufBlocks
  BY <1>1, Fresh, Areas, UsbAssumption
<1>3. Types'
  BY <1>1, <1>2 DEF IInv, Types, TypeOK, States, wait, flash, files
<1>4. Alone'
  BY <1>1 DEF IInv, Alone, Busy, Waiting
<1>5. /\ ~pending /\ StoredUpTo(Len(sent)) /\ done = sent /\ ctx.buf = <<>>
      /\ bank \in [Slots -> Cells] /\ sent \in Seq(Blocks)
      /\ ctx.off \in Nat /\ ctx.off <= AreaSize["image1"]
  BY <1>1 DEF IInv, Alone, Transferred, Types, TypeOK
<1>6. bank = Image(done)
  <2>1. Len(sent) = ctx.off
    BY <1>5, EmptySeq DEF StoredUpTo
  <2>2. ASSUME NEW i \in Slots
        PROVE  bank[i] = IF i < Len(done) THEN done[i + 1] ELSE Blank
    <3>1. i \in Nat
      BY DEF Slots
    <3>2. CASE i < ctx.off
      <4>1. i + 1 \in 1..Len(sent) /\ i + 1 <= ctx.off /\ (i + 1) - 1 = i
        BY <1>5, <2>1, <3>1, <3>2
      <4>2. sent[i + 1] = bank[i]
        BY <1>5, <4>1 DEF StoredUpTo
      <4> QED BY <1>5, <2>1, <3>2, <4>2
    <3>3. CASE i >= ctx.off
      BY <1>5, <2>1, <3>1, <3>3 DEF StoredUpTo
    <3> QED BY <1>5, <3>1, <3>2, <3>3
  <2> QED BY <1>5, <2>2 DEF Image
<1>7. Transferred'
  BY <1>1, <1>5, <1>6 DEF Transferred, Requested, Image, flash, files
<1> QED BY <1>3, <1>4, <1>7 DEF IInv

LEMMA RequestUpgradeInv == ASSUME IInv, RequestUpgrade PROVE IInv'
<1>1. /\ at = "request" /\ upgrade' = TRUE /\ at' = "idle"
      /\ UNCHANGED <<dfu, upload, ctx, worker, pending, len, wait, bank, seen,
                     files>>
  BY DEF RequestUpgrade
<1>2. Types'
  BY <1>1 DEF IInv, Types, TypeOK, UploadSize, dfu, upload, wait, files
<1>3. state \in Waiting /\ ~pending /\ bank = Image(done)
  BY <1>1 DEF IInv, Alone, Busy, Transferred, Requested
<1>4. Alone'
  BY <1>1, <1>3 DEF IInv, Alone, Busy, dfu
<1>5. Transferred'
  BY <1>1, <1>3 DEF Transferred, Requested, Image, Waiting, dfu, files
<1> QED BY <1>2, <1>4, <1>5 DEF IInv

LEMMA WorkInv == ASSUME IInv, Work PROVE IInv'
<1>1. CASE EraseFails
  <2>1. bank' \in [Slots -> Cells]
    BY <1>1 DEF EraseFails, IInv, Types, Cells
  <2> QED BY <1>1, <2>1, FailsInv DEF EraseFails
<1>2. CASE ErrorReported
  BY <1>2, FailsInv DEF ErrorReported, IInv, Types
<1>3. CASE RequestFails
  BY <1>3, FailsInv DEF RequestFails, IInv, Types
<1> QED BY <1>1, <1>2, <1>3, WorkStartsInv, WorkErasesInv, WorkWritesInv,
           WriteFailsInv, BlockReportedInv, EndReportedInv, RequestUpgradeInv
        DEF Work

-----------------------------------------------------------------------------
(* All steps.                                                              *)

LEMMA WaitInv == ASSUME IInv, Wait PROVE IInv'
<1>1. /\ UNCHANGED <<dfu, upload, ctx, work, signaled, flash, seen, files>>
      /\ waiter' \in {"polling", "waiting", "gone"}
      /\ ticks' = IF waiter' = "polling" THEN ticks + 1 ELSE 0
      /\ waiter' = "polling" => ticks < MaxTicks
  BY DEF Wait
<1>2. ticks' \in 0..MaxTicks
  BY <1>1, UsbAssumption DEF IInv, Types, TypeOK
<1>3. Types'
  BY <1>1, <1>2 DEF IInv, Types, TypeOK, UploadSize, dfu, upload, work, flash,
                    files
<1>4. Alone'
  BY <1>1 DEF IInv, Alone, Busy, dfu, work
<1>5. Transferred'
  BY <1>1 DEF IInv, Transferred, Requested, StoredUpTo, Handed, ToStore,
              Image, dfu, work, flash, files
<1> QED BY <1>3, <1>4, <1>5 DEF IInv

(* A request is one that changes little, a download or an upload.          *)
LEMMA TransferKinds ==
  ASSUME Transfer
  PROVE  \/ Plain
         \/ \E d \in Downloads \cup {0} : DnloadFirst(d) \/ DnloadNext(d)
         \/ \E n \in Lens, number \in {Counters.nr, Counters.nr + 1} :
              /\ state \in {"dfuIDLE", "dfuUPLOAD_IDLE"}
              /\ Upload(n, number)
  BY DEF Transfer, Plain, Dnload, Upload

LEMMA RequestInv == ASSUME Polite, IInv, Request PROVE IInv'
<1>1. CASE Status
  BY <1>1, StatusInv DEF Request
<1>2. CASE Free /\ Transfer
  <2>1. ~Busy /\ seen' = state'
    BY <1>2, FreeIsAlone DEF Request
  <2>2. CASE Plain
    BY <2>1, <2>2, PlainInv
  <2>3. ASSUME NEW d \in Downloads \cup {0}, DnloadFirst(d) PROVE IInv'
    BY <2>1, <2>3, DnloadFirstInv
  <2>4. ASSUME NEW d \in Downloads \cup {0}, DnloadNext(d) PROVE IInv'
    BY <2>1, <2>4, DnloadNextInv
  <2>5. ASSUME NEW n \in Lens, NEW number, Upload(n, number),
               state \in {"dfuIDLE", "dfuUPLOAD_IDLE"}
        PROVE  IInv'
    BY <2>1, <2>5, UploadInv
  <2> QED BY <1>2, <2>2, <2>3, <2>4, <2>5, TransferKinds
<1> QED BY <1>1, <1>2 DEF Request

LEMMA StutterInv == ASSUME IInv, UNCHANGED vars PROVE IInv'
<1>1. UNCHANGED <<dfu, upload, ctx, work, wait, flash, seen, files>>
  BY DEF vars
<1>2. Types'
  BY <1>1 DEF IInv, Types, TypeOK, UploadSize, dfu, upload, work, wait, flash,
              files
<1>3. Alone'
  BY <1>1 DEF IInv, Alone, Busy, dfu, work
<1>4. Transferred'
  BY <1>1 DEF IInv, Transferred, Requested, StoredUpTo, Handed, ToStore,
              Image, dfu, work, flash, files
<1> QED BY <1>2, <1>3, <1>4 DEF IInv

LEMMA StepInv == ASSUME Polite, IInv, [Next]_vars PROVE IInv'
  BY RequestInv, WorkInv, WaitInv, StutterInv DEF Next

(* When the host asks for nothing but the state while it is told to wait   *)
(* or while the work runs, and keeps to one interface within a transfer,   *)
(* the inductive invariant holds in every state.                           *)
THEOREM Invariance == Polite /\ Spec => []IInv
<1> SUFFICES ASSUME Polite PROVE Spec => []IInv
  OBVIOUS
<1>1. IInv /\ [Next]_vars => IInv'
  BY StepInv
<1> QED BY InitInv, <1>1, PTL DEF Spec

(* Then every variable keeps its type, and no upload goes behind its area. *)
THEOREM TypeCorrect == Polite /\ Spec => []TypeOK
<1>1. IInv => TypeOK
  BY DEF IInv, Types
<1> QED BY <1>1, Invariance, PTL

(* Then the boot loader is asked for an upgrade only when image 1 holds    *)
(* the download the host ended, each block once and nothing else, whatever *)
(* was aborted or failed before (dfu_work_handler, dfu_flash_write).       *)
THEOREM UpgradesWhole == Polite /\ Spec => []UpgradeWhole
<1>1. IInv => UpgradeWhole
  BY DEF IInv, Transferred, UpgradeWhole, Image
<1> QED BY <1>1, Invariance, PTL

(* Then all that the host sent in this download is in flash or in the      *)
(* buffer of flash_img_context when the device answers dfuDNLOAD_IDLE.     *)
THEOREM AcknowledgedIsStored == Polite /\ Spec => []Acknowledged
<1>1. ASSUME IInv PROVE Acknowledged
  <2> SUFFICES ASSUME state = "dfuDNLOAD_IDLE"
               PROVE  [i \in 1..ctx.off |-> bank[i - 1]] \o ctx.buf = sent
    BY DEF Acknowledged
  <2> DEFINE f == [i \in 1..ctx.off |-> bank[i - 1]]
  <2>1. /\ ctx.off \in Nat /\ ctx.buf \in Seq(Cells) /\ sent \in Seq(Blocks)
        /\ ctx.off <= AreaSize["image1"] /\ bank \in [Slots -> Cells]
        /\ Len(ctx.buf) \in Nat /\ Len(sent) = ctx.off + Len(ctx.buf)
        /\ \A i \in 1..Len(sent) : sent[i] = IF i <= ctx.off THEN bank[i - 1]
                                             ELSE ctx.buf[i - ctx.off]
    BY <1>1, LenProperties DEF IInv, Types, TypeOK, Transferred, StoredUpTo
  <2>2. f \in Seq(Cells) /\ Len(f) = ctx.off
    <3>1. ASSUME NEW i \in 1..ctx.off PROVE bank[i - 1] \in Cells
      <4>1. i - 1 \in Slots
        BY <2>1, Areas DEF Slots
      <4> QED BY <2>1, <4>1
    <3>2. f \in [1..ctx.off -> Cells]
      BY <3>1
    <3>3. ctx.off \in Nat
      BY <2>1
    <3> HIDE DEF f
    <3> QED BY <3>2, <3>3
  <2>3. \A i \in 1..ctx.off : f[i] = bank[i - 1]
    OBVIOUS
  <2> HIDE DEF f
  <2>4. sent \in Seq(Cells)
    BY <2>1 DEF Cells
  <2> DEFINE b == ctx.buf
  <2>. b \in Seq(Cells) /\ Len(b) \in Nat
    BY <2>1
  <2> DEFINE c == f \o b
  <2>5. /\ c \in Seq(Cells) /\ Len(c) = Len(f) + Len(b)
        /\ \A i \in 1..Len(c) : c[i] = IF i <= Len(f) THEN f[i]
                                       ELSE b[i - Len(f)]
    <3> HIDE DEF b
    <3> QED BY <2>2, ConcatProperties
  <2> HIDE DEF c
  <2>6. Len(c) = Len(sent)
    BY <2>1, <2>2, <2>5
  <2>7. ASSUME NEW i \in 1..Len(sent) PROVE c[i] = sent[i]
    <3>1. CASE i <= ctx.off
      <4>1. i \in 1..Len(c) /\ i <= Len(f) /\ i \in 1..ctx.off
        BY <2>1, <2>2, <2>6, <3>1
      <4>2. c[i] = f[i]
        BY <2>5, <4>1
      <4>3. f[i] = bank[i - 1] /\ sent[i] = bank[i - 1]
        BY <2>1, <2>3, <3>1, <4>1
      <4> QED BY <4>2, <4>3
    <3>2. CASE ~(i <= ctx.off)
      BY <2>1, <2>2, <2>5, <2>6, <3>2
    <3> QED BY <3>1, <3>2
  <2>8. c = sent
    BY <2>4, <2>5, <2>6, <2>7, SeqEqual
  <2> QED BY <2>8 DEF c, f
<1> QED BY <1>1, Invariance, PTL

-----------------------------------------------------------------------------
(* The upload.  A host asks for one length, wTransferSize, which divides   *)
(* both areas.                                                             *)
Even(L) ==
  /\ L \in Nat \ {0} /\ Lens \subseteq {0, L}
  /\ \A a \in DOMAIN AreaSize : \E p \in Nat : AreaSize[a] = p * L

(* Up to the end of the area it has all that was read.                     *)
Reading(L) ==
  /\ whole /\ Uploaded
  /\ state = "dfuUPLOAD_IDLE" => \E m \in Nat : bytes_sent = m * L

LEMMA NoRemainder ==
  ASSUME NEW L \in Nat \ {0}, NEW p \in Nat, NEW m \in Nat, m * L <= p * L
  PROVE  /\ p * L - m * L \in Nat
         /\ p * L - m * L < L => p * L = m * L
         /\ m * L + L = (m + 1) * L
<1>1. m * L \in Nat /\ p * L \in Nat /\ m * L + L = (m + 1) * L
  OBVIOUS
<1>2. CASE p <= m
  <2>1. PICK k \in Nat : m = p + k
    <3>1. m - p \in Nat /\ m = p + (m - p)
      BY <1>2
    <3> QED BY <3>1
  <2>2. m * L = p * L + k * L /\ k * L \in Nat
    BY <2>1
  <2> QED BY <1>1, <2>2
<1>3. CASE p > m
  <2>1. PICK k \in Nat : p = m + 1 + k
    <3>1. p - (m + 1) \in Nat /\ p = m + 1 + (p - (m + 1))
      BY <1>3
    <3> QED BY <3>1
  <2>2. p * L = m * L + L + k * L /\ k * L \in Nat
    BY <2>1
  <2> QED BY <1>1, <2>2
<1> QED BY <1>2, <1>3

LEMMA UploadReading ==
  ASSUME IInv, NEW L, Even(L), Reading(L), NEW n \in Lens, NEW number,
         state \in {"dfuIDLE", "dfuUPLOAD_IDLE"}, Upload(n, number)
  PROVE  Reading(L)'
<1>1. /\ flash_area_id' = flash_area_id
      /\ \/ n # 0 /\ UploadBlock(n)
         \/ UploadFails("errUNKNOWN") \/ UploadFails("errFILE")
  BY DEF Upload, WrongState
<1>2. CASE UploadFails("errUNKNOWN") \/ UploadFails("errFILE")
  BY <1>2 DEF UploadFails, Reading, Uploaded
<1>3. CASE n # 0 /\ UploadBlock(n)
  <2> DEFINE c == Counters.sent
             k == UploadLen(n)
             size == UploadSize
  <2>1. /\ n = L /\ L \in Nat \ {0}
        /\ \E p \in Nat : size = p * L
        /\ \E m \in Nat : c = m * L
    <3>1. n = L /\ L \in Nat \ {0} /\ \E p \in Nat : size = p * L
      BY <1>3 DEF Even, UploadSize, IInv, Types, TypeOK
    <3>2. 0 = 0 * L
      BY <3>1
    <3> QED BY <3>1, <3>2 DEF Reading, Counters
  <2>2. /\ size \in Nat \ {0} /\ c \in 0..size
        /\ k = IF size - c <= n THEN size - c ELSE n
    BY UploadFacts
  <2>3. /\ (k = 0 /\ c = size) \/ k = L
        /\ \E m \in Nat : c + L = m * L
    <3>1. PICK p \in Nat, m \in Nat : size = p * L /\ c = m * L
      BY <2>1
    <3>2. m * L <= p * L
      BY <2>2, <3>1
    <3>3. /\ size - c \in Nat
          /\ size - c < L => size = c
          /\ c + L = (m + 1) * L
      BY <2>1, <3>1, <3>2, NoRemainder
    <3> HIDE DEF c, k, size
    <3>4. (k = 0 /\ c = size) \/ k = L
      BY <2>1, <2>2, <3>3
    <3> QED BY <3>3, <3>4
  <2>4. /\ Before \in Seq(Sent) /\ Len(Before) = c
        /\ \A i \in 1..c : Before[i] = <<flash_area_id, i - 1>>
    <3>1. CASE c = 0
      BY <3>1, EmptySeq DEF Before
    <3>2. CASE c # 0
      <4>1. state = "dfuUPLOAD_IDLE" /\ c = bytes_sent
        BY <3>2 DEF Counters
      <4> QED BY <3>2, <4>1 DEF Before, Reading, Uploaded, IInv, Types
    <3> QED BY <3>1, <3>2
  <2>5. PICK last \in BOOLEAN :
           /\ last <=> c + k = size /\ k < n
           /\ bytes_sent' = c + k
           /\ got' = Before \o (IF last THEN <<>> ELSE Read(n))
           /\ state' = IF last THEN "dfuIDLE" ELSE "dfuUPLOAD_IDLE"
           /\ whole' = (last => got' = [i \in 1..size |->
                                          <<flash_area_id, i - 1>>])
    <3> HIDE DEF size
    <3> QED BY <1>3, UploadBlockFacts DEF size
  <2>6. CASE last
    <3>1. c = size
      BY <2>1, <2>3, <2>5, <2>6
    <3>2. got' = Before
      BY <2>4, <2>5, <2>6, ConcatEmptySeq
    <3>3. Before = [i \in 1..size |-> <<flash_area_id, i - 1>>]
      <4>1. Before \in [1..size -> Sent]
        BY <2>4, <3>1, LenProperties
      <4> QED BY <2>4, <3>1, <4>1
    <3> QED BY <2>5, <2>6, <3>2, <3>3 DEF Reading, Uploaded
  <2>7. CASE ~last
    <3>1. k = L
      BY <2>1, <2>2, <2>3, <2>5, <2>7
    <3>2. /\ Read(n) \in Seq(Sent) /\ Len(Read(n)) = L
          /\ \A i \in 1..L : Read(n)[i] = <<flash_area_id, c + i - 1>>
      BY <3>1, ReadFacts DEF Read
    <3> DEFINE r == Read(n)
    <3> HIDE DEF r
    <3>3. /\ got' = Before \o r /\ Len(got') = c + L
          /\ \A i \in 1..c + L : got'[i] = IF i <= c THEN Before[i]
                                           ELSE r[i - c]
      <4>1. got' = Before \o r
        BY <2>5, <2>7 DEF r
      <4>2. r \in Seq(Sent) /\ Len(r) = L
        BY <3>2 DEF r
      <4>3. /\ Len(Before \o r) = Len(Before) + Len(r)
            /\ \A i \in 1..Len(Before) + Len(r) :
                 (Before \o r)[i] = IF i <= Len(Before) THEN Before[i]
                                    ELSE r[i - Len(Before)]
        BY <2>4, <4>2, ConcatProperties
      <4> HIDE DEF c
      <4> QED BY <2>4, <4>1, <4>2, <4>3
    <3>4. ASSUME NEW i \in 1..c + L
          PROVE  got'[i] = <<flash_area_id, i - 1>>
      <4>1. CASE i <= c
        BY <2>2, <2>4, <3>3, <4>1
      <4>2. CASE i > c
        <5>1. i - c \in 1..L /\ c + (i - c) - 1 = i - 1
          BY <2>1, <2>2, <4>2
        <5>2. r[i - c] = <<flash_area_id, i - 1>>
          BY <3>2, <5>1 DEF r
        <5> QED BY <2>2, <3>3, <4>2, <5>2
      <4> QED BY <2>1, <2>2, <4>1, <4>2
    <3>5. bytes_sent' = c + L /\ whole' /\ \E m \in Nat : bytes_sent' = m * L
      BY <2>3, <2>5, <2>7, <3>1
    <3> QED BY <1>1, <3>3, <3>4, <3>5 DEF Reading, Uploaded
  <2> QED BY <2>6, <2>7
<1> QED BY <1>1, <1>2, <1>3

LEMMA KeptReading ==
  ASSUME NEW L, Reading(L), UNCHANGED <<got, whole>>,
         state' = "dfuUPLOAD_IDLE" => UNCHANGED <<state, bytes_sent, flash_area_id>>
  PROVE  Reading(L)'
  BY DEF Reading, Uploaded

LEMMA StepReading ==
  ASSUME Polite, IInv, NEW L, Even(L), Reading(L), [Next]_vars
  PROVE  Reading(L)'
<1>1. CASE Status
  BY <1>1, KeptReading DEF Status, GetStatus, GetState, upload, files, dfu
<1>2. CASE Plain /\ Request
  <2>1. UNCHANGED <<got, whole>>
    BY <1>2 DEF Plain, RefusedByApp, Abort, ClrStatus, Detach, BusReset,
                WrongState, SetInterface, files
  <2>2. state' = "dfuUPLOAD_IDLE" => UNCHANGED <<state, bytes_sent, flash_area_id>>
    BY <1>2 DEF Plain, RefusedByApp, Abort, ClrStatus, Detach, BusReset,
                WrongState, SetInterface, Untouched, Polite, IInv, Alone,
                upload, dfu
  <2> QED BY <2>1, <2>2, KeptReading
<1>3. ASSUME NEW d, DnloadFirst(d) \/ DnloadNext(d)
      PROVE  Reading(L)'
  BY <1>3, KeptReading DEF DnloadFirst, DnloadNext, Submit, files
<1>4. ASSUME NEW n \in Lens, NEW number, Upload(n, number),
             state \in {"dfuIDLE", "dfuUPLOAD_IDLE"}
      PROVE  Reading(L)'
  BY <1>4, UploadReading
<1>5. CASE Request
  BY <1>1, <1>2, <1>3, <1>4, <1>5, TransferKinds DEF Request
<1>6. CASE Work
  <2>1. UNCHANGED <<got, whole>>
    BY <1>6 DEF Work, WorkStarts, WorkErases, EraseFails, WorkWrites,
                WriteFails, ErrorReported, BlockReported, EndReported,
                RequestUpgrade, RequestFails, WorkFails, files
  <2>2. state' = "dfuUPLOAD_IDLE" => UNCHANGED <<state, bytes_sent, flash_area_id>>
    BY <1>6 DEF Work, WorkStarts, WorkErases, EraseFails, WorkWrites,
                WriteFails, ErrorReported, BlockReported, EndReported,
                RequestUpgrade, RequestFails, WorkFails, upload, dfu
  <2> QED BY <2>1, <2>2, KeptReading
<1>7. CASE Wait \/ UNCHANGED vars
  BY <1>7, KeptReading DEF Wait, vars, upload, files, dfu
<1> QED BY <1>5, <1>6, <1>7 DEF Next

(* When the host asks for one length, which divides both areas, an upload  *)
(* that ends has given it the whole area, block by block.  (The last block *)
(* of an area that the length does not divide is not sent.)                *)
THEOREM UploadsWhole ==
  ASSUME Polite, NEW L, Even(L)
  PROVE  Spec => []UploadWhole
<1>1. Init => Reading(L)
  BY DEF Init, Reading, Uploaded
<1>2. IInv /\ Reading(L) /\ [Next]_vars => Reading(L)'
  BY StepReading
<1>3. Reading(L) => UploadWhole
  BY DEF Reading, UploadWhole
<1>4. Spec => []IInv
  BY Invariance
<1> QED BY <1>1, <1>2, <1>3, <1>4, PTL DEF Spec

=============================================================================
