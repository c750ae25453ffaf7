-------------------------------- MODULE UsbDfu -------------------------------
(***************************************************************************)
(* The USB DFU class of the loader (usb_dfu.c): the requests of the host,  *)
(* handled where the USB stack calls them, the work that erases and writes *)
(* image 1 in the system work queue, and the thread in wait_for_usb_dfu.   *)
(*                                                                         *)
(* A request runs between any two steps of the work, which is switched out *)
(* while the flash is busy.  What they share is dfu_data and one slot,     *)
(* dfu_data_worker.  Block i of download d is <<d, i>>.                    *)
(***************************************************************************)
EXTENDS Integers, Sequences

CONSTANTS
  AreaSize,    \* blocks in "image0" and in "image1"
  BufBlocks,   \* blocks that flash_img_context gathers before it writes
  Downloads,   \* names of downloads, to tell their blocks apart
  Lens,        \* blocks the host asks for in an upload request
  Errors,      \* flash operations that may fail
  Manners,     \* what the host does not do, see below
  MaxTicks     \* CONFIG_USB_DFU_WAIT_DELAY_MS / INTERMITTENT_CHECK_DELAY

(* "busy": told dfuDNBUSY or dfuMANIFEST_SYNC, it only asks for the state; *)
(* "flush": back in dfuIDLE it waits until the work of the download ran;   *)
(* "interface": it does not change the interface within a transfer.        *)
ASSUME UsbAssumption ==
  /\ AreaSize \in [{"image0", "image1"} -> Nat \ {0}]
  /\ BufBlocks \in Nat \ {0} /\ MaxTicks \in Nat /\ Lens \subseteq Nat
  /\ Downloads \subseteq Nat \ {0}
  /\ Errors \subseteq {"erase", "write", "request", "read"}
  /\ Manners \subseteq {"busy", "flush", "interface"}

VARIABLES
  state, status,                       \* dfu_data, up to ctx
  flash_area_id, bytes_sent, block_nr, ctx,
  worker,                              \* dfu_data_worker
  pending, at, len,                    \* dfu_work: queued; its place, its len
  signaled,                            \* dfu_signal
  waiter, ticks,                       \* wait_for_usb_dfu
  bank, upgrade,                       \* image 1 and its boot request
  seen, sent, done, got, whole         \* what the host was told, sent and got

dfu    == <<state, status>>
upload == <<flash_area_id, bytes_sent, block_nr>>
work   == <<worker, pending, at, len>>
wait   == <<signaled, waiter, ticks>>
flash  == <<bank, upgrade>>
files  == <<sent, done, got, whole>>
vars   == <<dfu, upload, ctx, work, wait, flash, seen, files>>

States == {"appIDLE", "appDETACH", "dfuIDLE", "dfuDNBUSY", "dfuDNLOAD_IDLE",
           "dfuMANIFEST_SYNC", "dfuUPLOAD_IDLE", "dfuERROR"}
Blank   == <<>>
Garbage == <<0>>
Slots   == 0..AreaSize["image1"] - 1

FreshCtx == [off |-> 0, buf |-> <<>>]

(* usb_dfu_init                                                            *)
Init ==
  /\ state = "appIDLE" /\ status = "OK"
  /\ flash_area_id = "image1" /\ bytes_sent = 0 /\ block_nr = 0
  /\ ctx = FreshCtx
  /\ worker = [state |-> "dfuIDLE", len |-> 0, buf |-> Garbage]
  /\ pending = FALSE /\ at = "idle" /\ len = 0
  /\ signaled = FALSE /\ waiter = "polling" /\ ticks = 0
  /\ bank = [i \in Slots |-> Garbage] /\ upgrade = FALSE
  /\ seen = "appIDLE"
  /\ sent = <<>> /\ done = <<>> /\ got = <<>> /\ whole = TRUE

-----------------------------------------------------------------------------
(* What the host does not do                                               *)
Free ==
  /\ "busy" \in Manners => seen \notin {"dfuDNBUSY", "dfuMANIFEST_SYNC"}
  /\ "flush" \in Manners /\ seen = "dfuIDLE" => at = "idle" /\ ~pending
Untouched == "interface" \in Manners =>
               seen \in {"appIDLE", "appDETACH", "dfuIDLE", "dfuERROR"}

(* dfu_check_app_state; in an application state the request fails and      *)
(* appDETACH is left.                                                      *)
App == state \in {"appIDLE", "appDETACH"}

RefusedByApp ==
  /\ App /\ state' = "appIDLE"
  /\ UNCHANGED <<status, upload, ctx, work, wait, flash, files>>

\* Mutant: flash_img_init is not called.
ResetCounters_KeepsCtx ==
  bytes_sent' = 0 /\ block_nr' = 0 /\ ctx' = ctx

(* dfu_reset_counters                                                      *)
ResetCounters ==
  bytes_sent' = 0 /\ block_nr' = 0 /\ ctx' = FreshCtx

GetStatus ==
  /\ state' = IF state = "dfuMANIFEST_SYNC" THEN "dfuIDLE" ELSE state
  /\ UNCHANGED <<status, upload, ctx, work, wait, flash, files>>

GetState ==
  UNCHANGED <<dfu, upload, ctx, work, wait, flash, files>>

Abort ==
  /\ ~App
  /\ ResetCounters
  /\ state' = "dfuIDLE" /\ status' = "OK"
  /\ UNCHANGED <<flash_area_id, work, wait, flash, files>>

ClrStatus ==
  /\ ~App
  /\ state' = "dfuIDLE" /\ status' = "OK"
  /\ UNCHANGED <<upload, ctx, work, wait, flash, files>>

(* A transfer in a state that has no place for it                          *)
WrongState(places) ==
  /\ ~App /\ state \notin places
  /\ state' = "dfuERROR" /\ status' = "errUNKNOWN"
  /\ ResetCounters
  /\ UNCHANGED <<flash_area_id, work, wait, flash, files>>

-----------------------------------------------------------------------------
(* DFU_DNLOAD with a block of download d, or without data (d = 0), which   *)
(* ends the download.  A work that is queued already is not queued again.  *)
Submit(first, d) ==
  /\ worker' = [state |-> first, len |-> d,
                buf |-> IF d = 0 THEN worker.buf ELSE sent'[Len(sent')]]
  /\ pending' = TRUE
  /\ done' = IF d = 0 THEN sent' ELSE done
  /\ UNCHANGED <<at, len, got, whole>>

\* Mutant: the work is not told that this is the first block.
DnloadFirst_NoErase(d) ==
  /\ state = "dfuIDLE"
  /\ ResetCounters /\ signaled' = FALSE
  /\ state' = "dfuDNBUSY"
  /\ sent' = IF d = 0 THEN <<>> ELSE <<<<d, 0>>>>
  /\ Submit("dfuDNLOAD_IDLE", d)
  /\ UNCHANGED <<status, flash_area_id, waiter, ticks, flash>>

DnloadFirst(d) ==
  /\ state = "dfuIDLE"
  /\ ResetCounters /\ signaled' = FALSE
  /\ \/ /\ flash_area_id # "image1"
        /\ state' = "dfuERROR" /\ status' = "errWRITE"
        /\ UNCHANGED <<work, files>>
     \/ /\ flash_area_id = "image1"
        /\ state' = "dfuDNBUSY"
        /\ sent' = IF d = 0 THEN <<>> ELSE <<<<d, 0>>>>
        /\ Submit("dfuIDLE", d)
        /\ UNCHANGED status
  /\ UNCHANGED <<flash_area_id, waiter, ticks, flash>>

(* k_poll_signal_raise wakes the thread that waits.                        *)
Raise ==
  /\ signaled' = TRUE
  /\ waiter' = IF waiter = "waiting" THEN "gone" ELSE waiter
  /\ UNCHANGED ticks

DnloadNext(d) ==
  /\ state = "dfuDNLOAD_IDLE"
  /\ \/ d = 0 /\ state' = "dfuMANIFEST_SYNC" /\ sent' = sent /\ Raise
     \/ /\ d # 0 /\ Len(sent) <= AreaSize["image1"]       \* the host's bound
        /\ state' = "dfuDNBUSY"
        /\ sent' = Append(sent, <<d, Len(sent)>>)
        /\ UNCHANGED wait
  /\ Submit("dfuDNLOAD_IDLE", d)
  /\ UNCHANGED <<status, upload, ctx, flash>>

SameDownload(d) == \A i \in DOMAIN sent : d \in {0, sent[i][1]}

Dnload(d) ==
  \/ DnloadFirst(d)
  \/ SameDownload(d) /\ DnloadNext(d)
  \/ WrongState({"dfuIDLE", "dfuDNLOAD_IDLE"})

-----------------------------------------------------------------------------
(* DFU_UPLOAD of n blocks                                                  *)
UploadSize == AreaSize[flash_area_id]

\* Mutant: what was sent before is not forgotten.
Counters_NotReset == [sent |-> bytes_sent, nr |-> block_nr]

Counters == IF state = "dfuIDLE" THEN [sent |-> 0, nr |-> 0]
            ELSE [sent |-> bytes_sent, nr |-> block_nr]

(* bytes_left is unsigned: behind the end of the area it is very large.    *)
UploadLen(n) ==
  LET left == UploadSize - Counters.sent
  IN  IF left \in 0..n THEN left ELSE n

UploadFails(s) ==
  /\ state' = "dfuERROR" /\ status' = s
  /\ bytes_sent' = Counters.sent /\ block_nr' = Counters.nr
  /\ UNCHANGED <<got, whole>>

UploadBlock(n) ==
  LET c    == Counters
      k    == UploadLen(n)
      last == c.sent + k = UploadSize /\ k < n
      read == [i \in 1..k |-> <<flash_area_id, c.sent + i - 1>>]
  IN  /\ k = 0 \/ c.sent + k <= UploadSize
      /\ bytes_sent' = c.sent + k /\ block_nr' = c.nr + 1
      /\ got' = (IF c.sent = 0 THEN <<>> ELSE got)
                \o (IF last THEN <<>> ELSE read)
      /\ state' = IF last THEN "dfuIDLE" ELSE "dfuUPLOAD_IDLE"
      /\ whole' = (last => got' = [i \in 1..UploadSize |->
                                     <<flash_area_id, i - 1>>])
      /\ UNCHANGED status

Upload(n, number) ==
  \/ /\ state \in {"dfuIDLE", "dfuUPLOAD_IDLE"}
     /\ ctx' = IF state = "dfuIDLE" THEN FreshCtx ELSE ctx
     /\ \/ (n = 0 \/ number # Counters.nr) /\ UploadFails("errUNKNOWN")
        \/ /\ n # 0 /\ number = Counters.nr
           /\ \/ UploadBlock(n)
              \/ /\ \/ "read" \in Errors /\ UploadLen(n) > 0
                    \/ Counters.sent + UploadLen(n) > UploadSize
                 /\ UploadFails("errFILE")
     /\ UNCHANGED <<flash_area_id, work, wait, flash, sent, done>>
  \/ WrongState({"dfuIDLE", "dfuUPLOAD_IDLE"})

-----------------------------------------------------------------------------
(* DFU_DETACH, a reset of the bus, SET_INTERFACE                           *)
Detach ==
  /\ state' = IF state = "appIDLE" THEN "appDETACH" ELSE "appIDLE"
  /\ UNCHANGED <<status, upload, ctx, work, wait, flash, files>>

BusReset ==
  /\ state = "appDETACH" /\ state' = "dfuIDLE"
  /\ UNCHANGED <<status, upload, ctx, work, wait, flash, files>>

SetInterface(area) ==
  /\ Untouched
  /\ flash_area_id' = area
  /\ UNCHANGED <<dfu, bytes_sent, block_nr, ctx, work, wait, flash, files>>

(* The handlers; after each the host knows the state, from the answer or   *)
(* from what DFU prescribes.                                               *)
Status == GetStatus \/ GetState

Transfer ==
  \/ RefusedByApp \/ Abort \/ ClrStatus \/ Detach \/ BusReset
  \/ \E d \in Downloads \cup {0} : Dnload(d)
  \/ \E n \in Lens, number \in {Counters.nr, Counters.nr + 1} :
       Upload(n, number)
  \/ \E area \in DOMAIN AreaSize : SetInterface(area)

Request ==
  /\ Status \/ (Free /\ Transfer)
  /\ seen' = state'

-----------------------------------------------------------------------------
(* dfu_work_handler.  The first block erases the bank before it is written *)
(* (without CONFIG_IMG_ERASE_PROGRESSIVELY); len is read with the call.    *)
WorkStarts ==
  /\ at = "idle" /\ pending
  /\ pending' = FALSE
  /\ IF worker.state = "dfuIDLE" THEN at' = "erase" /\ UNCHANGED len
                                 ELSE at' = "write" /\ len' = worker.len
  /\ UNCHANGED <<dfu, upload, ctx, worker, wait, flash, seen, files>>

WorkFails(s) ==
  /\ state' = "dfuERROR" /\ status' = s
  /\ at' = "idle" /\ len' = 0
  /\ UNCHANGED <<upload, ctx, worker, pending, wait, upgrade, seen, files>>

WorkErases ==
  /\ at = "erase"
  /\ bank' = [i \in Slots |-> Blank] /\ upgrade' = FALSE
  /\ at' = "write" /\ len' = worker.len
  /\ UNCHANGED <<dfu, upload, ctx, worker, pending, wait, seen, files>>

EraseFails ==
  /\ at = "erase" /\ "erase" \in Errors
  /\ \E n \in Slots : bank' = [i \in Slots |-> IF i < n THEN Blank ELSE bank[i]]
  /\ WorkFails("errERASE")

(* flash_img_buffered_write (external): gathers blocks, writes a full      *)
(* buffer, and what there is when it is told to flush.                     *)
Gathered == IF len = 0 THEN ctx.buf ELSE Append(ctx.buf, worker.buf)
Due      == Len(Gathered) = BufBlocks \/ (len = 0 /\ ctx.buf # <<>>)
Room     == ctx.off + Len(Gathered) <= AreaSize["image1"]

Programmed ==
  [i \in Slots |->
     LET k == i - ctx.off + 1
     IN  IF k \notin 1..Len(Gathered) THEN bank[i]
         ELSE IF bank[i] = Blank THEN Gathered[k] ELSE Garbage]

WorkWrites ==
  /\ at = "write"
  /\ IF Due THEN /\ Room
                 /\ bank' = Programmed
                 /\ ctx' = [off |-> ctx.off + Len(Gathered), buf |-> <<>>]
            ELSE ctx' = [ctx EXCEPT !.buf = Gathered] /\ UNCHANGED bank
  /\ at' = "written"
  /\ UNCHANGED <<dfu, upload, worker, pending, len, wait, upgrade, seen, files>>

WriteFails ==
  /\ at = "write" /\ Due
  /\ "write" \in Errors \/ ~Room
  /\ bank' = [i \in Slots |-> IF Programmed[i] = bank[i] THEN bank[i]
                              ELSE Garbage]
  /\ at' = "failed"
  /\ UNCHANGED <<dfu, upload, ctx, worker, pending, len, wait, upgrade, seen,
                 files>>

(* dfu_flash_write once the flash has answered                             *)
\* Mutant: an error leaves the state as it is.
ErrorReported_Forgets ==
  /\ at = "failed"
  /\ at' = "idle" /\ len' = 0
  /\ UNCHANGED <<dfu, upload, ctx, worker, pending, wait, flash, seen, files>>

ErrorReported == at = "failed" /\ UNCHANGED bank /\ WorkFails("errWRITE")

BlockReported ==
  /\ at = "written" /\ len # 0
  /\ state' = "dfuDNLOAD_IDLE"
  /\ at' = "idle" /\ len' = 0
  /\ UNCHANGED <<status, upload, ctx, worker, pending, wait, flash, seen, files>>

EndReported ==
  /\ at = "written" /\ len = 0
  /\ state' = "dfuMANIFEST_SYNC"
  /\ ResetCounters
  /\ at' = "request"
  /\ UNCHANGED <<status, flash_area_id, worker, pending, len, wait, flash,
                 seen, files>>

(* boot_request_upgrade (external)                                         *)
RequestUpgrade ==
  /\ at = "request"
  /\ upgrade' = TRUE
  /\ at' = "idle"
  /\ UNCHANGED <<dfu, upload, ctx, worker, pending, len, wait, bank, seen,
                 files>>

RequestFails ==
  at = "request" /\ "request" \in Errors /\ UNCHANGED bank /\ WorkFails("errWRITE")

Work ==
  \/ WorkStarts \/ WorkErases \/ EraseFails \/ WorkWrites \/ WriteFails
  \/ ErrorReported \/ BlockReported \/ EndReported
  \/ RequestUpgrade \/ RequestFails

-----------------------------------------------------------------------------
(* wait_for_usb_dfu: it looks for a download now and then, and waits for   *)
(* the signal once it has seen one.                                        *)
Started == state \in {"dfuDNBUSY", "dfuDNLOAD_IDLE"}

\* Mutant: it looks for a download for ever.
Wait_NoTimeout ==
  /\ waiter = "polling"
  /\ waiter' = IF ~Started THEN "polling"
               ELSE IF signaled THEN "gone" ELSE "waiting"
  /\ ticks' = IF waiter' = "polling" THEN ticks + 1 ELSE 0
  /\ UNCHANGED <<dfu, upload, ctx, work, signaled, flash, seen, files>>

Wait ==
  /\ waiter = "polling"
  /\ \/ ticks = MaxTicks /\ waiter' = "gone"
     \/ ticks < MaxTicks /\ ~Started /\ waiter' = "polling"
     \/ /\ ticks < MaxTicks /\ Started
        /\ waiter' = IF signaled THEN "gone" ELSE "waiting"
  /\ ticks' = IF waiter' = "polling" THEN ticks + 1 ELSE 0
  /\ UNCHANGED <<dfu, upload, ctx, work, signaled, flash, seen, files>>

Next == Request \/ Work \/ Wait

(* The work queue and the waiting thread run; the host may stop.           *)
Spec == Init /\ [][Next]_vars /\ WF_vars(Work) /\ WF_vars(Wait)

-----------------------------------------------------------------------------
(* Every variable has its type; an upload never goes behind its area.      *)
TypeOK ==
  /\ state \in States /\ seen \in States
  /\ status \in {"OK", "errWRITE", "errERASE", "errFILE", "errUNKNOWN"}
  /\ flash_area_id \in DOMAIN AreaSize
  /\ bytes_sent \in Nat /\ block_nr \in Nat
  /\ state = "dfuUPLOAD_IDLE" => bytes_sent <= UploadSize
  /\ ctx.off \in 0..AreaSize["image1"] /\ Len(ctx.buf) < BufBlocks
  /\ worker.state \in {"dfuIDLE", "dfuDNLOAD_IDLE"}
  /\ worker.len \in Downloads \cup {0}
  /\ pending \in BOOLEAN /\ upgrade \in BOOLEAN /\ signaled \in BOOLEAN
  /\ at \in {"idle", "erase", "write", "written", "failed", "request"}
  /\ len \in Downloads \cup {0}
  /\ waiter \in {"polling", "waiting", "gone"} /\ ticks \in 0..MaxTicks
  /\ whole \in BOOLEAN

(* The boot loader is asked for an upgrade only when image 1 holds all     *)
(* blocks of the download the host ended, each once, and nothing else,     *)
(* whatever was aborted or failed before; and that stays so until the      *)
(* first block of another download.                                        *)
Requested == at = "request" \/ (upgrade /\ worker.state = "dfuDNLOAD_IDLE")

UpgradeWhole ==
  Requested => bank = [i \in Slots |-> IF i < Len(done) THEN done[i + 1]
                                       ELSE Blank]

(* dfuDNLOAD_IDLE acknowledges: all the host sent in this download is in   *)
(* flash or in the buffer of flash_img_context, in order.                  *)
Acknowledged ==
  state = "dfuDNLOAD_IDLE" =>
    [i \in 1..ctx.off |-> bank[i - 1]] \o ctx.buf = sent

(* An upload that ends has given the host the area, block by block.        *)
UploadWhole == whole

(* The device does not stay busy.                                          *)
BusyEnds == state = "dfuDNBUSY" ~> state # "dfuDNBUSY"

(* wait_for_usb_dfu waits while the USB DFU is in progress: when the       *)
(* download was given up or has failed, it returns.                        *)
InProgress == Started \/ pending \/ at # "idle"

WaitEnds ==
  waiter = "waiting" /\ ~InProgress ~> waiter = "gone" \/ InProgress
=============================================================================
