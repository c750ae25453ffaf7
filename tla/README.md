# TLA+ for zephyrmodules

Models, model checks and proofs for the systems of this repository that keep
their state in flash and have to survive a power failure at any moment:

* **sfcb**, the small flash circular buffer (`src/sfcb`), a store of variables
  in a ring of flash sectors, with the settings backend built on it
  (`src/settings_sfcb`), and
* **ZB-8**, the bootloader (`src/zb8`), which exchanges a new image with the old
  one sector by sector, with the reception of that image over Bluetooth or USB (DFU)
  and with the way the device starts and replaces its own swapper and loader, and
* **ZEPboot**, its predecessor (`src/zepboot`, `src/zepboot_dfu`).

All paths below are relative to the repository. Every definition that stands
for code is listed with its lines in `PROJECT.json` under `map`.

## 1. Inventory

### Components, their state and their operations

| component | state | operations |
|---|---|---|
| sfcb (`sfcb/sfcb/src/sfcb.c`) | flash sectors (sector start, data upward, allocation table entries downward); in RAM `wr_sector`, `wr_sector_id`, `wr_ate_offset`, `wr_data_offset`, a mutex, an optional data cache; a location `sfcb_loc` per caller | `sfcb_mount`, `sfcb_unmount`, `sfcb_format`, `sfcb_first_loc`/`sfcb_next_loc`, `sfcb_open_loc`, `sfcb_write_loc`, `sfcb_read_loc`, `sfcb_close_loc`, `sfcb_copy_loc`, `sfcb_write`, `sfcb_read` |
| the compress routine of a client (`sfcb/tests/src/main.c:507-548`) | a walk over the sector to be reused | called by `sfcb_open_loc` and `sfcb_mount` |
| settings_sfcb (`settings_sfcb/…/settings_sfcb.c`) | one file system, names and values as locations | `csi_load`, `csi_save`, compress, `settings_backend_init` |
| ZB-8 swap (`zb8/zb8/src/zb8_move.c`) | slots run, move, upgrade, verify; the command log in swpstat; in RAM the command, `run_info`, `move_info`, `upgr_info`, three flags | `zb_img_swap`, `zb_img_move` |
| ZB-8 command log (`zb8_flash.c:186-265`) | commands with a CRC-8 | `zb_cmd_read`, `zb_cmd_write` |
| ZB-8 image (`zb8_image.c`, `zb8_tlv.c`, `zb8_crypto.c`) | headers, TLV area, hash, signature, key | `zb_val_img_info`, `zb_get_img_info` |
| ZB-8 confirm (`zb8_confirm.c`) | the CRC-32 of a confirmed run image in the verify slot | `zb_slt_validate`, `zb_slt_confirm` |
| first stage loader, swapper (`zb8_fsl.c`, `swapper/src/main.c`) | none but flash | `zb_fsl_boot`, `zb_fsl_jump_*`, `zb_fsl_move`, `main` |
| DFU (`zb8_dfu.c`) | a block buffer and a write offset | `zb_dfu_receive`, `_flush`, `_confirm`, `_restart` |
| BLE DFU (`zb8/loader/bledfu_loader`, `zb8/apps`) | protocol state, sizes still expected | GATT writes |
| USB DFU (`zb8/loader/usbdfu_loader/usb_dfu.c`) | protocol state and status, counters, `flash_img_context`, one block for the work queue, a signal | control requests, a bus reset, `dfu_work_handler`, `wait_for_usb_dfu` |
| zepboot (`zepboot/zepboot/src`, `bootloader/src/main.c`) | two slots, whose last sectors keep commands and parameters; the command log in swpstat; `zb_img_swp_info` | `zb_img_swap`, `zb_img_cmd_proc`, `main` |
| zepboot_dfu (`zepboot_dfu.c`) | a block buffer, a write offset, the mode | `receive`, `finished`, `write_mode`, `write_reboot` |
| image tools (`zb8tool`, `imgtool`), settings_preload | none | files in, files out |

### How they interact

* A client calls sfcb; sfcb calls the client's `compress` when it enters a
  sector, and `compress` calls back `sfcb_next_loc` and `sfcb_copy_loc`, which
  write into the sector just entered. The same happens at mount, because power
  may have been lost in the middle.
* settings_sfcb is such a client.
* The first stage loader starts the run image if its CRC is the one in the verify
  slot, else the swapper. The swapper continues the swap the log tells of, or
  starts one if the upgrade slot holds a valid image, or starts what is there.
  The image that runs receives the next one over DFU, which erases verify and
  fills the upgrade slot, and then starts the swapper; or it confirms itself,
  which writes verify. A confirmed image in the run slot that is linked for the
  swapper's or the loader's area is moved there by the first stage loader.
* In the USB loader the control requests run in the USB stack, the erase and the
  writes in the system work queue, and the start of the application waits in a third
  thread; they share `dfu_data` without a lock.
* ZEPboot's application writes its request behind the image it received, at the end of
  slot 1; the bootloader writes what it has done at the end of slot 0.
* All of them share flash and nothing else: RAM is gone at each jump.

### What is hard here

* Power fails in the middle of a program, an erase, a log entry, a compress, a
  swap, a format, an upload; the code that restarts has only flash to go by.
* Calls in an order nobody tested: compress that runs out of space inside a write
  that runs out of space, a mount that repeats a compress that was cut off, an
  upload over half an upload, a swap started from an image that was swapped back.
* Errors of the flash driver between two assignments of a RAM variable.
* Counters at their limits: 16-bit sector ids wrap, the log is full, the sector
  number has 8 bits.
* Threads: the sfcb mutex is released inside an operation; USB requests overtake the
  work queue.

`PROJECT.json` lists these under `hazards`, each with its line and the properties
that are about it, or the reason why there is none yet.

### What makes each component correct

* *sfcb*: what was closed is read back, the last value of an id and never an older
  one, after a power failure too; a location that was not closed leaves no trace;
  nothing is programmed twice; the walk over entries ends; a sector is erased only
  when what compress keeps has been copied; every call returns.
* *settings_sfcb*: the same for names, through its own compress.
* *ZB-8 swap*: the two images change places whole or not at all; only a whole,
  decrypted image is started or confirmed; an unconfirmed image runs once; a newer
  image is not replaced by an older one; the old image can be restored until the
  swap is over; the swap ends.
* *loader, DFU*: something whole can always be started; an image that was received is
  installed; an upgrade is requested only for what was received completely.
* *ZEPboot*: as the swap of ZB-8; an image on trial is started once, unless it is kept.

## 2. Modules

| module | what it is |
|---|---|
| `KeyStore` | abstract: what `src/sfcb/README.md` promises, a map from ids to contents that is changed by one atomic commit per write |
| `Sfcb` | `sfcb.c` by blocks: one action per call, callback and flash operation |
| `SfcbRefinement` | reads the store off the flash alone and states that `Sfcb` implements `KeyStore` |
| `SfcbProofs` | proofs about `Sfcb`: one sector after the other is written soundly |
| `SfcbRefinementProofs` | proofs about what a mount finds out, compress saves and format leaves, and that `Sfcb` implements `KeyStore` |
| `MCSfcb` + `MCSfcb_*.cfg` | instances for TLC |
| `SettingsSfcb` | `settings_sfcb.c` over a ring of locations, and that it implements `KeyStore` (settings may get lost) or would have to (they may not) |
| `SettingsSfcbProofs` | proofs about `SettingsSfcb` and that it implements `KeyStore` |
| `MCSettingsSfcb` + `MCSettingsSfcb_*.cfg` | instances for TLC |
| `ImageSwap` | abstract: two images that change places at once, never to a lower version |
| `ZbSwap` | `zb_img_swap` by sectors, its log, confirmation, the loader's decision, the upload, power loss |
| `ZbSwapRefinement` | where each image is, from the last command in the log alone; that `ZbSwap` implements `ImageSwap` |
| `ZbSwapProofs` | proofs about `ZbSwap` and that it implements `ImageSwap` |
| `MCZbSwap` + `MCZbSwap_*.cfg` | instances for TLC |
| `ZbDfu` | `nrf_dfu.c` (loader and application) with the buffer of `zb8_dfu.c` |
| `ZbDfuProofs` | proofs about `ZbDfu` |
| `MCZbDfu` + `MCZbDfu_receive.cfg` | an instance for TLC |
| `ZbBoot` | `zb_fsl_boot`, `zb_fsl_move`, `main` of the swapper: how the parts of a ZB-8 device start and replace one another |
| `ZbBootProofs` | proofs about `ZbBoot` |
| `MCZbBoot` + `MCZbBoot_update.cfg` | an instance for TLC |
| `UsbDfu` | `usb_dfu.c`: requests, work queue, waiting thread |
| `UsbDfuProofs` | proofs about `UsbDfu` |
| `MCUsbDfu` + `MCUsbDfu_download.cfg` | an instance for TLC |
| `ZepSwap` | the swap of ZEPboot by flash operations, its `main`, the application that asks for it |
| `ZepSwapProofs` | proofs about `ZepSwap` |
| `MCZepSwap` + `MCZepSwap_trial.cfg` | an instance for TLC |

### Sfcb

A sector is a function from blocks to cells, a block is one write block. The
model fixes the configuration in which write block, ATE and sector start have the
same size (8 bytes) and `CONFIG_SFCB_ATE_CACHE_SIZE` is 1. Lengths are in blocks.
Programming a block that is not blank makes it garbage.

`at` is where the running call stands, `caller` who called `sfcb_new_sector` and
compress. The variables `wr_*` are those of `struct sfcb_fs`.

| action | code |
|---|---|
| `Mount` | `sfcb_fs_check`, `sfcb_fs_init` up to `fs->compress`, when neither returns an error (`Mountable`) |
| `CompressNext`, `CopyBlock`, `CopyClose`, `CompressDone` | the compress routine with `sfcb_copy_loc` |
| `CompressReturns` (in `CompressDone` and where a copy fails) | the mount's second attempt, `sfcb_open_loc`'s next one |
| `Open`, `Retry` | `sfcb_open_loc` and its loop |
| `Erase`, `InitSector` | `sfcb_new_sector` |
| `WriteBlock`, `Close` | `sfcb_write_loc`, `sfcb_close_loc` |
| `FormatCall`, `FormatSector`, `FormatDone` | `sfcb_format` |
| `PowerLoss` | any step may be cut off: a torn block (`TornCell`), an erase that blanked only a set of `PartialErases` |
| `FlashError` | `flash_write` or `flash_erase` returns an error |

The loops of `sfcb_fs_init` that look for the end of the entries and of the data
are predicates (`IsAteEnd`, `IsDataEnd`) that hold of exactly the offset the loop
stops at. `StartsFail` and `AtesFail` are their error paths: `sfcb_crc8_verify` returns the
stored CRC byte minus the computed one, and the mount fails on a negative difference where
it walks over a positive one. A torn cell therefore has its CRC byte "above" or "below"
(`TornCrc`). The CRC is the last byte of a block and an erased byte is 0xff, so a block that
was cut off before its last word is "above"; "below" takes a power failure within the
word that holds the CRC. A mount that fails changes nothing, and the client formats, as
`src/sfcb/README.md:91-95` and `settings_sfcb.c:290-292` do.

The walk `sfcb_next_loc` is the order `Age` over sectors and the slots of
a sector downward.

### SettingsSfcb

Here a sector is the sequence of its entries, and a location takes one place in it:
what `Sfcb` shows of blocks is not modelled again. What power failures leave of a sector
is taken from there: an entry that is not readable but used up, a sector that has
lost all entries or the data of its first ones. A torn block that makes the mount
fail (`TornCrc` "below" in `Sfcb`), and the format after it, are not. `ring` and `newest` are flash, all
else is RAM.

| action | code |
|---|---|
| `BackendInit` | `settings_backend_init`: mount, or format and mount; then `compress` is set |
| `Save`, `Erase`, `InitSector`, `Close` | `settings_sfcb_save`: `sfcb_open_loc` with a new sector if there is no space, the three writes and `sfcb_close_loc` |
| `Failed` (in `Close`) | a write that fails, whose result is ignored: the entry is closed with no setting's name in it, or with a name and a value that was not written (`WriteErrors` says which) |
| `CompressCopies` (in `InitSector`) | `settings_sfcb_compress`, with the condition of its loop as it is |
| `Load`, `NextEntry`, `SectorEnd`, `FsEnd`, `LoadReturns` | `settings_sfcb_load`, one step per entry; `Live` is the test on length and later duplicates |
| `HandlerReturns` | the set handler returns, perhaps an error; before that it may call `Save` |

`handed` is a history variable: what the load has given to the handlers. `excused` are
the settings of which a handler deleted or, by starting a sector, may have erased
the value while the load was under way.

### ZbSwap

A cell is a sector of a slot and holds a sector of an image in one of two forms
(as it was sent, or plain), nothing, garbage, or the CRC in verify. An image whose
first sector was cut off may still have its header (`"broken"`), so it is taken for
an image. Hash, signature and CRC are ideal: they match what they were made from
and nothing else. The address layout is that of `zb8_slot.c`: the move slot is the
run slot shifted by one sector, verify is the last sector of the move slot. `Layouts`
says which devices there are: with an upgrade slot apart, and a log
(`nrf52_pca10040_di.overlay`), or with the upgrade slot in place of the move slot, without one
(`nrf51_pca10028_si.overlay`); `InPlace` is read off the slots.

`cmd` is the command of the loop in `zb_img_swap`. A round of the loop is three
steps, because power may fail in each: the command's case with the erase
(`StartMove`, `Run2Mov`, `Upg2RunFirst`, `Upg2RunNext`, `Mov2Upg`, the two `Skip`s,
`Finalise`), `Copy` (`zb_img_move`), `WriteLog` (`zb_cmd_write`). `upgr_ok`,
`upgr_key` and `run_confirmed` are the parts of `struct zb_img_info` that outlive a
round; the key is computed only once the hash is good, and a key that was never
computed makes garbage. `EraseVerify` and `WriteVerify` are the two halves of
`zb_slt_confirm`. `Boot` is `zb_fsl_boot`, `SwapStart` the beginning of
`zb_img_swap` with `main`'s treatment of its error.

Dependencies on the own slot area are modelled as zb8tool writes them; those on
other areas are an input (`OtherDeps`). They may come out differently after a
restart, since `main` swaps the other areas first and may by then have swapped an
unconfirmed image back.

### ZbDfu

A unit stands for so many bytes that packets, buffer and header are whole numbers of it;
unit i of image m is `<<m, i>>`, so that flash shows which image, and which part of it,
is where. `state`, `exp_size`, `img_offset` are those of `nrf_dfu.c`, `buf`, `wr_offset`,
`sm_idx` the `ctx` of `zb8_dfu.c`. The handlers of the Bluetooth stack run one after the
other; a handler is one step until it calls `flush_flash_img_ctx`, whose flash operations
are steps of their own (`at`), as power may fail in each. `caller` says where the flush
returns to.

| action | code |
|---|---|
| `Start`, `InitPacket`, `ReceiveImage`, `Validate`, `Activate` | the opcodes of `write_control` |
| `StartPacket`, `InitData`, `DataPacket` | `write_packet` by state, the last with `zb_dfu_receive` |
| `FlushFirst`, `FlushRefused`, `FlushNext`, `EraseVerify`, `EraseSector`, `WriteBlock`, `SlotEnds` | `flush_flash_img_ctx` |
| `FlushReturns`, `AfterReceive`, `Received` | the rest of `zb_dfu_receive`, `receive_done`, the answer |
| `Swapped`, `PowerLoss` | a restart, after the swapper or without it |

Callbacks that neither `main.c` sets (`start`, `validate`, `reset_to_boot`) are left out,
and with them the state `DFU_STATE_BOOTLOADER`.

### ZbBoot

Here a device is its flash, seen by the four areas run, upgrade, swapper and loader (in
place, the upgrade slot is the run slot shifted by a sector), what VERIFY is the CRC of,
and what the log says of a swap. What `ZbSwap` shows of a logged swap, that it takes
place whole or is continued, is one operation (`Exchange`) here; a swap in place
and the move of the first stage loader are done sector by sector. `ops` are the flash
operations that the running code has still to do; each of them can be cut off.

| action | code |
|---|---|
| `StartRun`, `MoveImage`, `StartSwapper` | `zb_fsl_boot` by the CRC and the address the image is linked for |
| `MoveOps` | `zb_fsl_move` |
| `Accept`, `Continue`, `Finalise` | `zb_img_swap` up to its first command, and from FINALISE on |
| `Swapped`, `BadImage` | the rest of the swapper's `main`: back to the first stage loader, the loader, the run image |
| `Upload`, `Confirm`, `JumpTo` | `zb_dfu_receive`, `zb_dfu_confirm`, `zb_fsl_jump_swpr`, `zb_fsl_jump_ldr` |
| `Reset` | a reset; what has ended in "Starting failed, try reset" (`main.c:62`) is reset too |

### UsbDfu

Block i of download d is `<<d, i>>`. A request of the host is one step; the work has a
step where the flash is busy (`at`: erase, write, the request of the upgrade), and a
request may come before each. `seen` is the state the host knows. `flash_img_context`
and the flash library are modelled from their use: a buffer of `BufBlocks`, an offset.

| action | code |
|---|---|
| `GetStatus`, `GetState`, `Abort`, `ClrStatus`, `Dnload`, `Upload`, `Detach` | the cases of `dfu_class_handle_req` |
| `BusReset`, `SetInterface` | `dfu_status_cb`, `dfu_custom_handle_req` |
| `WorkStarts`, `WorkErases`, `EraseFails` | `dfu_work_handler` |
| `WorkWrites`, `WriteFails`, `ErrorReported`, `BlockReported`, `EndReported`, `RequestUpgrade`, `RequestFails` | `dfu_flash_write` |
| `Wait` | `wait_for_usb_dfu` |

`Manners` is what a host does not do: while it is told that the device is busy or
manifests, it only asks for the state ("busy"); told that the device is idle again it
waits until the work of the ended download has run ("flush"); it changes the interface
only between transfers ("interface"). The first and the third are rules of the DFU
protocol. The second one is not: see section 4.

### ZepSwap

A cell is a sector of a slot, `cmds` the commands at the ends of the slots and in swpstat
by what can be told from them: the last valid one and the places used. A step of the
bootloader decides (one action per command, `Start`, `MoveUp`, `P1` to `P4`) and leaves
its flash operations in `ops`; `Execute` does one, `PowerLoss` may cut it off. The
result of one step is logged as the last of them.

| action | code |
|---|---|
| `Continue`, `Accept`, `MakePermanent`, `Nothing`, `Restore`, `NoRestore` | the four questions of `zb_img_swap` |
| `Start`, `MoveUp`, `P1`, `P2`, `P3`, `P4`, `Finished` | the cases of `zb_img_cmd_proc` |
| `Loaded` | `zb_get_img_swp_info`, for a step that is the first since power came back |
| `Boot` | `main` after the swap |
| `Begin`, `Receive`, `Finish`, `RebootTo` | `zepboot_dfu.c` |

`hist` is history: the image that is to run, the one in slot 0 that may take its place,
and during a trial the one to go back to. `Spared` names what is left out: power lost
while the images change places ("swap"), and an upload over the image that a trial would
go back to ("upload"); section 4 says why.

## 3. Runs

| run | question | instance |
|---|---|---|
| `sfcb_compress` | With a compress routine that keeps every id, is anything ever lost, mixed, programmed twice, or read differently before and after a power failure, and can the file system always be mounted? | 2 sectors of 6 blocks, 2 ids, 2 values, ids of sectors modulo 4, torn blocks with the CRC byte above |
| `sfcb_torn` | (violated) Is nothing lost either when the CRC byte of a torn block may be below? | as `sfcb_compress`, both kinds of torn blocks |
| `sfcb_format` | Does a format that comes to its last step leave anything readable, whatever was cut off before? Do all calls return, with driver errors, a full file system and a compress that fails? | 2 sectors of 5 blocks, compress keeps one id of two, both kinds of torn blocks, fairness |
| `zbswap_power` | Is a logged swap atomic and does it go on with the right length, is only a whole image started and confirmed, does the device stay alive, and does the swap end, when power fails twice in each swap? | 3 sectors, both layouts; old image of 2, new ones of 1, in place of 2 and 3; log of 27, fairness |
| `zbswap_dropback` | Is an old plain image safe on its way back when the new one is refused after a restart? | 3 sectors, log of 13, torn erases of the log |
| `zbswap_restart` | (violated) Is only a whole image started when a swap of two sectors is interrupted? | one power failure before an erase |
| `settings_load` | Does each load hand out what is stored, with handlers that save, and does an old or deleted value ever come back? | 2 sectors of 2 locations, 2 names, 2 values, writes of names that fail |
| `settings_lost` | (violated) Does a setting stay until it is saved again or deleted? | no power failure needed |
| `zbdfu_receive` | Is what was reported as received in the right slot, and nothing else touched, with writes of the peer in any order? | an area of two sectors and one in place of one sector, 2 blocks per sector, 2 units per block |
| `boot_update` | Are only whole images started, does a confirmed swapper or loader image arrive, and does the device always come back, when power fails anywhere in an update? | areas of 2 sectors, both layouts, new images of all three kinds, one power failure per update, fairness |
| `usb_download` | Is an upgrade requested only for a whole download, is all that was acknowledged stored, does an upload give the area, does busy end? | image 1 of 3 blocks, image 0 of 2, a buffer of 2, every flash error |
| `zep_trial` | Does only a whole image run, is the old one safe while a new one is on trial, is a trial over at the next boot, does a swap end? | 3 sectors; an image to be tried, and one that runs from slot 1; one power failure between swaps, fairness |

### Bounds, and why they are enough

* *Sectors of the buffer.* Two is the least number compress works with, and makes
  every new sector the one that is erased next. Sector ids are taken modulo a small number that is at least twice the number of
  sectors, so that the wrap of the 16-bit counter is met within a few sectors; with
  fewer the signed difference of `sfcb_scmp` would have no meaning.
* *Blocks.* A sector holds two or three entries: one that fits, one that exactly
  does not, one that is superseded.
* *Erases.* An interrupted erase has blanked the sector from one end. If it may
  leave any single block blank, `PowerFailSafe` fails (section 4).
* *Images.* Two sectors are the least with a sector that is not the first; three
  fill the slot, whose last sector is then verify. A logged swap in `zbswap_power` moves
  two sectors, as many as the old image has: a new image of two restarted in UPG2RUN is
  damaged (`zbswap_restart`). `TypeOK` and `LengthKnown` are proved for any sizes. Versions differ in the minor
  number only.
* *Log.* A swap of k sectors writes 3k + 6 commands. `LogSize` leaves room for that
  and for what each power failure may add (the bound `Ample` of `ZbSwapProofs`) in
  `zbswap_power`, and none in `zbswap_dropback`. ZEPboot's needs 3k + 5; 12 are enough for two sectors and a torn
  entry. The ends of its slots hold 3 commands, so that they get full between two swaps.
* *Power failures* are not bounded in sfcb, in an in-place swap, and outside of a
  logged swap. During a logged swap `MaxLosses` bounds them, as each may add a torn
  entry to the log. `boot_update` has one in each update, at any operation; with two
  `StartsWhole` fails (section 4). `zep_trial` has one from the start of a swap to the
  start of the next, in the move up, the two last phases, the boot or the application.
* *Areas* of two sectors have a sector with the header and one without. A move of such
  an image is six operations, each of which may be the one that is cut off.
* *USB.* Three blocks in a buffer of two: one download fills a buffer, the next leaves a
  half one, one more does not fit. Two downloads tell old blocks from new ones. Requests
  of 0 and 1 blocks; image 0 and image 1 differ in size. The host's fourth block is refused
  by the flash, so it sends no fifth.
* *ZEPboot.* The images have 1 and 2 of the 2 sectors a slot has beside its end: both
  orders of length in an exchange, and the restore is the other order.
* *Settings.* With two locations in a sector a value can be superseded in its sector, in
  the next one and after a full turn of the ring.
* *Upload.* Packets of 0, 1 and 2 units end before, at and behind the end of a block of 2.
  The peer announces nothing, less than it sends, less than a header, a size that ends in
  the middle of a block and one that fills the slot; what it sends is bounded by the slot
  only. `exp_size` wraps at 13, more than a peer can send before `zb_write` refuses it, as
  2^32 is.
* *Symmetry* is used for ids and values in runs without liveness.

### Fairness

`FairSpec` of `Sfcb` and `ZbSwap` is weak fairness of the code's own steps taken together
(`Step`): the processor runs on. Nothing is assumed of the client, the application,
the upload or the power supply: `CallsReturn` and `SwapEnds` hold because power loss
and errors also end a call. It is the same with `Starting \/ Execute` in `ZbBoot`, where in
addition somebody resets a device that printed "Starting failed, try reset", and with
`Bootloader` and `Execute` in `ZepSwap`. In `UsbDfu` the work queue and the waiting
thread are scheduled; the host may stop at any time. `Deadlock` is checked in every run.

### Mutants

Each property of a passing run comes with a variant of one definition, written next
to it and marked *Mutant*, under which the run finds the property violated: a check
or an assignment dropped, an order changed, a wrap forgotten.

## 4. What the checks found

Three disagreements between the code and what the repository says of it are kept as
runs, with the quoted lines under `findings`:

* **`sfcb_torn`.** A mount that meets an ATE or a sector start that was cut off, and whose
  CRC byte is below the CRC of its other bytes, returns the negative difference as an error
  (`sfcb.c:205`, `483`, `569`), and does so at each start. The client formats, and all that
  was closed before is lost, where `src/sfcb/README.md:41-43` says the buffer "will fall back to the
  last known good state". With the CRC byte above (`sfcb_compress`) it is as it says.
* **`zbswap_restart`.** When a swap is restarted beyond the first sector, the key of
  an encrypted image is never computed: `img_get_info` fails on the hash of the
  half-written run image, its result is ignored, and `enc_start` was set before. The
  sector is "decrypted" with an uninitialised key; FINALISE then computes the CRC over
  the garbage and confirms it. The tests in `src/zb8/tests` never interrupt a swap.
* **`settings_lost`.** The loop of the settings backend's compress routine has its
  condition inverted (`settings_sfcb.c:220`): nothing is copied, and each time a sector is
  reused the settings in it that were not saved again are lost.

Others were met with the same modules under different constants and are not kept as
runs:

* `zb8_image.c:158`: `run_info.confirmed` is set from the old image and never cleared, so
  a confirmed old image makes any new image confirmed, where `zb8/readme.md:256-257` says
  it "will execute only one time" (a confirmed and an unconfirmed image, no power failure,
  `ConfirmsConfirmed`).
* `zb8_move.c:247`: power lost between the confirmation and the last log entry leaves a
  log that says FINALISE beside a valid run image. The next image that is uploaded is not
  installed, the old one is confirmed instead (one power failure at `"log"`,
  `UpgradeTaken`).
* `sfcb.c:957`: after a failed write the next location gets the blocks that were already
  programmed (`IoErrors = {"program"}`, `ClosedIsWritten`).
* `settings_sfcb.c:194`: the results of the writes are ignored. A setting whose name could
  not be written is reported as saved and is not stored, which to the store is a save that
  was given up; one whose value could not be written has garbage for a value, and the value
  stored before is lost (`WriteErrors = {"name", "value"}`, `NeverBack`). Loads hand out
  what is stored in both cases.
* `zb8_dfu.c:48-50` says the first buffer tells "if the size fits the slot"; only the
  address is compared (`Accepted` of `ZbDfu`). An image that is too large has erased
  verify and filled the slot when `zb_write` refuses it (`SlotEnds`).
* `zb8_move.c:251`: the log needs 3k + 6 commands, `docs/design.md:199-222` counts 3
  per sector and one to start; the error of a full log is ignored, the end of the swap
  is not logged and the next upgrade is passed over (`LogSize = 10`, images of two
  sectors, `UpgradeTaken`).
* `zb8_move.c:173`: `dp_err` is 0 again when the old image is dropped back, so an
  encrypted one is decrypted a second time (`OtherDeps = {TRUE, FALSE}` with encrypted
  images, `OldImageBack`). If the old image's dependencies fail too, the loop never
  ends (`SwapEnds`). That a swap drops back is known to `in_place` and `upgr_slt` in RAM
  (`zb8_move.c:163-166`) and not to the log: a drop back that is restarted after its first
  sector goes on as a classic swap, and copies the refused image behind the header of the
  old one (`RunsWhole` and `OtherDeps = {TRUE, FALSE}`).
* `zb8_move.c:80`: an erase of the log that leaves its first entries continues the swap
  before (`TornLogErase = TRUE`, `AtomicSwap`).
* `cmd3` is one byte, and a swap counts it two beyond the sectors of the longer slot, and two
  more at each restart: in slots of 254 sectors it may wrap to 0, and UPG2RUN 0 in the log
  stands for a swap that has not begun. The theorems about `ZbSwap` need
  `N + 2 + 2 * MaxLosses <= 255`.
* `sfcb.c:734`: the result of compress is overwritten; a later new sector erases what
  was not copied (`IoErrors = {"program"}`, `CopiedBeforeErase`).
* `sfcb.c:378`: `wr_sector` is advanced before an erase that may fail
  (`IoErrors = {"erase"}`, `WalkStops`).
* `sfcb.c:522`: a format does not look at sectors whose last slot is empty. A sector start
  that was cut off in such a sector, and makes the mount fail, is there after the format
  too, and the mount fails again, after every format (`TornCrc` with "below",
  two sectors: `FormatDone` leaves a flash that is not `Mountable`).
* `sfcb.c:518`: a format of a file system that cannot be mounted, cut off when it has erased
  the sector that made the mount fail, makes it one that can be, with older contents.
* `sfcb.c:614`: an erase in the middle of a mount that leaves an ATE whose data is
  already blank (`PartialErases` any single block, `PowerFailSafe`).

With ZB-8's start (`ZbBoot`):

* `zb8_move.c:245-251`: power lost after the image was confirmed and before the end of the
  swap is logged, and lost again while the first stage loader erases the run slot behind the
  move, leaves a log at FINALISE beside a damaged image with an intact header. The new swapper
  signs it, and the first stage loader moves it over the good swapper: nothing starts any
  more (`MaxLosses = 2`, `StartsWhole`).
* `zb8_image.c:65-82` compares a dependency with the version in whatever header is in the
  run slot. A swapper or loader image that was not confirmed, or whose header an erase that
  was cut off has left there, may have a version that the old application does not allow
  for; the application is then refused at each start, and the device does not start until
  it gets another swapper. `Recovers` excepts this case (`Refused`).
* After power was lost between the confirmation and the end of the log, the first start
  moves the image, and the swapper it starts ends in "Starting failed"; the next reset helps.

With USB DFU (`UsbDfu`):

* `usb_dfu.c:387`: GETSTATUS makes dfuMANIFEST_SYNC dfuIDLE although the last buffer has
  perhaps not been written: the work that flushes it was only queued. A request that the
  protocol then allows resets `ctx` or overwrites the block, and a truncated image is marked
  for upgrade (`Manners` without "flush", `UpgradeWhole`).
* `usb_dfu.c:458`: a request that comes while the work erases or writes is handled at once. A
  host that then does more than ask for the state, against the protocol, makes the two
  disagree on the buffer and on `ctx` (`Manners` without "busy", `UpgradeWhole` and
  `Acknowledged`).
* `usb_dfu.c:466` raises the signal for "Wait till DFU is complete" (`806`) before the work
  that completes it is queued.
* `usb_dfu.c:807` waits for ever when the download it saw is given up or fails: only its
  end raises the signal (`WaitEnds`; the comment in `789-790` says it waits "while the USB
  DFU is in progress").
* `usb_dfu.c:541` drops the last, short packet of an upload: it sets the length to 0 after
  the data was read; the comment (`537-540`) says it is received. Lengths that do not divide
  the area are left out of `usb_download`.
* `usb_dfu.c:504` subtracts below zero when the interface is changed to a smaller area in an
  upload (`Manners` without "interface", `UploadWhole`).

With ZEPboot (`ZepSwap`):

* `zb_move.c:103-114`: a swap restarted in phase 1 or 2 looks for both headers one sector too
  high at sector 0, although the header in slot 1 is not moved up, and takes the slots the
  other way round beyond it; the images are exchanged with the wrong lengths and keys
  (`Spared` without "swap", `RunsWhole`). `src/zepboot/docs/design.md:125-126`: "if the
  step being executed is interrupted, this step will be restarted at the next reboot".
* `zb_move.c:374-387`: the restore does not check what is in slot 1. An image on trial that
  receives another one, and is then reset, is replaced by half of it (`Spared` without
  "upload", `RunsWhole`). `src/zepboot/docs/usage.md:21`: "a reboot will restore the previous
  image".
* `zb_move.c:362-372`: a request for a permanent swap whose image is bad makes the image that
  is on trial permanent.
* `zb_move.c:304`: the result of the write is overwritten; when swpstat is full the last
  step is repeated for ever (`LogSize = 9`, `SwapEnds`). A swap needs 3k + 5 commands, the
  documentation counts 3 per sector and one (`docs/design.md:199-200`).
* `zb_move.c:369-370`: each command whose write is cut off takes a place in the end of slot 0. When
  they have filled it, the command that keeps the image is not written, nobody looks at the
  result, and the same boot swaps the image the user asked to keep away (`EndSize = 2`, the
  history of `TypeOK`).
* `bootloader/src/main.c:75-81`: a device whose first image runs from slot 1 has none in
  slot 0; asked to start slot 0, it finds the CRC of nothing equal to the one P3 wrote down, and
  jumps (`First` for slot 1, `RunsWhole`).
* `zb_move.c:370` adds a command to the end of slot 0 at each boot while the request to keep
  the image stands in slot 1, until there is no place left.
* `bootloader/src/main.c:60`: `cmd` stays uninitialised when the end of slot 1 is full of
  commands with a wrong CRC (`BootsSlot0`).

## 5. Proofs

What TLC shows for one instance, the theorems below state for every value of the constants:
any number of sectors, blocks, slots and images, any number of steps. Each comes from an
inductive invariant that was checked by TLC on the instances of the runs before it was
proved.

| module | theorem | property | hypotheses |
|---|---|---|---|
| `SfcbProofs` | `TypeCorrect` | `TypeOK`: no offset leaves the sector | no driver errors |
| | `WalksEnd` | `WalkStops`: `wr_ate_offset` is the blank slot the walk ends at | " |
| | `SpaceIsFree` | `FreeSpace`: what will be programmed next is blank, after a mount too | " |
| | `EntriesNeverOverlap` | `EntriesDisjoint`: entries share no data and do not reach the ATEs | " |
| | `NeverOverwrites` | `NoOverwrite`: no step programs a block that is not blank | " |
| `SfcbRefinementProofs` | `MountFindsRam` | `MountAgrees`: a mount finds what the RAM holds | `CrcLast`, no driver errors, formats only what cannot be mounted |
| | `NothingErasedUncopied` | `CopiedBeforeErase`: what is erased was copied | " |
| | `FormatLeavesNothing` | `FormatEmpties`: nothing is read after the last step of a format | none |
| | `ImplementsKeyStore` | `PowerFailSafe`: `Sfcb` implements `KeyStore` | `CrcLast`, no driver errors, formats only what cannot be mounted, `ErasesEnds`; no id is kept without compress |
| | `MountsForEver` | `StaysMountable`: what was mountable stays so | ", and more than one sector |
| `SettingsSfcbProofs` | `TypeCorrect` | `TypeOK` | none |
| | `LoadsCurrent` | `LoadIsCurrent`: a load hands out what is stored | none |
| | `NothingComesBack` | `NeverBack`: `SettingsSfcb` implements `KeyStore` with nothing kept | the write of a value does not fail |
| `ZbSwapProofs` | `TypeCorrect`, `LengthIsKnown` | `TypeOK`, `LengthKnown` | `Assumed` |
| | `StaysAliveHolds` | `StaysAlive`: there is always an image to start | `Assumed` |
| | `RunsWholeHolds`, `SignsWholeHolds` | `RunsWhole`, `SignsWhole`: only whole images are started and confirmed | `Assumed`, `Careful` |
| | `KeepsOldImage` | `OldImageKept`: the image that goes is never lost | `Assumed`, `Careful` |
| | `SwapsAtOnce` | `AtomicSwap`: `ZbSwap` implements `ImageSwap` | `Assumed`, `Careful` |
| | `DropsBackWhole` | `OldImageBack`: the old image is not lost while it is dropped back | `PlainImages` |
| `ZbDfuProofs` | `TypeCorrect`, `ReceivesAll`, `InstallsWhole`, `TouchesOneSlot` | `TypeOK`, `NothingSkipped`, `Installed`, `OnlyTheSlotNamed` | none |
| `ZbBootProofs` | `StartsOnlyWhole` | `StartsWhole`: what is started is whole and linked for its place | one power failure between two uploads |
| `UsbDfuProofs` | `TypeCorrect`, `UpgradesWhole`, `AcknowledgedIsStored` | `TypeOK`, `UpgradeWhole`, `Acknowledged` | `Polite` |
| | `UploadsWhole` | `UploadWhole` | `Polite`, lengths that divide the areas |
| `ZepSwapProofs` | `TypeCorrect` | `TypeOK` | `Proviso` |
| | `RunsWholeImage` | `RunsWhole`: what is started is whole, and there always is something to start | `Proviso` |
| | `KeepsOld` | `OldKept`: the image before the one on trial can be swapped back | `Proviso` |
| | `TriesOnce` | `TrialOnce`: an image on trial is started once | `Proviso` |

Beside the assumptions on the constants in the modules, the hypotheses are the conditions of
the runs, and for each of them section 4 has what happens without it:

* *No driver errors*: `IoErrors = {}`; *formats only what cannot be mounted*:
  `AnyFormat = FALSE`, for a format leaves sectors that are not in the order of their ids.
* `CrcLast`: no torn block has a CRC byte below the CRC of its other bytes
  (`"below" \notin TornCrc`), which holds when power never fails within the word that holds
  the CRC. It is what `sfcb_torn` shows to be needed. The theorems of `SfcbProofs` do without it.
* `ErasesEnds`: an erase that is cut off has blanked the last slot of the sector, where every
  walk begins, or at least its start when compress keeps all ids. An erase that blanks the
  data of an ATE and leaves the ATE and the start makes a mount read an entry with blank
  data. *No id is kept without compress*: `KeepIds` is what compress keeps, and empty
  without it.
* `Assumed`: the dependencies on other slot areas are met whenever they are asked
  (`OtherDeps = {TRUE}`), the erase of the log is not torn (`TornLogErase = FALSE`), and `Ample`:
  the log has room for a swap of N sectors with the restarts there may be, and `cmd3` does
  not wrap. The code looks at neither.
* `Careful`: power does not fail between the logged move of the first sector of the image
  that comes and that of its last one (`Restartable` is the state predicate). That is the
  defect of `zbswap_restart`; the hypothesis leaves every other moment of an upload, a swap
  and a confirmation to power failures, as many as `MaxLosses` says.
* `PlainImages`: no image is encrypted, for a drop back decrypts twice, and the slot has at most
  254 sectors, as many as `cmd3` counts one beyond. It takes the place of `Assumed`:
  dependencies may fail, the log may be torn, full or short.
* `Polite`: the host does none of the three things in `Manners`.
* `Proviso`: power does not fail in phases 1 and 2 of ZEPboot's swap, nothing is sent to an
  image on trial (`Spared`), the image a new device is programmed with runs from slot 0
  (`First.load # "slot1"`), and the end of slot 0 has room for two commands more than power
  fails during a trial (`EndSize >= MaxLosses + 2`): the one of the swap, one that is cut off
  by each failure, the one that keeps the image. Every other operation of the
  bootloader and the application may be cut off.

### The arguments

*Sfcb.* None of the properties is inductive: a mount takes any sector, so what holds of the
write sector must be known of every sector, and a copy reads an entry of another sector while
it writes. `IInv` of `SfcbProofs` adds `AllSound` (in every sector there is a blank slot for
the walk to stop at and the entries above it are disjoint, power-torn or not),
`EntriesBelow` (data is written above that of every entry of the write sector) and `Control`
(what each place in the code relies on). There is a lemma for each way a sector changes
(`ErasedSound`, `DataSound`, `TornAteSound`, `CloseSound`), a lemma that a mount establishes
what the RAM has to know (`MountSound`), one per action, and `StepInv` puts them together.

*What a mount finds.* `RInv` adds the order of the sectors that the code never writes down
(`Ages`): the sectors that have a start are those met going back from the newest one, and
their ids count down from its id, modulo 2^16 in the code. With it the recursive scan of
`sfcb_fs_check` is proved to end on the newest sector. `RoomToCopy` says why compress never
runs out of space in a sector that was in use: a copy is nowhere less dense than its
original. `Copied` then carries what was copied to the next erase.

*Mounting.* With `CrcLast` a flash can be mounted if it has a sector start at all
(`FlashMountable`), and a start is lost only in an erase. `OtherStarted` names the one that
stays: that of the sector before, when `sfcb_open_loc` goes on, and that of the sector after,
when a mount starts its write sector anew (`BackedUp`): it does so because compress met an
entry there.

*The store.* `ImplementsKeyStore` is about all reads at once and in every state, where the
invariants above speak of those at rest. `Promised` adds what a mount would find in
the newest sector w of the flash, whatever the RAM says (`Walk`): either each entry to keep of the
sector after w is met again later, or w holds nothing but copies of last entries of that
sector. The first is what lets `sfcb_open_loc` erase, the second `sfcb_fs_init` when it starts
w once more. For each way a sector may change there is a lemma about reads: a block
of data, a torn ATE or a sector start change no read (`BlockSame`, `TornAteSame`,
`StartSame`), an ATE changes the read of its id alone (`CloseAdds`, `AddedReads`), and when a
sector is erased, wholly or in part, every id reads as before or is gone, and gone only if it
is not kept (`OpenErased`, `RemountErased`). A read is the least entry in the walk
(`Latest`); that two sectors keep their order when w becomes the newest or ceases to be is
`OrderOutside`.

*Settings.* `Control` ties the sectors to the newest start, `Told` says of each name that the
load has handed out the last entry it has met, if no later one is to come. The refinement maps
a step on the ring to one on what `Stored` reads off it: an append changes one name, an erase
forgets some names and brings nothing back, because the sector that is erased is the oldest.

*ZB-8 swap.* `IInv` names one image, the one that comes, for the whole of a swap: its first
sector is where the last command of the log says, and the command under way only writes
sectors in which it has nothing to lose. `Pos` orders the commands, so that the length of the
log follows from the last of them. `WInv` adds where the rest of that image has arrived, and
`GInv` where each sector of the image that goes is: run slot, move slot or upgrade slot, by the
last command alone. `KnownNow` shows that `GInv` determines both images of the refinement, and
`StepImages` that a step changes neither, but the first command written to the log, which
exchanges them, and an upload. `DropInv` is for swaps that turn back: only UPG2RUN and what
ends a swap can follow, a sector is copied from the move slot to its place, and the
image whose header is in the run slot is back when the commands have passed its size. The
images that can be put together (`Held`) are then the same before and after each step:
the erase touches a sector nobody needs, the copy moves one, and VERIFY is written
when the move slot, which overlaps it, is no longer needed. It needs none of `IInv`, whose image
that comes is gone, and holds whatever earlier failures left in the flash.

*Start of a device.* `Homes` says that the areas of swapper and loader are whole or that their
image is in the run slot and its move starts anew; `Doing` what the remaining flash operations
are for each place in the code.

*Bluetooth and USB DFU.* In both the invariant follows the units of the image through request,
buffer and flash (`Held`, `StoredUpTo`) with the state of the protocol: while the flash is
busy, nothing but what the code guards against comes in.

*ZEPboot.* `ZInv` reads off the last command of the log what each sector of the slots holds
(`Exchange`, `InPlace`): the images in their places, one of them moved up by a sector, each
divided at the sector the command names, or one of them in its new place and the other one on
its way. A step rewrites one sector, and logs a command when that is done. The sector is one
whose content the last command does not speak of (`Writing`: `Swap` holds with any cell put
there), so that an operation cut off changes nothing the step depends on, and it is done once
more; that the next command tells the truth is proved once for each phase (`UpExchange`,
`StepP1`, `StepP2`, `StepP2InPlace`, `PhaseEnds`). What RAM still knows of the headers agrees with them
(`Tells`, `LoadFacts`), but in phases 1 and 2, where the headers have moved and only
RAM knows: `Forget` says that in all others it may be lost. When no swap goes on, `Settled` says what
the parameters, the command in the end of slot 0 and the image in slot 1 have to do with the
history, and `AppEffect` that the application disturbs none of it. `ZInv` was checked by TLC
for images that are encrypted or not and run from either slot or from RAM, and for two power
failures between swaps, besides the instance of the run.

*Recursion.* `sfcb_fs_check`'s scan, the last entry of a name and the last command of a log
are proved about by taking a least or greatest element of a set (`WFMin` of
`WellFoundedInduction`), in place of an induction schema.

### Only model-checked

* *Liveness* (`CallsReturn`, `SwapEnds` of both swaps, `BusyEnds`, `Installs`, `Recovers`) and
  what needs ENABLED: out of the prover's reach.
* `NothingLost` and, without `Careful`, `RunsWhole` of `ZbSwap` are violated (section 4).

## 6. What is not modelled

* *Threads in sfcb*: one thread, no mutex. The mutex does not protect what two threads
  share: `sfcb_init_loc` and `sfcb_new_sector` run without it (`sfcb.c:721-742`),
  `sfcb_write_loc` gives it back around the write (`855`), `sfcb_read` and the walk never take
  it, and four error paths keep it (`644`, `788`, `956`). Fields of `struct sfcb_fs`
  are read and written at the same time, whose outcome the build decides; a model that
  allows for it violates every property of a second thread, and one that does not is a
  model of other code. `src/sfcb/README.md:329-331` says that open and write "will be
  blocked while compression is performed". The hazards name the lines.
* *Half erased cells in sfcb*: a block under an erase that is cut off is blank or as it was. One
  whose bits are in between would be a torn cell, with what that means for a mount.
* *Bytes in sfcb*: lengths that are no multiple of the write block, the data cache, the 16-bit
  `align_up`, ATE caches of another size; and the bound of a write (`849`), which is compared
  with `ate->offset + ate->len` instead of `ate->len`: clients write what they opened for.
* *sfcb without compress* and ids that compress drops are in `sfcb_format` (one id of two)
  for what a format leaves and for the end of calls; that an older value does not come
  back then is proved (`ImplementsKeyStore`), and is `NeverBack` of `settings_load`.
* *A mount of the settings that fails* for a torn block, and the format after it: `NeverBack`
  and `LoadIsCurrent` are about mounts that succeed. What such a format may do, be of no avail or, cut
  off, bring older contents back, is said of `Sfcb` in section 4.
* *An in-place slot area with a command log*: `nrf52_pca10040_si.overlay` has an upgrade slot in
  place and a swpstat slot as well. `ZbSwap` and `ZbBoot` have the layout in place
  without a log, so nothing here is about the restart of a logged swap in place.
* *Several slot areas in one swap of ZB-8*: only that dependencies change (`OtherDeps`).
* *Flash errors* in the swaps, the settings and the Bluetooth upload; packet notifications and
  answers of the BLE protocol; names in settings that are longer than the buffer.
* *USB*: requests of the host between two steps of the work, but GETSTATUS and GETSTATE, are in
  the model and not in the run (`Manners`, section 4); descriptors, `CONFIG_IMG_ERASE_PROGRESSIVELY`, areas that cannot be opened.
* *ZEPboot*: `zb_img_ram_move`, several areas, images larger than a slot; images that are not
  encrypted or run from RAM are in the model and the proofs but not in the run. `nrf_dfu.c` of zepboot_dfu
  is the file `ZbDfu` models.
* *Crypto* is ideal, *image tools and settings_preload* are functions from files to
  files, *samples and tests* have no state of their own.

## 7. Plan

Done, in this order: `Sfcb` with `KeyStore`, its first proofs, `ZbSwap` with `ImageSwap`,
`SettingsSfcb`, `ZbDfu`, `UsbDfu`, `ZepSwap`, `ZbBoot`; then the proofs about `UsbDfu`,
`ZbDfu`, `ZbBoot`, recovery in `Sfcb`, `SettingsSfcb` and `ZbSwap`, that `Sfcb`
implements `KeyStore`, about `ZepSwap` and about the drop back of `ZbSwap`.

Runs are few on purpose: a new module brings one or two, and takes the place of an
instance that has become the special case of another.
