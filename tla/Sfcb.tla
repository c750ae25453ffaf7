-------------------------------- MODULE Sfcb --------------------------------
(***************************************************************************)
(* The flash circular buffer of src/sfcb/sfcb/src/sfcb.c, used by a single *)
(* thread and cut off from power at any moment.                            *)
(*                                                                         *)
(* A sector is a function from blocks to cells.  A block is one write      *)
(* block (CONFIG_SFCB_WBS = 8), which is also SFCB_ATE_SIZE and            *)
(* SFCB_SEC_START_SIZE: block 0 holds the sector start, data grows upward  *)
(* from block 1 and allocation table entries (ATEs) grow downward from the *)
(* last block.  One step of the model programs one block or erases one     *)
(* sector; reads take no step.  A block that was being programmed when the *)
(* power failed holds a cell no CRC accepts (TornCell), whose CRC byte     *)
(* is above or below the CRC of the other bytes (TornCrc: below only if    *)
(* power fails within the word that holds the CRC, the last byte); a       *)
(* sector that was being erased is blank in some of the blocks             *)
(* (PartialErases).                                                        *)
(***************************************************************************)
EXTENDS Integers, FiniteSets

CONSTANTS
  NSectors,       \* fs->sector_cnt
  SectorSize,     \* fs->sector_size, in blocks
  SecIdMod,       \* sec_id is a u16_t: 2^16 in the code
  Ids,            \* identifiers of the stored variables
  Values,         \* contents of a data block
  Lens,           \* data lengths the client asks for, in blocks
  HasCompress,    \* fs->compress is set
  KeepIds,        \* the identifiers the compress routine keeps
  TornCrc,        \* how the CRC byte of a block that was cut off may compare
                  \* with the CRC of its other bytes: only "above" when a
                  \* block is programmed in order, as the CRC is its last byte
  PartialErases,  \* sets of blocks an interrupted erase may have blanked
  IoErrors,       \* flash operations that may return an error
  AnyFormat,      \* sfcb_format may be called on a mountable file system
  NoReq           \* no write is in progress

ASSUME SizesAssumption ==
  /\ NSectors \in Nat \ {0}
  /\ HasCompress \in BOOLEAN
  /\ HasCompress => NSectors > 1       \* sfcb_config_init refuses it
  /\ SectorSize \in Nat /\ SectorSize > 2
  /\ SecIdMod \in Nat /\ SecIdMod >= 2 * NSectors
  /\ Lens \subseteq Nat

ASSUME ChoicesAssumption ==
  /\ KeepIds \subseteq Ids
  /\ TornCrc \subseteq {"above", "below"} /\ TornCrc # {}
  /\ PartialErases \subseteq SUBSET (0..SectorSize - 1)
  /\ IoErrors \subseteq {"erase", "program"}
  /\ AnyFormat \in BOOLEAN

ASSUME NoReqAssumption == NoReq \notin [id: Ids, len: Lens, val: Values]

VARIABLES
  flash,           \* the flash area, the only thing that survives power loss
  at,              \* the operation being executed
  caller,          \* who called sfcb_new_sector and compress
  wr_sector, wr_sector_id, wr_ate_offset, wr_data_offset,   \* sfcb_fs
  req,             \* id, len and contents of the location being written
  nscnt,           \* sectors sfcb_open_loc has started for req
  cur,             \* loop cursor: ATE slot of loc_compress, sector of format
  pos              \* loc->data_offset of the location being written

ram  == <<wr_sector, wr_sector_id, wr_ate_offset, wr_data_offset>>
vars == <<flash, at, caller, ram, req, nscnt, cur, pos>>

Sector  == 0..NSectors - 1
Block   == 0..SectorSize - 1
Slot    == 1..SectorSize - 1          \* blocks an ATE may be looked for in
SecId   == 0..SecIdMod - 1
Request == [id: Ids, len: Lens, val: Values]

Blank     == [kind |-> "blank"]
Data(v)   == [kind |-> "data", val |-> v]
StartOf(i)  == [kind |-> "start", sec_id |-> i]
Ate(i, o, n) == [kind |-> "ate", id |-> i, offset |-> o, len |-> n]

TornCell  == [kind: {"torn"}, crc: TornCrc]
StartCell == [kind: {"start"}, sec_id: SecId]
AteCell   == [kind: {"ate"}, id: Ids, offset: Block, len: Lens]
DataCell  == [kind: {"data"}, val: Values]
Cell == {Blank} \cup TornCell \cup StartCell \cup AteCell \cup DataCell

BlankSector == [b \in Block |-> Blank]

-----------------------------------------------------------------------------
(* Flash: programming only clears bits, so a block programmed twice is     *)
(* garbage.                                                                *)
Programmed(old, new) ==
  IF old = Blank THEN {new} ELSE IF new = Blank THEN {old} ELSE TornCell

Program(s, b, c) ==
  \E x \in Programmed(flash[s][b], c) : flash' = [flash EXCEPT ![s][b] = x]

(* Power fails, or the driver gives up, in the middle of a block.          *)
ProgramTorn(s, b) == \E x \in TornCell : Program(s, b, x)

Erased(c, blocks) == [b \in Block |-> IF b \in blocks THEN Blank ELSE c[b]]

-----------------------------------------------------------------------------
(* sfcb_next_sector and sfcb_prev_sector wrap; sfcb_scmp is a signed       *)
(* difference of u16_t.                                                    *)
NextSector(s) == IF s + 1 = NSectors THEN 0 ELSE s + 1

\* Mutant: sector ids compared without regard to their wrap.
Scmp_NoWrap(a, b) == a - b

Scmp(a, b) == LET d == (a - b) % SecIdMod
              IN  IF 2 * d >= SecIdMod THEN d - SecIdMod ELSE d

(* sfcb_crc8_verify returns the signed difference of the CRC byte and the  *)
(* CRC.  The mount takes a negative one for an error and skips the block   *)
(* for a positive one; walks skip both.  A blank block gives no negative.  *)
\* Mutant: a CRC that is wrong is an error, above or below.
CrcBelow_AnyTorn(c) == c.kind = "torn"

CrcBelow(c) == c.kind = "torn" /\ c.crc = "below"

(* sfcb_fs_check: sectors with a valid start, and the one the scan ends on,*)
(* NSectors where it returns an error.                                     *)
Started(f) == {s \in Sector : f[s][0].kind = "start"}

StartsFail(f) == \E s \in Sector : CrcBelow(f[s][0])

NewestStart(f) ==
  LET best[i \in 0..NSectors] ==
        IF i = 0 THEN NSectors
        ELSE LET b == best[i - 1]
             IN  IF i - 1 \notin Started(f) THEN b
                 ELSE IF b = NSectors THEN i - 1
                 ELSE IF Scmp(f[i - 1][0].sec_id, f[b][0].sec_id) > 0
                      THEN i - 1 ELSE b
  IN  best[NSectors]

FsCheck(f) == IF StartsFail(f) THEN NSectors ELSE NewestStart(f)

(* A walk down the ATEs of a sector c stops at the first blank slot.       *)
IsAte(c, a) == c[a].kind = "ate"

Entries(c) ==
  {a \in Slot : IsAte(c, a) /\ \A b \in a..SectorSize - 1 : c[b] # Blank}

(* sfcb_fs_init returns the error of an ATE it meets before the first      *)
(* empty one, so that the mount fails.                                     *)
AtesFail(c) ==
  \E a \in Slot : CrcBelow(c[a]) /\ \A b \in a..SectorSize - 1 : c[b] # Blank

Mountable(f) ==
  /\ Started(f) # {} /\ ~ StartsFail(f)
  /\ ~ AtesFail(f[FsCheck(f)])

(* Otherwise a is where its scan for the first empty ATE ends ...          *)
\* Mutant: the scan stops at the first ATE whose CRC is wrong.
IsAteEnd_AtTorn(c, a) ==
  /\ \A b \in Slot : b > a => IsAte(c, b)
  /\ ~ IsAte(c, a) \/ a = 1

IsAteEnd(c, a) ==
  /\ \A b \in Slot : b > a => c[b] # Blank
  /\ c[a] = Blank \/ a = 1

(* ... d is the end of the data of the last valid ATE it passed ...        *)
AteEnd(ate) == ate.offset + ate.len

IsLastAteEnd(c, a, d) ==
  LET passed == {p \in Slot : p >= a /\ IsAte(c, p)}
  IN  \/ passed = {} /\ d = 1
      \/ \E p \in passed : /\ \A q \in passed : p <= q
                           /\ d = AteEnd(c[p])

(* ... and d is raised over the blocks that hold data without an ATE.      *)
\* Mutant: data that has no ATE yet is not looked for.
IsDataEnd_AteOnly(c, a, d) == IsLastAteEnd(c, a, d)

IsDataEnd(c, a, d) ==
  \E d0 \in 1..SectorSize :
    /\ IsLastAteEnd(c, a, d0)
    /\ d >= d0
    /\ \A b \in Block : d <= b /\ b < a => c[b] = Blank
    /\ d # d0 => d <= a /\ c[d - 1] # Blank

-----------------------------------------------------------------------------
(* The walk of sfcb_next_loc goes from the sector after the write sector   *)
(* round to the write sector: Age is the order in which it meets sectors.  *)
Age(wr, s) == (s - wr - 1) % NSectors

LaterEntry(f, wr, s, a, i) ==
  \E t \in Sector : \E b \in Entries(f[t]) :
     /\ f[t][b].id = i
     /\ Age(wr, t) > Age(wr, s) \/ (t = s /\ b < a)

(* The copies the compress routine (src/sfcb/tests/src/main.c) still has   *)
(* to make when its location has reached slot c of the compress sector.    *)
\* Mutant: an earlier entry of the same sector counts as a later one.
ToCopy_AnyOther(c) ==
  LET cs == NextSector(wr_sector)
  IN  {a \in Entries(flash[cs]) :
         /\ a < c
         /\ flash[cs][a].id \in KeepIds
         /\ ~ LaterEntry(flash, wr_sector, cs, a, flash[cs][a].id)
         /\ \A b \in Entries(flash[cs]) :
              b # a => flash[cs][b].id # flash[cs][a].id}

ToCopy(c) ==
  LET cs == NextSector(wr_sector)
  IN  {a \in Entries(flash[cs]) :
         /\ a < c
         /\ flash[cs][a].id \in KeepIds
         /\ ~ LaterEntry(flash, wr_sector, cs, a, flash[cs][a].id)}

(* sfcb_init_loc: "Always leave space for empty ATE".                      *)
Fits(len) == wr_ate_offset - wr_data_offset >= len + 1

-----------------------------------------------------------------------------
(* Where control goes.  Variables nothing reads until they are assigned    *)
(* again get a fixed value.                                                *)
Rest(place) ==
  /\ at' = place /\ caller' = "none" /\ req' = NoReq
  /\ nscnt' = 0 /\ cur' = 0 /\ pos' = 0

ForgetRam ==
  /\ wr_sector' = 0 /\ wr_sector_id' = 0
  /\ wr_ate_offset' = 1 /\ wr_data_offset' = 1

(* fs->flash_device == NULL *)
Down == Rest("down") /\ ForgetRam
Idle == Rest("idle") /\ UNCHANGED ram

Init ==
  /\ flash = [s \in Sector |-> BlankSector]
  /\ at = "down" /\ caller = "none" /\ req = NoReq
  /\ nscnt = 0 /\ cur = 0 /\ pos = 0
  /\ wr_sector = 0 /\ wr_sector_id = 0
  /\ wr_ate_offset = 1 /\ wr_data_offset = 1

-----------------------------------------------------------------------------
(* sfcb_mount up to the call of fs->compress; when it fails it changes     *)
(* nothing that is read again.                                             *)
\* Mutant: a compress that power loss cut short is not done again.
Mount_NoCompress ==
  /\ at = "down" /\ Mountable(flash)
  /\ \E w \in Started(flash), a \in Slot, d \in 1..SectorSize :
       /\ w = FsCheck(flash)
       /\ IsAteEnd(flash[w], a)
       /\ IsDataEnd(flash[w], a, d)
       /\ wr_sector' = w
       /\ wr_sector_id' = (flash[w][0].sec_id + 1) % SecIdMod
       /\ wr_ate_offset' = a
       /\ wr_data_offset' = d
  /\ at' = "idle"
  /\ UNCHANGED <<flash, caller, req, nscnt, cur, pos>>

Mount ==
  /\ at = "down" /\ Mountable(flash)
  /\ \E w \in Started(flash), a \in Slot, d \in 1..SectorSize :
       /\ w = FsCheck(flash)
       /\ IsAteEnd(flash[w], a)
       /\ IsDataEnd(flash[w], a, d)
       /\ wr_sector' = w
       /\ wr_sector_id' = (flash[w][0].sec_id + 1) % SecIdMod
       /\ wr_ate_offset' = a
       /\ wr_data_offset' = d
  /\ IF HasCompress
       THEN at' = "compress" /\ caller' = "mount" /\ cur' = SectorSize
       ELSE at' = "idle" /\ UNCHANGED <<caller, cur>>
  /\ UNCHANGED <<flash, req, nscnt, pos>>

Unmount == at = "idle" /\ Down /\ UNCHANGED flash

(* sfcb_format; the client calls it when mounting fails, tests at any time *)
FormatCall ==
  /\ at = "down"
  /\ AnyFormat \/ ~ Mountable(flash)
  /\ at' = "format"
  /\ UNCHANGED <<flash, caller, ram, req, nscnt, cur, pos>>

\* Mutant: only sector 0 is erased.
FormatErases_First(s) == s = 0

FormatErases(s) == s = 0 \/ flash[s][SectorSize - 1] # Blank

FormatSector ==
  /\ at = "format" /\ cur < NSectors
  /\ IF FormatErases(cur)
       THEN flash' = [flash EXCEPT ![cur] = BlankSector]
       ELSE UNCHANGED flash
  /\ cur' = cur + 1
  /\ UNCHANGED <<at, caller, ram, req, nscnt, pos>>

FormatDone ==
  /\ at = "format" /\ cur = NSectors
  /\ Program(0, 0, StartOf(0))
  /\ Down

-----------------------------------------------------------------------------
(* The call of sfcb_new_sector up to the erase.                            *)
\* Mutant: the sector number does not wrap.
GoNewSector_NoWrap(from) ==
  /\ at' = "erase" /\ caller' = from
  /\ wr_sector' = wr_sector + 1
  /\ UNCHANGED <<wr_ate_offset, wr_data_offset>>

GoNewSector(from) ==
  /\ at' = "erase" /\ caller' = from
  /\ wr_sector' = NextSector(wr_sector)
  /\ UNCHANGED <<wr_ate_offset, wr_data_offset>>

Open(r) ==
  /\ at = "idle"
  /\ req' = r
  /\ IF Fits(r.len)
       THEN at' = "write" /\ UNCHANGED <<caller, ram>>
       ELSE GoNewSector("open") /\ UNCHANGED wr_sector_id
  /\ UNCHANGED <<flash, nscnt, cur, pos>>

Erase ==
  /\ at = "erase"
  /\ flash' = [flash EXCEPT ![wr_sector] = BlankSector]
  /\ at' = "start"
  /\ UNCHANGED <<caller, ram, req, nscnt, cur, pos>>

(* sfcb_init_sector *)
InitSector ==
  /\ at = "start"
  /\ Program(wr_sector, 0, StartOf(wr_sector_id))
  /\ wr_sector_id' = (wr_sector_id + 1) % SecIdMod
  /\ wr_ate_offset' = SectorSize - 1
  /\ wr_data_offset' = 1
  /\ IF HasCompress
       THEN at' = "compress" /\ cur' = SectorSize
       ELSE at' = "retry" /\ UNCHANGED cur
  /\ UNCHANGED <<caller, wr_sector, req, nscnt, pos>>

(* Back in the loop of sfcb_open_loc after fs->compress.                   *)
\* Mutant: the sectors started are not counted.
Retry_NoCount ==
  /\ at = "retry"
  /\ IF Fits(req.len)
       THEN /\ at' = "write" /\ caller' = "none" /\ nscnt' = 0
            /\ UNCHANGED ram
       ELSE GoNewSector("open") /\ UNCHANGED <<wr_sector_id, nscnt>>
  /\ UNCHANGED <<flash, req, cur, pos>>

Retry ==
  /\ at = "retry"
  /\ IF nscnt + 1 = NSectors
       THEN Idle                                         \* -ENOMEM
       ELSE /\ IF Fits(req.len)
                 THEN /\ at' = "write" /\ caller' = "none" /\ nscnt' = 0
                      /\ UNCHANGED ram
                 ELSE /\ GoNewSector("open") /\ nscnt' = nscnt + 1
                      /\ UNCHANGED wr_sector_id
            /\ UNCHANGED <<req, cur, pos>>
  /\ UNCHANGED flash

-----------------------------------------------------------------------------
(* What the callers of fs->compress do with its result: sfcb_open_loc      *)
(* ignores it, sfcb_fs_init starts the write sector anew and tries once    *)
(* more, then the mount fails.                                             *)
CompressReturns(ok) ==
  \/ /\ caller = "open"
     /\ at' = "retry" /\ pos' = 0 /\ cur' = 0
     /\ UNCHANGED <<caller, ram, req, nscnt>>
  \/ ok /\ caller # "open" /\ Idle
  \/ /\ ~ok /\ caller = "mount"
     /\ at' = "erase" /\ caller' = "remount" /\ pos' = 0 /\ cur' = 0
     /\ wr_sector_id' = (wr_sector_id - 1) % SecIdMod
     /\ UNCHANGED <<wr_sector, wr_ate_offset, wr_data_offset, req, nscnt>>
  \/ ~ok /\ caller = "remount" /\ Down

(* The compress routine finds nothing more to copy.                        *)
CompressDone ==
  /\ at = "compress" /\ ToCopy(cur) = {}
  /\ CompressReturns(TRUE)
  /\ UNCHANGED flash

(* Its walk meets the next entry to keep: sfcb_copy_loc calls              *)
(* sfcb_init_loc, which may find no room.                                  *)
CompressNext ==
  /\ at = "compress"
  /\ \E a \in ToCopy(cur) :
       /\ \A b \in ToCopy(cur) : b <= a
       /\ IF Fits(flash[NextSector(wr_sector)][a].len)
            THEN /\ at' = "copy" /\ cur' = a /\ pos' = 0
                 /\ UNCHANGED <<caller, ram, req, nscnt>>
            ELSE CompressReturns(FALSE)
  /\ UNCHANGED flash

Source == flash[NextSector(wr_sector)][cur]     \* loc_compress

(* sfcb_copy_loc: one block of the data ...                                *)
CopyBlock ==
  /\ at = "copy" /\ pos < Source.len
  /\ Program(wr_sector, wr_data_offset + pos,
             flash[NextSector(wr_sector)][Source.offset + pos])
  /\ pos' = pos + 1
  /\ UNCHANGED <<at, caller, ram, req, nscnt, cur>>

(* ... and sfcb_close_loc_no_unlock: the ATE, then the offsets.            *)
\* Mutant: the next data goes where this went.
CloseAs_SameOffset(i, len) ==
  /\ Program(wr_sector, wr_ate_offset, Ate(i, wr_data_offset, len))
  /\ wr_ate_offset' = wr_ate_offset - 1
  /\ UNCHANGED <<wr_sector, wr_sector_id, wr_data_offset>>

CloseAs(i, len) ==
  /\ Program(wr_sector, wr_ate_offset, Ate(i, wr_data_offset, len))
  /\ wr_data_offset' = wr_data_offset + len
  /\ wr_ate_offset' = wr_ate_offset - 1
  /\ UNCHANGED <<wr_sector, wr_sector_id>>

CopyClose ==
  /\ at = "copy" /\ pos = Source.len
  /\ CloseAs(Source.id, Source.len)
  /\ at' = "compress" /\ pos' = 0
  /\ UNCHANGED <<caller, req, nscnt, cur>>

-----------------------------------------------------------------------------
(* sfcb_write_loc, one block, and sfcb_close_loc                           *)
WriteBlock ==
  /\ at = "write" /\ pos < req.len
  /\ Program(wr_sector, wr_data_offset + pos, Data(req.val))
  /\ pos' = pos + 1
  /\ UNCHANGED <<at, caller, ram, req, nscnt, cur>>

Close ==
  /\ at = "write" /\ pos = req.len
  /\ CloseAs(req.id, req.len)
  /\ Rest("idle")

-----------------------------------------------------------------------------
(* The block the current step programs, as <<sector, block>>.              *)
Target ==
  CASE at = "start"  -> <<wr_sector, 0>>
    [] at = "copy"   -> <<wr_sector, IF pos < Source.len
                                     THEN wr_data_offset + pos
                                     ELSE wr_ate_offset>>
    [] at = "write"  -> <<wr_sector, IF pos < req.len
                                     THEN wr_data_offset + pos
                                     ELSE wr_ate_offset>>
    [] at = "format" -> <<0, 0>>

Programming == \/ at \in {"start", "copy", "write"}
               \/ at = "format" /\ cur = NSectors

(* Power fails: the flash is as it was, or the step under way is half done *)
PowerLoss ==
  /\ at # "down"
  /\ \/ UNCHANGED flash
     \/ Programming /\ ProgramTorn(Target[1], Target[2])
     \/ \E p \in PartialErases, s \in Sector :
          /\ \/ at = "erase" /\ s = wr_sector
             \/ at = "format" /\ s = cur /\ FormatErases(s)
          /\ flash' = [flash EXCEPT ![s] = Erased(@, p)]
  /\ Down

(* A flash driver call returns an error, and the call it was made for too. *)
FlashError ==
  /\ \/ /\ "erase" \in IoErrors /\ UNCHANGED flash
        /\ at = "erase" \/ (at = "format" /\ cur < NSectors /\ FormatErases(cur))
     \/ /\ "program" \in IoErrors /\ Programming
        /\ UNCHANGED flash \/ ProgramTorn(Target[1], Target[2])
  /\ IF at = "copy" THEN CompressReturns(FALSE)
     ELSE IF at = "format" \/ caller = "remount" THEN Down
     ELSE Idle

-----------------------------------------------------------------------------
Client == Mount \/ Unmount \/ FormatCall \/ \E r \in Request : Open(r)

Step == \/ FormatSector \/ FormatDone \/ Erase \/ InitSector \/ Retry
        \/ CompressDone \/ CompressNext \/ CopyBlock \/ CopyClose
        \/ WriteBlock \/ Close

Next == Client \/ Step \/ PowerLoss \/ FlashError

Spec == Init /\ [][Next]_vars

(* The code runs on until a call returns; nothing makes the client call,   *)
(* and power may fail for ever.                                            *)
FairSpec == Spec /\ WF_vars(Step)

-----------------------------------------------------------------------------
(* Every variable has its type; offsets stay inside the sector.            *)
TypeOK ==
  /\ flash \in [Sector -> [Block -> Cell]]
  /\ at \in {"down", "idle", "format", "erase", "start", "compress", "retry",
             "copy", "write"}
  /\ caller \in {"none", "open", "mount", "remount"}
  /\ wr_sector \in Sector
  /\ wr_sector_id \in SecId
  /\ wr_ate_offset \in Slot
  /\ wr_data_offset \in 1..SectorSize
  /\ req \in Request \cup {NoReq}
  /\ nscnt \in Nat /\ cur \in Nat /\ pos \in Nat

(* The walk of every reader ends: sfcb_next_loc reports the end of the     *)
(* file system only at the slot wr_ate_offset of the write sector, so that *)
(* slot is where its walk down the write sector comes to a blank one.      *)
WalkStops ==
  at \in {"idle", "compress", "copy", "retry", "write"}
    => /\ IsAteEnd(flash[wr_sector], wr_ate_offset)
       /\ flash[wr_sector][wr_ate_offset] = Blank

(* Everything from the end of the data up to and including the slot of the *)
(* next ATE is blank, but for the blocks the location being written has    *)
(* already received.                                                       *)
FreeSpace ==
  at \in {"idle", "compress", "copy", "retry", "write"}
    => \A b \in Block :
         wr_data_offset + pos <= b /\ b <= wr_ate_offset
            => flash[wr_sector][b] = Blank

(* Flash is only programmed where it is erased: sfcb relies on it and      *)
(* nothing in the flash driver checks it.                                  *)
NoOverwrite ==
  [][\A s \in Sector, b \in Block :
       \/ flash'[s][b] = flash[s][b]
       \/ flash[s][b] = Blank
       \/ flash'[s][b] = Blank]_vars

(* The data of two entries of a sector does not overlap and none reaches   *)
(* the sector start or the ATEs.                                           *)
EntriesDisjoint ==
  \A s \in Sector : \A p \in Entries(flash[s]) :
    /\ flash[s][p].offset >= 1
    /\ AteEnd(flash[s][p]) < p
    /\ \A q \in Entries(flash[s]) :
         p < q => AteEnd(flash[s][q]) <= flash[s][p].offset

(* sfcb_mount would succeed, and work out from the flash what              *)
(* sfcb_close_loc, sfcb_init_sector and sfcb_new_sector keep in RAM.       *)
MountAgrees ==
  at = "idle" =>
    /\ Mountable(flash)
    /\ FsCheck(flash) = wr_sector
    /\ wr_sector_id = (flash[wr_sector][0].sec_id + 1) % SecIdMod
    /\ IsAteEnd(flash[wr_sector], wr_ate_offset)
    /\ IsDataEnd(flash[wr_sector], wr_ate_offset, wr_data_offset)

(* A file system that sfcb_mount accepts, or sfcb_format has made, is one  *)
(* it accepts after every step and after every power failure: between an   *)
(* erase and the next sector start, and with a start or an ATE torn, the   *)
(* client never has to format what it stored.                              *)
StaysMountable ==
  [][FormatDone \/ Mountable(flash) => Mountable(flash')]_vars

(* A sector is erased by sfcb_open_loc only when a later entry exists for  *)
(* every entry of it that the compress routine is to keep.                 *)
CopiedBeforeErase ==
  at = "erase" /\ caller = "open" /\ HasCompress =>
    \A a \in Entries(flash[wr_sector]) :
      LET i == flash[wr_sector][a].id
      IN  i \in KeepIds => LaterEntry(flash, (wr_sector - 1) % NSectors,
                                      wr_sector, a, i)

(* What sfcb_close_loc adds to the walk holds the data that was handed to  *)
(* sfcb_write_loc, whatever happened to earlier locations.                 *)
ClosedIsWritten ==
  [][at = "write" /\ pos = req.len /\ wr_ate_offset' = wr_ate_offset - 1
       => \A k \in 0..req.len - 1 :
            flash'[wr_sector][wr_data_offset + k] = Data(req.val)]_vars

(* Every call returns: sfcb_open_loc, with the erasing and compressing it  *)
(* may do, ends in an open location or an error, and a mount or a format   *)
(* ends too, unless power is lost on the way.                              *)
CallsReturn == []<>(at \in {"idle", "down"})
=============================================================================
