----------------------------- MODULE SfcbProofs -----------------------------
(***************************************************************************)
(* Proofs about the flash circular buffer, for every number and size of    *)
(* sectors, every set of identifiers and lengths, and every way in which   *)
(* an erase may be cut off, as long as the flash driver returns no error.  *)
(***************************************************************************)
EXTENDS Sfcb, TLAPS

(***************************************************************************)
(* What holds of every single sector, mounted or not: there is a blank     *)
(* slot for the walk to stop at, and the entries it meets do not overlap.  *)
(***************************************************************************)
Disjoint(c) ==
  \A p \in Entries(c) :
    /\ c[p].offset >= 1
    /\ AteEnd(c[p]) < p
    /\ \A q \in Entries(c) : p < q => AteEnd(c[q]) <= c[p].offset

SectorSound(c) == (\E e \in Slot : c[e] = Blank) /\ Disjoint(c)

AllSound == \A s \in Sector : SectorSound(flash[s])

Mounted == at \in {"idle", "compress", "copy", "retry", "write"}

(* Data is written above that of every entry of the write sector.          *)
EntriesBelow ==
  Mounted => \A p \in Entries(flash[wr_sector]) :
               AteEnd(flash[wr_sector][p]) <= wr_data_offset

(* What each place in the code may rely on.                                *)
Control ==
  /\ at \in {"erase", "start", "compress", "copy", "retry"}
       => caller # "none"
  /\ at \in {"compress", "copy"} \/ caller \in {"mount", "remount"}
       => HasCompress
  /\ at = "retry" => caller = "open"
  /\ caller = "open" \/ at = "write" => req \in Request
  /\ at \notin {"write", "copy"} => pos = 0
  /\ at = "down" => cur = 0
  /\ at = "write" => pos <= req.len /\ Fits(req.len)
  /\ at = "copy" => /\ cur \in Entries(flash[NextSector(wr_sector)])
                    /\ pos <= Source.len
                    /\ Fits(Source.len)
  /\ at = "start" => flash[wr_sector] = BlankSector
  /\ at = "format" => /\ cur <= NSectors
                      /\ cur > 0 => flash[0] = BlankSector

(* The inductive invariant.                                                *)
IInv == TypeOK /\ AllSound /\ WalkStops /\ FreeSpace /\ EntriesBelow /\ Control

-----------------------------------------------------------------------------
(* Cells.                                                                  *)

LEMMA CellKind ==
  ASSUME NEW c \in Cell, c.kind = "ate"
  PROVE  /\ c \in AteCell /\ c # Blank
         /\ c.offset \in Block /\ c.len \in Lens /\ c.id \in Ids
         /\ c.offset \in Int /\ c.len \in Nat
<1>1. c \in AteCell /\ c # Blank
  BY DEF Cell, StartCell, DataCell, TornCell, Blank
<1>2. \A x \in AteCell : x.offset \in Block /\ x.len \in Lens /\ x.id \in Ids
  BY Zenon DEF AteCell
<1>3. c.offset \in Block /\ c.len \in Lens /\ c.id \in Ids
  BY <1>1, <1>2
<1>4. Block \subseteq Int /\ Lens \subseteq Nat
  BY SizesAssumption DEF Block
<1> QED BY <1>1, <1>3, <1>4

LEMMA StartKind ==
  ASSUME NEW c \in Cell, c.kind = "start"
  PROVE  c.sec_id \in SecId
<1>1. c \in StartCell
  BY DEF Cell, AteCell, StartCell, DataCell, TornCell, Blank
<1>2. \A x \in StartCell : x.sec_id \in SecId
  BY Zenon DEF StartCell
<1> QED BY <1>1, <1>2

LEMMA BlankKind == Blank \in Cell /\ Blank.kind = "blank"
  BY DEF Blank, Cell

LEMMA TornKind ==
  ASSUME NEW x \in TornCell
  PROVE  x \in Cell /\ x.kind = "torn" /\ x # Blank
  BY DEF Blank, TornCell, Cell

LEMMA AteKind ==
  ASSUME NEW i \in Ids, NEW o \in Block, NEW n \in Lens
  PROVE  /\ Ate(i, o, n) \in Cell /\ Ate(i, o, n).kind = "ate"
         /\ Ate(i, o, n).offset = o /\ Ate(i, o, n).len = n
         /\ Ate(i, o, n) # Blank
  BY DEF Ate, Cell, AteCell, Blank

LEMMA ProgramBlank ==
  ASSUME NEW s, NEW b, NEW x, Program(s, b, x), flash[s][b] = Blank
  PROVE  flash' = [flash EXCEPT ![s] = [flash[s] EXCEPT ![b] = x]]
<1>1. PICK y \in Programmed(flash[s][b], x) :
        flash' = [flash EXCEPT ![s] = [flash[s] EXCEPT ![b] = y]]
  BY DEF Program
<1>2. y = x
  BY DEF Programmed
<1> QED BY <1>1, <1>2

LEMMA NextIsSector ==
  ASSUME NEW s \in Sector
  PROVE  /\ NextSector(s) \in Sector
         /\ NSectors > 1 => NextSector(s) # s
  BY SizesAssumption DEF NextSector, Sector

-----------------------------------------------------------------------------
(* Sectors.                                                                *)

LEMMA BlankSound == SectorSound(BlankSector) /\ Entries(BlankSector) = {}
<1>1. Entries(BlankSector) = {}
  BY BlankKind, SizesAssumption DEF Entries, IsAte, BlankSector, Slot, Block
<1>2. 1 \in Slot /\ BlankSector[1] = Blank
  BY SizesAssumption DEF BlankSector, Slot, Block
<1> QED BY <1>1, <1>2 DEF SectorSound, Disjoint

(* The entries of a sector whose walk stops at slot w.                     *)
LEMMA EntriesAbove ==
  ASSUME NEW c, NEW w \in Slot, c[w] = Blank, IsAteEnd(c, w)
  PROVE  Entries(c) = {p \in Slot : p > w /\ IsAte(c, p)}
  BY SizesAssumption, BlankKind DEF Entries, IsAteEnd, IsAte, Slot

(* An interrupted erase takes entries off the walk and leaves the rest.    *)
LEMMA ErasedSound ==
  ASSUME NEW c \in [Block -> Cell], SectorSound(c), NEW P
  PROVE  SectorSound(Erased(c, P)) /\ Erased(c, P) \in [Block -> Cell]
<1> DEFINE d == Erased(c, P)
<1>1. \A b \in Block : d[b] = c[b] \/ d[b] = Blank
  BY DEF Erased
<1>2. d \in [Block -> Cell]
  BY BlankKind DEF Erased
<1>3. \A p \in Entries(d) : p \in Entries(c) /\ d[p] = c[p]
  BY <1>1, BlankKind, SizesAssumption DEF Entries, IsAte, Slot, Block
<1>4. PICK e \in Slot : c[e] = Blank
  BY DEF SectorSound
<1>5. d[e] = Blank
  BY <1>1, <1>4 DEF Slot, Block
<1>6. Disjoint(d)
  BY <1>3 DEF SectorSound, Disjoint
<1> QED BY <1>2, <1>4, <1>5, <1>6 DEF SectorSound

(* Programming a block below the slot the walk stops at changes no entry.  *)
LEMMA DataSound ==
  ASSUME NEW c \in [Block -> Cell], SectorSound(c),
         NEW w \in Slot, c[w] = Blank, IsAteEnd(c, w),
         NEW b \in Block, b < w, NEW x \in Cell
  PROVE  LET d == [c EXCEPT ![b] = x]
         IN  /\ SectorSound(d)
             /\ Entries(d) = Entries(c)
             /\ \A p \in Entries(c) : d[p] = c[p]
             /\ IsAteEnd(d, w) /\ d[w] = Blank
<1> DEFINE d == [c EXCEPT ![b] = x]
<1>1. \A k \in Block : k # b => d[k] = c[k]
  OBVIOUS
<1>2. w \in Block /\ b # w /\ d[w] = Blank
  BY <1>1, SizesAssumption DEF Slot, Block
<1>3. IsAteEnd(d, w)
  BY <1>1, <1>2, SizesAssumption DEF IsAteEnd, Slot, Block
<1>4. Entries(c) = {p \in Slot : p > w /\ IsAte(c, p)}
  BY EntriesAbove
<1>5. Entries(d) = {p \in Slot : p > w /\ IsAte(d, p)}
  BY <1>2, <1>3, EntriesAbove
<1>6. \A p \in Slot : p > w => d[p] = c[p]
  BY <1>1, SizesAssumption DEF Slot, Block
<1>7. Entries(d) = Entries(c) /\ \A p \in Entries(c) : d[p] = c[p]
  BY <1>4, <1>5, <1>6 DEF IsAte
<1>8. SectorSound(d)
  BY <1>2, <1>7 DEF SectorSound, Disjoint
<1> QED BY <1>2, <1>3, <1>7, <1>8

(* A half-written ATE is skipped: the walk stops one slot further down.    *)
LEMMA TornAteSound ==
  ASSUME NEW c \in [Block -> Cell], SectorSound(c),
         NEW w \in Slot, c[w] = Blank, IsAteEnd(c, w),
         w - 1 \in Slot, c[w - 1] = Blank,
         NEW x \in TornCell
  PROVE  SectorSound([c EXCEPT ![w] = x])
<1> DEFINE d == [c EXCEPT ![w] = x]
<1>1. \A k \in Block : k # w => d[k] = c[k]
  OBVIOUS
<1>2. w \in Block /\ w - 1 \in Block /\ w - 1 # w
  BY SizesAssumption DEF Slot, Block
<1>3. d[w] = x /\ d[w - 1] = Blank
  BY <1>1, <1>2
<1>4. IsAteEnd(d, w - 1)
  BY <1>1, <1>3, TornKind, SizesAssumption DEF IsAteEnd, Slot, Block
<1>5. Entries(d) = {p \in Slot : p > w - 1 /\ IsAte(d, p)}
  BY <1>3, <1>4, EntriesAbove
<1>6. Entries(c) = {p \in Slot : p > w /\ IsAte(c, p)}
  BY EntriesAbove
<1>7. \A p \in Entries(d) : p \in Entries(c) /\ d[p] = c[p]
  BY <1>1, <1>3, <1>5, <1>6, TornKind, SizesAssumption
     DEF IsAte, Slot, Block
<1>8. Disjoint(d)
  BY <1>7 DEF SectorSound, Disjoint
<1> QED BY <1>3, <1>8 DEF SectorSound

(* Closing a location adds one entry, below and beyond all the others.     *)
LEMMA CloseSound ==
  ASSUME NEW c \in [Block -> Cell], SectorSound(c),
         NEW w \in Slot, c[w] = Blank, IsAteEnd(c, w),
         w - 1 \in Slot, c[w - 1] = Blank,
         NEW i \in Ids, NEW o \in Block, NEW n \in Lens,
         o >= 1, o + n < w,
         \A p \in Entries(c) : AteEnd(c[p]) <= o
  PROVE  LET d == [c EXCEPT ![w] = Ate(i, o, n)]
         IN  /\ SectorSound(d)
             /\ IsAteEnd(d, w - 1) /\ d[w - 1] = Blank
             /\ \A p \in Entries(d) : AteEnd(d[p]) <= o + n
<1> DEFINE d == [c EXCEPT ![w] = Ate(i, o, n)]
<1>0. n \in Nat /\ o \in Nat /\ w \in Nat
  BY SizesAssumption DEF Block, Slot
<1>1. \A k \in Block : k # w => d[k] = c[k]
  OBVIOUS
<1>2. w \in Block /\ w - 1 \in Block /\ w - 1 # w
  BY SizesAssumption DEF Slot, Block
<1>3. d[w] = Ate(i, o, n) /\ d[w - 1] = Blank
  BY <1>1, <1>2
<1>4. IsAteEnd(d, w - 1)
  BY <1>1, <1>3, AteKind, SizesAssumption DEF IsAteEnd, Slot, Block
<1>5. Entries(d) = {p \in Slot : p > w - 1 /\ IsAte(d, p)}
  BY <1>3, <1>4, EntriesAbove
<1>6. Entries(c) = {p \in Slot : p > w /\ IsAte(c, p)}
  BY EntriesAbove
<1>7. \A p \in Entries(d) : p = w \/ (p \in Entries(c) /\ d[p] = c[p])
  BY <1>1, <1>5, <1>6, SizesAssumption DEF IsAte, Slot, Block
<1>8. \A p \in Entries(c) : p > w /\ p \in Slot /\ c[p] \in Cell
                            /\ c[p].kind = "ate"
  BY <1>6, SizesAssumption DEF IsAte, Slot, Block
<1>9. d[w].offset = o /\ AteEnd(d[w]) = o + n
  BY <1>3, AteKind DEF AteEnd
<1>10. \A p \in Entries(d) : AteEnd(d[p]) <= o + n
  <2> TAKE p \in Entries(d)
  <2>1. CASE p = w
    BY <2>1, <1>9, <1>0
  <2>2. CASE p \in Entries(c) /\ d[p] = c[p]
    <3>1. AteEnd(c[p]) \in Int
      BY <2>2, <1>8, CellKind DEF AteEnd
    <3> QED BY <3>1, <2>2, <1>0
  <2> QED BY <2>1, <2>2, <1>7
<1>11. ASSUME NEW p \in Entries(d)
       PROVE  /\ d[p].offset >= 1
              /\ AteEnd(d[p]) < p
              /\ \A q \in Entries(d) : p < q => AteEnd(d[q]) <= d[p].offset
  <2>1. CASE p = w
    <3>1. \A q \in Entries(d) : p < q => q \in Entries(c) /\ d[q] = c[q]
      <4> HIDE DEF d
      <4> QED BY <2>1, <1>7, <1>0
    <3>2. \A q \in Entries(d) : p < q => AteEnd(d[q]) <= o
      BY <3>1
    <3>3. d[p].offset = o /\ AteEnd(d[p]) = o + n
      BY <2>1, <1>9
    <3>4. o >= 1 /\ o + n < p
      BY <2>1
    <3> HIDE DEF d
    <3> QED BY <3>2, <3>3, <3>4
  <2>2. CASE p \in Entries(c) /\ d[p] = c[p]
    <3>0. p > w /\ p \in Int
      BY <2>2, <1>8, SizesAssumption DEF Slot
    <3>1. \A q \in Entries(d) : p < q => q \in Entries(c) /\ d[q] = c[q]
      <4> HIDE DEF d
      <4> QED BY <3>0, <1>7, <1>0
    <3> QED BY <2>2, <3>1 DEF SectorSound, Disjoint
  <2> QED BY <2>1, <2>2, <1>7
<1>12. SectorSound(d)
  BY <1>3, <1>11 DEF SectorSound, Disjoint
<1> QED BY <1>3, <1>4, <1>10, <1>12

(* What sfcb_fs_init works out: the slot is blank, the data of every entry *)
(* ends below the data offset and the space between the two is blank.      *)
LEMMA MountSound ==
  ASSUME NEW c \in [Block -> Cell], SectorSound(c),
         NEW a \in Slot, IsAteEnd(c, a),
         NEW d \in 1..SectorSize, IsDataEnd(c, a, d)
  PROVE  /\ c[a] = Blank
         /\ \A p \in Entries(c) : AteEnd(c[p]) <= d
         /\ \A b \in Block : d <= b /\ b <= a => c[b] = Blank
<1>1. c[a] = Blank
  BY SizesAssumption DEF SectorSound, IsAteEnd, Slot
<1>2. Entries(c) = {p \in Slot : p > a /\ IsAte(c, p)}
  BY <1>1, EntriesAbove
<1>3. PICK d0 \in 1..SectorSize :
        /\ IsLastAteEnd(c, a, d0)
        /\ d >= d0
        /\ \A b \in Block : d <= b /\ b < a => c[b] = Blank
  BY DEF IsDataEnd
<1>4. {p \in Slot : p >= a /\ IsAte(c, p)} = Entries(c)
  BY <1>1, <1>2, BlankKind, SizesAssumption DEF IsAte, Slot
<1>5. \A p \in Entries(c) : /\ p \in Slot /\ p \in Int
                            /\ c[p].offset \in Int /\ c[p].len \in Nat
                            /\ AteEnd(c[p]) \in Int
  BY <1>2, CellKind, SizesAssumption DEF AteEnd, IsAte, Slot, Block
<1>6. \A p \in Entries(c) : AteEnd(c[p]) <= d0
  <2> TAKE p \in Entries(c)
  <2>1. PICK l \in Entries(c) : (\A q \in Entries(c) : l <= q)
                                /\ d0 = AteEnd(c[l])
    BY <1>3, <1>4 DEF IsLastAteEnd
  <2>2. CASE p = l
    BY <2>1, <2>2, <1>5
  <2>3. CASE p # l
    <3>1. l < p
      BY <2>1, <2>3, <1>5
    <3>2. AteEnd(c[p]) <= c[l].offset
      BY <3>1 DEF SectorSound, Disjoint
    <3> QED BY <2>1, <3>2, <1>5 DEF AteEnd
  <2> QED BY <2>2, <2>3
<1>7. \A p \in Entries(c) : AteEnd(c[p]) <= d
  BY <1>3, <1>5, <1>6
<1>8. \A b \in Block : d <= b /\ b <= a => c[b] = Blank
  BY <1>1, <1>3, SizesAssumption DEF Block, Slot
<1> QED BY <1>1, <1>7, <1>8

-----------------------------------------------------------------------------
(* Steps.                                                                  *)

LEMMA SecIds == \A n \in Int : n % SecIdMod \in SecId
  BY SizesAssumption DEF SecId

LEMMA InitInv == Init => IInv
<1> SUFFICES ASSUME Init PROVE IInv
  OBVIOUS
<1>1. TypeOK
  BY SizesAssumption, BlankKind
     DEF Init, TypeOK, BlankSector, Sector, Slot, SecId
<1>2. AllSound
  BY BlankSound DEF Init, AllSound
<1>3. WalkStops /\ FreeSpace /\ EntriesBelow /\ Control
  BY DEF Init, WalkStops, FreeSpace, EntriesBelow, Mounted, Control
<1> QED BY <1>1, <1>2, <1>3 DEF IInv

(* Only at, caller, req, nscnt, cur and pos may change.                    *)
LEMMA QuietStep ==
  ASSUME IInv, UNCHANGED <<flash, ram>>,
         Mounted' => Mounted /\ pos' = pos
  PROVE  AllSound' /\ WalkStops' /\ FreeSpace' /\ EntriesBelow'
<1>1. AllSound'
  BY DEF IInv, AllSound
<1>2. ASSUME Mounted'
      PROVE  WalkStops' /\ FreeSpace' /\ EntriesBelow'
  BY <1>2 DEF IInv, Mounted, WalkStops, FreeSpace, EntriesBelow, ram
<1>3. ~ Mounted' => WalkStops' /\ FreeSpace' /\ EntriesBelow'
  BY DEF Mounted, WalkStops, FreeSpace, EntriesBelow
<1> QED BY <1>1, <1>2, <1>3

(* A step after which the file system is not usable only has to leave the  *)
(* flash sound.                                                            *)
LEMMA Unusable ==
  ASSUME ~ Mounted'
  PROVE  WalkStops' /\ FreeSpace' /\ EntriesBelow'
  BY DEF Mounted, WalkStops, FreeSpace, EntriesBelow

(* Power loss, failed mounts and the end of formatting.                    *)
LEMMA DownInv ==
  ASSUME Down, flash' \in [Sector -> [Block -> Cell]], AllSound'
  PROVE  IInv'
<1>1. TypeOK'
  BY SizesAssumption DEF Down, Rest, ForgetRam, TypeOK, Sector, Slot, SecId
<1>2. ~ Mounted'
  BY DEF Down, Rest, Mounted
<1>3. Control'
  BY DEF Down, Rest, Control
<1> QED BY <1>1, <1>2, <1>3, Unusable DEF IInv

LEMMA IdleInv ==
  ASSUME IInv, Idle, UNCHANGED flash, at \in {"retry", "compress", "idle"}
  PROVE  IInv'
<1>1. TypeOK'
  BY DEF IInv, Idle, Rest, TypeOK, ram
<1>2. pos' = pos /\ Mounted /\ UNCHANGED <<flash, ram>>
  BY DEF IInv, Control, Idle, Rest, Mounted
<1>3. Control'
  BY DEF Idle, Rest, Control
<1> QED BY <1>1, <1>2, <1>3, QuietStep DEF IInv

LEMMA MountInv ==
  ASSUME IInv, Mount
  PROVE  IInv'
<1>1. PICK w \in Started(flash), e \in Slot, d \in 1..SectorSize :
        /\ IsAteEnd(flash[w], e)
        /\ IsDataEnd(flash[w], e, d)
        /\ wr_sector' = w
        /\ wr_sector_id' = (flash[w][0].sec_id + 1) % SecIdMod
        /\ wr_ate_offset' = e
        /\ wr_data_offset' = d
  BY DEF Mount
<1>2. w \in Sector /\ flash[w] \in [Block -> Cell] /\ SectorSound(flash[w])
  BY DEF Started, IInv, TypeOK, AllSound
<1>3. flash[w][0].sec_id \in SecId
  BY <1>2, StartKind, SizesAssumption DEF Started, Block
<1>4. /\ flash[w][e] = Blank
      /\ \A p \in Entries(flash[w]) : AteEnd(flash[w][p]) <= d
      /\ \A b \in Block : d <= b /\ b <= e => flash[w][b] = Blank
  BY <1>1, <1>2, MountSound
<1>5. UNCHANGED <<flash, req, nscnt, pos>> /\ pos = 0 /\ pos' = 0
  BY DEF Mount, IInv, Control
<1>6. TypeOK'
  <2>1. wr_sector_id' \in SecId
    BY <1>1, <1>3, SecIds DEF SecId
  <2> QED BY <1>1, <1>2, <1>5, <2>1, SizesAssumption DEF Mount, IInv, TypeOK
<1>7. AllSound'
  BY <1>5 DEF IInv, AllSound
<1>8. WalkStops'
  BY <1>1, <1>4, <1>5 DEF WalkStops
<1>9. FreeSpace'
  BY <1>1, <1>4, <1>5 DEF FreeSpace
<1>10. EntriesBelow'
  BY <1>1, <1>4, <1>5 DEF EntriesBelow
<1>11. Control'
  BY <1>5 DEF Mount, IInv, Control
<1> QED BY <1>6, <1>7, <1>8, <1>9, <1>10, <1>11 DEF IInv

LEMMA UnmountInv == ASSUME IInv, Unmount PROVE IInv'
<1>1. flash' \in [Sector -> [Block -> Cell]] /\ AllSound'
  BY DEF IInv, Unmount, TypeOK, AllSound
<1> QED BY <1>1, DownInv DEF Unmount

LEMMA FormatCallInv == ASSUME IInv, FormatCall PROVE IInv'
<1>1. TypeOK'
  BY DEF IInv, TypeOK, FormatCall, ram
<1>2. AllSound' /\ ~ Mounted'
  BY DEF IInv, AllSound, FormatCall, Mounted
<1>3. Control'
  BY SizesAssumption DEF IInv, Control, FormatCall
<1> QED BY <1>1, <1>2, <1>3, Unusable DEF IInv

LEMMA OpenInv ==
  ASSUME IInv, NEW r \in Request, Open(r)
  PROVE  IInv'
<1>1. TypeOK'
  BY NextIsSector DEF IInv, TypeOK, Open, GoNewSector, ram
<1>2. at = "idle" /\ UNCHANGED <<flash, pos>> /\ pos = 0
  BY DEF Open, IInv, Control
<1>3. AllSound' /\ WalkStops' /\ FreeSpace' /\ EntriesBelow'
  <2>1. CASE Fits(r.len)
    BY <1>2, <2>1, QuietStep DEF Open, Mounted
  <2>2. CASE ~ Fits(r.len)
    BY <1>2, <2>2, Unusable DEF Open, GoNewSector, Mounted, IInv, AllSound
  <2> QED BY <2>1, <2>2
<1>4. r.len \in Nat
  BY SizesAssumption DEF Request
<1>5. Control'
  <2>1. CASE Fits(r.len)
    BY <1>2, <1>4, <2>1 DEF Open, IInv, Control, Fits, ram
  <2>2. CASE ~ Fits(r.len)
    BY <1>2, <2>2 DEF Open, GoNewSector, IInv, Control
  <2> QED BY <2>1, <2>2
<1> QED BY <1>1, <1>3, <1>5 DEF IInv

LEMMA RetryInv == ASSUME IInv, Retry PROVE IInv'
<1>1. /\ at = "retry" /\ caller = "open" /\ req \in Request /\ pos = 0
      /\ UNCHANGED flash
  BY DEF Retry, IInv, Control
<1>2. CASE Idle
  BY <1>1, <1>2, IdleInv
<1>3. CASE /\ Fits(req.len) /\ at' = "write" /\ caller' = "none"
           /\ nscnt' = 0 /\ UNCHANGED <<ram, req, cur, pos>>
  <2>1. TypeOK'
    BY <1>1, <1>3 DEF IInv, TypeOK, ram
  <2>2. AllSound' /\ WalkStops' /\ FreeSpace' /\ EntriesBelow'
    BY <1>1, <1>3, QuietStep DEF Mounted
  <2>3. req.len \in Nat
    BY <1>1, SizesAssumption DEF Request
  <2>4. Control'
    BY <1>1, <1>3, <2>3 DEF IInv, Control, Fits, ram
  <2> QED BY <2>1, <2>2, <2>4 DEF IInv
<1>4. CASE /\ GoNewSector("open") /\ nscnt' = nscnt + 1
           /\ UNCHANGED <<wr_sector_id, req, cur, pos>>
  <2>1. TypeOK'
    BY <1>1, <1>4, NextIsSector DEF IInv, TypeOK, GoNewSector
  <2>2. AllSound' /\ ~ Mounted'
    BY <1>1, <1>4 DEF IInv, AllSound, GoNewSector, Mounted
  <2>3. Control'
    BY <1>1, <1>4 DEF IInv, Control, GoNewSector
  <2> QED BY <2>1, <2>2, <2>3, Unusable DEF IInv
<1> QED BY <1>2, <1>3, <1>4 DEF Retry

(* The compress routine returns, having done all or failed.                *)
LEMMA CompressReturnsInv ==
  ASSUME IInv, NEW ok \in BOOLEAN, at = "compress", CompressReturns(ok),
         UNCHANGED flash
  PROVE  IInv'
<1>1. /\ caller \in {"open", "mount", "remount"} /\ pos = 0 /\ HasCompress
      /\ Mounted
  BY DEF IInv, Control, TypeOK, Mounted
<1>2. CASE /\ caller = "open"
           /\ at' = "retry" /\ pos' = 0 /\ cur' = 0
           /\ UNCHANGED <<caller, ram, req, nscnt>>
  <2>1. TypeOK'
    BY <1>1, <1>2 DEF IInv, TypeOK, ram
  <2>2. Control'
    BY <1>1, <1>2 DEF IInv, Control
  <2> QED BY <1>1, <1>2, <2>1, <2>2, QuietStep DEF IInv
<1>3. CASE Idle
  BY <1>3, IdleInv
<1>4. CASE /\ caller = "mount"
           /\ at' = "erase" /\ caller' = "remount" /\ pos' = 0 /\ cur' = 0
           /\ wr_sector_id' = (wr_sector_id - 1) % SecIdMod
           /\ UNCHANGED <<wr_sector, wr_ate_offset, wr_data_offset, req, nscnt>>
  <2>1. wr_sector_id' \in SecId
    BY <1>4, SecIds DEF IInv, TypeOK, SecId
  <2>2. TypeOK'
    BY <1>4, <2>1 DEF IInv, TypeOK
  <2>3. Control' /\ AllSound' /\ ~ Mounted'
    BY <1>1, <1>4 DEF IInv, Control, AllSound, Mounted
  <2> QED BY <2>2, <2>3, Unusable DEF IInv
<1>5. CASE Down
  BY <1>5, DownInv DEF IInv, TypeOK, AllSound
<1> QED BY <1>2, <1>3, <1>4, <1>5 DEF CompressReturns

LEMMA CompressNextInv == ASSUME IInv, CompressNext PROVE IInv'
<1>1. at = "compress" /\ UNCHANGED flash /\ HasCompress /\ Mounted
  BY DEF CompressNext, IInv, Control, Mounted
<1>2. PICK e \in ToCopy(cur) :
        IF Fits(flash[NextSector(wr_sector)][e].len)
          THEN /\ at' = "copy" /\ cur' = e /\ pos' = 0
               /\ UNCHANGED <<caller, ram, req, nscnt>>
          ELSE CompressReturns(FALSE)
  BY DEF CompressNext
<1>3. CASE CompressReturns(FALSE)
  BY <1>1, <1>3, CompressReturnsInv
<1>4. CASE /\ Fits(flash[NextSector(wr_sector)][e].len)
           /\ at' = "copy" /\ cur' = e /\ pos' = 0
           /\ UNCHANGED <<caller, ram, req, nscnt>>
  <2>1. e \in Entries(flash[NextSector(wr_sector)])
    BY DEF ToCopy
  <2>2. NextSector(wr_sector) \in Sector
    BY NextIsSector DEF IInv, TypeOK
  <2>3. /\ flash[NextSector(wr_sector)][e] \in Cell
        /\ flash[NextSector(wr_sector)][e].kind = "ate"
        /\ e \in Nat
    BY <2>1, <2>2, SizesAssumption
       DEF Entries, IsAte, IInv, TypeOK, Slot, Block
  <2>4. flash[NextSector(wr_sector)][e].len \in Nat
    BY <2>3, CellKind
  <2>5. TypeOK'
    BY <1>1, <1>4, <2>3 DEF IInv, TypeOK, ram
  <2>6. Control'
    BY <1>1, <1>4, <2>1, <2>4 DEF IInv, Control, Source, Fits, ram
  <2>7. pos' = pos
    BY <1>1, <1>4 DEF IInv, Control
  <2> QED BY <1>1, <1>4, <2>5, <2>6, <2>7, QuietStep DEF IInv, Mounted
<1> QED BY <1>2, <1>3, <1>4

(* Copying and writing: the block goes into the free space, be it as it    *)
(* should or torn.                                                         *)
LEMMA BlockFlash ==
  ASSUME IInv, at \in {"copy", "write"}, NEW n \in Nat,
         pos < n, Fits(n), NEW x \in Cell,
         Program(wr_sector, wr_data_offset + pos, x)
  PROVE  /\ flash' \in [Sector -> [Block -> Cell]] /\ AllSound'
         /\ \A s \in Sector : s # wr_sector => flash'[s] = flash[s]
         /\ wr_data_offset + pos \in Block
         /\ flash[wr_sector][wr_data_offset + pos] = Blank
         /\ LET c == flash[wr_sector]
                d == flash'[wr_sector]
            IN  /\ \A b \in Block : b # wr_data_offset + pos => d[b] = c[b]
                /\ Entries(d) = Entries(c)
                /\ \A p \in Entries(c) : d[p] = c[p]
                /\ IsAteEnd(d, wr_ate_offset) /\ d[wr_ate_offset] = Blank
<1> DEFINE c == flash[wr_sector]
           k == wr_data_offset + pos
           d == [c EXCEPT ![k] = x]
<1>1. /\ wr_sector \in Sector /\ c \in [Block -> Cell] /\ SectorSound(c)
      /\ wr_ate_offset \in Slot /\ wr_data_offset \in 1..SectorSize
      /\ pos \in Nat
  BY DEF IInv, TypeOK, AllSound
<1>2. k \in Block /\ k < wr_ate_offset
  BY <1>1, SizesAssumption DEF Fits, Slot, Block
<1>3. c[wr_ate_offset] = Blank /\ IsAteEnd(c, wr_ate_offset)
  BY DEF IInv, WalkStops
<1>4. c[k] = Blank
  BY <1>1, <1>2, SizesAssumption DEF Slot, Block, IInv, FreeSpace
<1>5. flash' = [flash EXCEPT ![wr_sector] = d]
  BY <1>4, ProgramBlank
<1>6. /\ SectorSound(d)
      /\ Entries(d) = Entries(c)
      /\ \A p \in Entries(c) : d[p] = c[p]
      /\ IsAteEnd(d, wr_ate_offset) /\ d[wr_ate_offset] = Blank
  BY <1>1, <1>2, <1>3, DataSound
<1>7. /\ d \in [Block -> Cell]
      /\ \A b \in Block : b # k => d[b] = c[b]
  BY <1>1
<1> HIDE DEF d
<1>8. /\ flash' \in [Sector -> [Block -> Cell]]
      /\ flash'[wr_sector] = d
      /\ \A s \in Sector : s # wr_sector => flash'[s] = flash[s]
  BY <1>1, <1>5, <1>7 DEF IInv, TypeOK
<1>9. AllSound'
  BY <1>6, <1>8 DEF IInv, AllSound
<1> QED BY <1>2, <1>4, <1>6, <1>7, <1>8, <1>9

LEMMA BlockInv ==
  ASSUME IInv, at \in {"copy", "write"}, NEW n \in Nat,
         pos < n, Fits(n), NEW x \in Cell,
         Program(wr_sector, wr_data_offset + pos, x),
         pos' = pos + 1, UNCHANGED <<at, caller, ram, req, nscnt, cur>>
  PROVE  TypeOK' /\ AllSound' /\ WalkStops' /\ FreeSpace' /\ EntriesBelow'
<1>1. TypeOK'
  BY BlockFlash DEF IInv, TypeOK, ram
<1>2. AllSound'
  BY BlockFlash
<1>3. WalkStops'
  BY BlockFlash DEF WalkStops, ram
<1>4. FreeSpace'
  <2> SUFFICES ASSUME NEW b \in Block,
                      wr_data_offset + pos + 1 <= b, b <= wr_ate_offset
               PROVE  flash'[wr_sector][b] = Blank
    BY DEF FreeSpace, ram, IInv, TypeOK
  <2>1. wr_data_offset + pos <= b /\ b # wr_data_offset + pos
    BY BlockFlash DEF Block
  <2> QED BY <2>1, BlockFlash DEF IInv, FreeSpace
<1>5. EntriesBelow'
  BY BlockFlash DEF IInv, EntriesBelow, Mounted, ram
<1> QED BY <1>1, <1>2, <1>3, <1>4, <1>5

(* Closing: the entry takes the slot of the next ATE.                      *)
LEMMA CloseAsInv ==
  ASSUME IInv, at \in {"copy", "write"},
         NEW i \in Ids, NEW n \in Lens, pos = n, Fits(n),
         CloseAs(i, n), pos' = 0, at' \in {"idle", "compress"}
  PROVE  /\ flash' \in [Sector -> [Block -> Cell]]
         /\ wr_sector' \in Sector /\ wr_sector_id' \in SecId
         /\ wr_ate_offset' \in Slot /\ wr_data_offset' \in 1..SectorSize
         /\ AllSound' /\ WalkStops' /\ FreeSpace' /\ EntriesBelow'
<1> DEFINE c == flash[wr_sector]
           w == wr_ate_offset
           o == wr_data_offset
           d == [c EXCEPT ![w] = Ate(i, o, n)]
<1>1. /\ wr_sector \in Sector /\ c \in [Block -> Cell] /\ SectorSound(c)
      /\ w \in Slot /\ o \in 1..SectorSize /\ n \in Nat
  BY SizesAssumption DEF IInv, TypeOK, AllSound
<1>2. o \in Block /\ o >= 1 /\ o + n < w /\ w - 1 \in Slot /\ w \in Block
  BY <1>1, SizesAssumption DEF Fits, Slot, Block
<1>3. c[w] = Blank /\ IsAteEnd(c, w)
  BY DEF IInv, WalkStops
<1>4. \A b \in Block : o + n <= b /\ b <= w => c[b] = Blank
  BY DEF IInv, FreeSpace
<1>5. c[w - 1] = Blank
  BY <1>1, <1>2, <1>4, SizesAssumption DEF Slot, Block
<1>6. \A p \in Entries(c) : AteEnd(c[p]) <= o
  BY DEF IInv, EntriesBelow, Mounted
<1>7. flash' = [flash EXCEPT ![wr_sector] = d]
  BY <1>3, ProgramBlank DEF CloseAs
<1>8. /\ SectorSound(d)
      /\ IsAteEnd(d, w - 1) /\ d[w - 1] = Blank
      /\ \A p \in Entries(d) : AteEnd(d[p]) <= o + n
  BY <1>1, <1>2, <1>3, <1>5, <1>6, CloseSound
<1>9. /\ d \in [Block -> Cell]
      /\ \A b \in Block : b # w => d[b] = c[b]
  BY <1>1, <1>2, AteKind
<1> HIDE DEF d
<1>10. flash' \in [Sector -> [Block -> Cell]] /\ flash'[wr_sector] = d
  BY <1>1, <1>7, <1>9 DEF IInv, TypeOK
<1>11. /\ wr_sector' = wr_sector /\ wr_sector_id' = wr_sector_id
       /\ wr_ate_offset' = w - 1 /\ wr_data_offset' = o + n
  BY DEF CloseAs
<1>12. AllSound'
  BY <1>1, <1>7, <1>8 DEF IInv, TypeOK, AllSound
<1>13. WalkStops'
  BY <1>8, <1>10, <1>11 DEF WalkStops
<1>14. FreeSpace'
  <2> SUFFICES ASSUME NEW b \in Block, o + n <= b, b <= w - 1
               PROVE  d[b] = Blank
    BY <1>1, <1>10, <1>11 DEF FreeSpace
  <2>1. b \in Int /\ w \in Int
    BY <1>1 DEF Block, Slot
  <2>2. b # w /\ b <= w
    BY <2>1
  <2> QED BY <2>2, <1>4, <1>9
<1>15. EntriesBelow'
  BY <1>8, <1>10, <1>11 DEF EntriesBelow
<1>16. o + n \in 1..SectorSize
  BY <1>1, <1>2, SizesAssumption DEF Slot
<1> QED BY <1>2, <1>10, <1>11, <1>12, <1>13, <1>14, <1>15, <1>16
        DEF IInv, TypeOK

(* The location sfcb_copy_loc copies lies in another sector.               *)
LEMMA SourceFacts ==
  ASSUME IInv, at = "copy"
  PROVE  /\ NextSector(wr_sector) \in Sector
         /\ NextSector(wr_sector) # wr_sector
         /\ Source.len \in Lens /\ Source.id \in Ids
         /\ pos \in Nat /\ pos <= Source.len /\ Fits(Source.len)
         /\ pos < Source.len
              => flash[NextSector(wr_sector)][Source.offset + pos] \in Cell
<1> DEFINE c == flash[NextSector(wr_sector)]
<1>1. /\ HasCompress /\ cur \in Entries(c) /\ pos <= Source.len
      /\ Fits(Source.len)
  BY DEF IInv, Control
<1>2. NextSector(wr_sector) \in Sector /\ NextSector(wr_sector) # wr_sector
  BY <1>1, NextIsSector, SizesAssumption DEF IInv, TypeOK
<1>3. c \in [Block -> Cell] /\ SectorSound(c) /\ pos \in Nat
  BY <1>2 DEF IInv, TypeOK, AllSound
<1>4. cur \in Slot /\ cur \in Block /\ c[cur].kind = "ate"
  BY <1>1, SizesAssumption DEF Entries, IsAte, Slot, Block
<1>5. /\ c[cur].offset \in Int /\ c[cur].len \in Nat /\ c[cur].len \in Lens
      /\ c[cur].id \in Ids
  BY <1>3, <1>4, CellKind
<1>6. c[cur].offset >= 1 /\ c[cur].offset + c[cur].len < cur
  BY <1>1, <1>3 DEF SectorSound, Disjoint, AteEnd
<1>7. ASSUME pos < Source.len
      PROVE  Source.offset + pos \in Block
  BY <1>3, <1>4, <1>5, <1>6, <1>7, SizesAssumption DEF Source, Slot, Block
<1> QED BY <1>1, <1>2, <1>3, <1>5, <1>7 DEF Source

LEMMA CopyBlockInv == ASSUME IInv, CopyBlock PROVE IInv'
<1>1. /\ at = "copy" /\ pos < Source.len /\ pos' = pos + 1
      /\ UNCHANGED <<at, caller, ram, req, nscnt, cur>>
      /\ Program(wr_sector, wr_data_offset + pos,
                 flash[NextSector(wr_sector)][Source.offset + pos])
      /\ Source.len \in Nat
  BY SourceFacts, SizesAssumption DEF CopyBlock
<1>2. /\ TypeOK' /\ AllSound' /\ WalkStops' /\ FreeSpace' /\ EntriesBelow'
      /\ \A s \in Sector : s # wr_sector => flash'[s] = flash[s]
  BY <1>1, SourceFacts, BlockInv, BlockFlash
<1>3. /\ flash'[NextSector(wr_sector)] = flash[NextSector(wr_sector)]
      /\ Source' = Source /\ wr_sector' = wr_sector
      /\ wr_ate_offset' = wr_ate_offset /\ wr_data_offset' = wr_data_offset
  BY <1>1, <1>2, SourceFacts DEF Source, ram
<1>4. pos' <= Source.len /\ Fits(Source.len)
  BY <1>1, SourceFacts
<1>5. Control'
  BY <1>1, <1>3, <1>4 DEF IInv, Control, Fits
<1> QED BY <1>2, <1>5 DEF IInv

LEMMA CopyCloseInv == ASSUME IInv, CopyClose PROVE IInv'
<1>1. /\ at = "copy" /\ at' = "compress" /\ pos = Source.len /\ pos' = 0
      /\ UNCHANGED <<caller, req, nscnt, cur>>
      /\ CloseAs(Source.id, Source.len)
  BY DEF CopyClose
<1>2. /\ flash' \in [Sector -> [Block -> Cell]]
      /\ wr_sector' \in Sector /\ wr_sector_id' \in SecId
      /\ wr_ate_offset' \in Slot /\ wr_data_offset' \in 1..SectorSize
      /\ AllSound' /\ WalkStops' /\ FreeSpace' /\ EntriesBelow'
  BY <1>1, SourceFacts, CloseAsInv
<1>3. TypeOK'
  BY <1>1, <1>2 DEF IInv, TypeOK
<1>4. Control'
  BY <1>1 DEF IInv, Control
<1> QED BY <1>2, <1>3, <1>4 DEF IInv

LEMMA WriteFacts ==
  ASSUME IInv, at = "write"
  PROVE  /\ req.id \in Ids /\ req.len \in Lens /\ req.len \in Nat
         /\ pos <= req.len /\ Fits(req.len) /\ Data(req.val) \in Cell
<1>1. req \in Request /\ pos <= req.len /\ Fits(req.len)
  BY DEF IInv, Control
<1>2. req.id \in Ids /\ req.len \in Lens /\ req.val \in Values
  BY <1>1 DEF Request
<1>3. Data(req.val) \in Cell
  BY <1>2 DEF Data, Cell, DataCell
<1> QED BY <1>1, <1>2, <1>3, SizesAssumption

LEMMA WriteBlockInv == ASSUME IInv, WriteBlock PROVE IInv'
<1>1. /\ at = "write" /\ pos < req.len /\ pos' = pos + 1
      /\ UNCHANGED <<at, caller, ram, req, nscnt, cur>>
      /\ Program(wr_sector, wr_data_offset + pos, Data(req.val))
  BY DEF WriteBlock
<1>2. TypeOK' /\ AllSound' /\ WalkStops' /\ FreeSpace' /\ EntriesBelow'
  BY <1>1, WriteFacts, BlockInv
<1>3. pos' <= req.len
  BY <1>1, WriteFacts DEF IInv, TypeOK
<1>4. Control'
  BY <1>1, <1>3 DEF IInv, Control, Fits, ram
<1> QED BY <1>2, <1>4 DEF IInv

LEMMA CloseInv == ASSUME IInv, Close PROVE IInv'
<1>1. /\ at = "write" /\ pos = req.len /\ CloseAs(req.id, req.len)
      /\ Rest("idle")
  BY DEF Close
<1>2. /\ flash' \in [Sector -> [Block -> Cell]]
      /\ wr_sector' \in Sector /\ wr_sector_id' \in SecId
      /\ wr_ate_offset' \in Slot /\ wr_data_offset' \in 1..SectorSize
      /\ AllSound' /\ WalkStops' /\ FreeSpace' /\ EntriesBelow'
  BY <1>1, WriteFacts, CloseAsInv DEF Rest
<1>3. TypeOK'
  BY <1>1, <1>2 DEF TypeOK, Rest
<1>4. Control'
  BY <1>1 DEF Control, Rest
<1> QED BY <1>2, <1>3, <1>4 DEF IInv

(* A sector start, written or torn, in an erased sector.                   *)
LEMMA StartFlash ==
  ASSUME IInv, NEW s \in Sector, flash[s] = BlankSector, NEW x \in Cell,
         Program(s, 0, x)
  PROVE  /\ flash' \in [Sector -> [Block -> Cell]] /\ AllSound'
         /\ Entries(flash'[s]) = {}
         /\ IsAteEnd(flash'[s], SectorSize - 1)
         /\ \A b \in Slot : flash'[s][b] = Blank
<1> DEFINE d == [BlankSector EXCEPT ![0] = x]
<1>1. /\ BlankSector \in [Block -> Cell] /\ 0 \in Block
      /\ \A b \in Block : BlankSector[b] = Blank
      /\ SectorSize - 1 \in Slot
  <2>1. BlankSector \in [Block -> Cell]
        /\ \A b \in Block : BlankSector[b] = Blank
    BY BlankKind DEF BlankSector
  <2>2. 0 \in Block /\ SectorSize - 1 \in Slot
    BY SizesAssumption DEF Block, Slot
  <2> QED BY <2>1, <2>2
<1>2. flash' = [flash EXCEPT ![s] = d]
  BY <1>1, ProgramBlank
<1>3. d \in [Block -> Cell] /\ \A b \in Slot : d[b] = Blank
  BY <1>1 DEF Slot, Block
<1> HIDE DEF d
<1>4. Entries(d) = {}
  BY <1>3, BlankKind DEF Entries, IsAte
<1>5. SectorSound(d)
  BY <1>1, <1>3, <1>4 DEF SectorSound, Disjoint
<1>6. IsAteEnd(d, SectorSize - 1)
  BY <1>1, <1>3, SizesAssumption DEF IsAteEnd, Slot
<1>7. /\ flash' \in [Sector -> [Block -> Cell]]
      /\ flash'[s] = d
      /\ \A t \in Sector : t # s => flash'[t] = flash[t]
  BY <1>2, <1>3 DEF IInv, TypeOK
<1>8. AllSound'
  BY <1>5, <1>7 DEF IInv, AllSound
<1> QED BY <1>3, <1>4, <1>6, <1>7, <1>8

LEMMA InitSectorInv == ASSUME IInv, InitSector PROVE IInv'
<1>1. /\ at = "start" /\ flash[wr_sector] = BlankSector /\ pos = 0
      /\ wr_sector \in Sector /\ caller # "none"
      /\ wr_sector_id \in SecId /\ StartOf(wr_sector_id) \in Cell
  BY DEF InitSector, IInv, Control, TypeOK, StartOf, Cell, StartCell
<1>2. /\ flash' \in [Sector -> [Block -> Cell]] /\ AllSound'
      /\ Entries(flash'[wr_sector]) = {}
      /\ IsAteEnd(flash'[wr_sector], SectorSize - 1)
      /\ \A b \in Slot : flash'[wr_sector][b] = Blank
  BY <1>1, StartFlash DEF InitSector
<1>3. /\ wr_ate_offset' = SectorSize - 1 /\ wr_data_offset' = 1
      /\ pos' = 0 /\ UNCHANGED <<caller, wr_sector, req, nscnt, pos>>
  BY <1>1 DEF InitSector
<1>4. SectorSize - 1 \in Slot /\ 1 \in 1..SectorSize
  BY SizesAssumption DEF Slot
<1>5. TypeOK'
  <2>1. wr_sector_id' \in SecId
    BY <1>1, SecIds DEF InitSector, SecId
  <2>2. at' \in {"compress", "retry"} /\ cur' \in Nat
    BY SizesAssumption DEF InitSector, IInv, TypeOK
  <2> QED BY <1>2, <1>3, <1>4, <2>1, <2>2 DEF IInv, TypeOK
<1>6. WalkStops'
  BY <1>2, <1>3, <1>4 DEF WalkStops
<1>7. FreeSpace'
  BY <1>2, <1>3, SizesAssumption DEF FreeSpace, Slot, Block
<1>8. EntriesBelow'
  BY <1>2, <1>3 DEF EntriesBelow
<1>9. Control'
  BY <1>1, <1>3 DEF InitSector, IInv, Control, TypeOK
<1> QED BY <1>2, <1>5, <1>6, <1>7, <1>8, <1>9 DEF IInv

LEMMA EraseInv == ASSUME IInv, Erase PROVE IInv'
<1>1. /\ flash' = [flash EXCEPT ![wr_sector] = BlankSector]
      /\ at = "erase" /\ at' = "start"
      /\ UNCHANGED <<caller, ram, req, nscnt, cur, pos>>
      /\ wr_sector \in Sector /\ BlankSector \in [Block -> Cell]
  BY BlankKind DEF Erase, IInv, TypeOK, BlankSector
<1>2. TypeOK'
  BY <1>1 DEF IInv, TypeOK, ram
<1>3. AllSound'
  BY <1>1, BlankSound DEF IInv, AllSound, TypeOK
<1>4. ~ Mounted'
  BY <1>1 DEF Mounted
<1>5. Control'
  BY <1>1 DEF IInv, Control, TypeOK, ram
<1> QED BY <1>2, <1>3, <1>4, <1>5, Unusable DEF IInv

LEMMA FormatSectorInv == ASSUME IInv, FormatSector PROVE IInv'
<1>1. /\ at = "format" /\ at' = "format" /\ cur < NSectors /\ cur' = cur + 1
      /\ UNCHANGED <<caller, ram, req, nscnt, pos>>
      /\ cur \in Sector /\ BlankSector \in [Block -> Cell]
  BY BlankKind, SizesAssumption
     DEF FormatSector, IInv, TypeOK, Sector, BlankSector
<1>2. \/ /\ flash' = [flash EXCEPT ![cur] = BlankSector]
      \/ cur # 0 /\ flash' = flash
  BY DEF FormatSector, FormatErases
<1>3. TypeOK'
  BY <1>1, <1>2 DEF IInv, TypeOK, ram
<1>4. AllSound'
  BY <1>1, <1>2, BlankSound DEF IInv, AllSound, TypeOK
<1>5. flash'[0] = BlankSector
  BY <1>1, <1>2, SizesAssumption DEF IInv, Control, TypeOK, Sector
<1>6. cur' <= NSectors
  BY <1>1, SizesAssumption DEF IInv, TypeOK
<1>7. Control' /\ ~ Mounted'
  BY <1>1, <1>5, <1>6 DEF IInv, Control, Mounted
<1> QED BY <1>3, <1>4, <1>7, Unusable DEF IInv

LEMMA FormatDoneInv == ASSUME IInv, FormatDone PROVE IInv'
<1>1. /\ 0 \in Sector /\ flash[0] = BlankSector /\ Program(0, 0, StartOf(0))
      /\ StartOf(0) \in Cell
  BY SizesAssumption
     DEF FormatDone, IInv, Control, Sector, StartOf, Cell, StartCell, SecId
<1>2. flash' \in [Sector -> [Block -> Cell]] /\ AllSound'
  BY <1>1, StartFlash
<1> QED BY <1>2, DownInv DEF FormatDone

(* A torn ATE: the slot below it is still blank.                           *)
LEMMA TornAteFlash ==
  ASSUME IInv, at \in {"copy", "write"}, NEW n \in Nat, pos = n, Fits(n),
         NEW x \in TornCell, Program(wr_sector, wr_ate_offset, x)
  PROVE  flash' \in [Sector -> [Block -> Cell]] /\ AllSound'
<1> DEFINE c == flash[wr_sector]
           w == wr_ate_offset
           d == [c EXCEPT ![w] = x]
<1>1. /\ wr_sector \in Sector /\ c \in [Block -> Cell] /\ SectorSound(c)
      /\ w \in Slot /\ wr_data_offset \in 1..SectorSize
  BY DEF IInv, TypeOK, AllSound
<1>2. /\ c[w] = Blank /\ IsAteEnd(c, w)
      /\ \A b \in Block : wr_data_offset + n <= b /\ b <= w => c[b] = Blank
  BY DEF IInv, WalkStops, FreeSpace
<1>3. w - 1 \in Slot /\ c[w - 1] = Blank
  BY <1>1, <1>2, SizesAssumption DEF Fits, Slot, Block
<1>4. SectorSound(d)
  BY <1>1, <1>2, <1>3, TornAteSound
<1>5. d \in [Block -> Cell]
  BY <1>1, TornKind
<1>6. flash' = [flash EXCEPT ![wr_sector] = d]
  BY <1>2, ProgramBlank
<1> HIDE DEF d
<1> QED BY <1>4, <1>5, <1>6 DEF IInv, TypeOK, AllSound

LEMMA PowerLossInv == ASSUME IInv, PowerLoss PROVE IInv'
<1> SUFFICES flash' \in [Sector -> [Block -> Cell]] /\ AllSound'
  BY DownInv DEF PowerLoss
<1>1. CASE UNCHANGED flash
  BY <1>1 DEF IInv, TypeOK, AllSound
<1>2. ASSUME Programming, NEW x \in TornCell, Program(Target[1], Target[2], x)
      PROVE  flash' \in [Sector -> [Block -> Cell]] /\ AllSound'
  <2>1. CASE at = "start"
    <3>1. Target[1] = wr_sector /\ Target[2] = 0
      BY <2>1 DEF Target
    <3>2. flash[wr_sector] = BlankSector /\ wr_sector \in Sector
      BY <2>1 DEF IInv, Control, TypeOK
    <3> QED BY <1>2, <3>1, <3>2, StartFlash, TornKind
  <2>2. CASE at = "format"
    <3>1. Target[1] = 0 /\ Target[2] = 0 /\ cur = NSectors
      BY <1>2, <2>2 DEF Target, Programming
    <3>2. flash[0] = BlankSector /\ 0 \in Sector
      BY <2>2, <3>1, SizesAssumption DEF IInv, Control, Sector
    <3> QED BY <1>2, <3>1, <3>2, StartFlash, TornKind
  <2>3. CASE at = "copy"
    <3>1. Source.len \in Nat /\ pos <= Source.len /\ Fits(Source.len)
      BY <2>3, SourceFacts, SizesAssumption
    <3>2. CASE pos < Source.len
      <4>1. Program(wr_sector, wr_data_offset + pos, x)
        BY <1>2, <2>3, <3>2 DEF Target
      <4> QED BY <2>3, <3>1, <3>2, <4>1, BlockFlash, TornKind
    <3>3. CASE ~ (pos < Source.len)
      <4>1. Program(wr_sector, wr_ate_offset, x)
        BY <1>2, <2>3, <3>3 DEF Target
      <4>2. pos = Source.len
        BY <3>1, <3>3 DEF IInv, TypeOK
      <4> QED BY <2>3, <3>1, <4>1, <4>2, TornAteFlash
    <3> QED BY <3>2, <3>3
  <2>4. CASE at = "write"
    <3>1. req.len \in Nat /\ pos <= req.len /\ Fits(req.len)
      BY <2>4, WriteFacts
    <3>2. CASE pos < req.len
      <4>1. Program(wr_sector, wr_data_offset + pos, x)
        BY <1>2, <2>4, <3>2 DEF Target
      <4> QED BY <2>4, <3>1, <3>2, <4>1, BlockFlash, TornKind
    <3>3. CASE ~ (pos < req.len)
      <4>1. Program(wr_sector, wr_ate_offset, x)
        BY <1>2, <2>4, <3>3 DEF Target
      <4>2. pos = req.len
        BY <3>1, <3>3 DEF IInv, TypeOK
      <4> QED BY <2>4, <3>1, <4>1, <4>2, TornAteFlash
    <3> QED BY <3>2, <3>3
  <2> QED BY <1>2, <2>1, <2>2, <2>3, <2>4 DEF Programming
<1>3. CASE \E p \in PartialErases, s \in Sector :
             flash' = [flash EXCEPT ![s] = Erased(@, p)]
  BY <1>3, ErasedSound DEF IInv, TypeOK, AllSound
<1> QED BY <1>1, <1>2, <1>3 DEF PowerLoss, ProgramTorn

LEMMA StepInv ==
  ASSUME IoErrors = {}, IInv, [Next]_vars
  PROVE  IInv'
<1>1. CASE UNCHANGED vars
  <2>1. TypeOK' /\ Control'
    BY <1>1 DEF vars, ram, IInv, TypeOK, Control, Fits, Source
  <2> QED BY <1>1, <2>1, QuietStep DEF vars, Mounted, IInv
<1>2. CASE Client
  BY <1>2, MountInv, UnmountInv, FormatCallInv, OpenInv DEF Client
<1>3. CASE CompressDone
  BY <1>3, CompressReturnsInv DEF CompressDone
<1>4. CASE Step
  BY <1>3, <1>4, FormatSectorInv, FormatDoneInv, EraseInv, InitSectorInv,
     RetryInv, CompressNextInv, CopyBlockInv, CopyCloseInv, WriteBlockInv,
     CloseInv DEF Step
<1>5. CASE PowerLoss
  BY <1>5, PowerLossInv
<1>6. CASE FlashError
  BY <1>6 DEF FlashError
<1> QED BY <1>1, <1>2, <1>4, <1>5, <1>6 DEF Next

(* Every block that is programmed was blank.                               *)
LEMMA ProgramsBlank ==
  ASSUME IInv, NEW t \in Sector, NEW k \in Block, flash[t][k] = Blank,
         NEW x \in Cell, Program(t, k, x)
  PROVE  \A s \in Sector, b \in Block :
           flash'[s][b] = flash[s][b] \/ flash[s][b] = Blank
<1>1. flash' = [flash EXCEPT ![t] = [flash[t] EXCEPT ![k] = x]]
  BY ProgramBlank
<1> QED BY <1>1 DEF IInv, TypeOK

LEMMA TargetBlank ==
  ASSUME IInv, Programming
  PROVE  /\ Target[1] \in Sector /\ Target[2] \in Block
         /\ flash[Target[1]][Target[2]] = Blank
<1>0. 0 \in Block /\ 0 \in Sector /\ BlankSector[0] = Blank
  BY SizesAssumption DEF Block, Sector, BlankSector
<1>1. CASE at = "start"
  BY <1>0, <1>1 DEF Target, IInv, Control, TypeOK
<1>2. CASE at = "format"
  BY <1>0, <1>2, SizesAssumption DEF Target, Programming, IInv, Control
<1>3. ASSUME NEW n \in Nat, Fits(n), pos <= n, at \in {"copy", "write"}
      PROVE  LET k == IF pos < n THEN wr_data_offset + pos ELSE wr_ate_offset
             IN  k \in Block /\ flash[wr_sector][k] = Blank
  <2>1. /\ pos \in Nat /\ wr_ate_offset \in Slot
        /\ wr_data_offset \in 1..SectorSize
    BY DEF IInv, TypeOK
  <2>2. \A b \in Block : wr_data_offset + pos <= b /\ b <= wr_ate_offset
                         => flash[wr_sector][b] = Blank
    BY <1>3 DEF IInv, FreeSpace
  <2> QED BY <1>3, <2>1, <2>2, SizesAssumption DEF Fits, Slot, Block
<1>4. wr_sector \in Sector
  BY DEF IInv, TypeOK
<1>5. CASE at = "copy"
  <2>1. Source.len \in Nat /\ pos <= Source.len /\ Fits(Source.len)
    BY <1>5, SourceFacts, SizesAssumption
  <2> QED BY <1>3, <1>4, <1>5, <2>1 DEF Target
<1>6. CASE at = "write"
  <2>1. req.len \in Nat /\ pos <= req.len /\ Fits(req.len)
    BY <1>6, WriteFacts
  <2> QED BY <1>3, <1>4, <1>6, <2>1 DEF Target
<1> QED BY <1>1, <1>2, <1>5, <1>6 DEF Programming

LEMMA StepNoOverwrite ==
  ASSUME IoErrors = {}, IInv, [Next]_vars
  PROVE  \A s \in Sector, b \in Block :
           \/ flash'[s][b] = flash[s][b]
           \/ flash[s][b] = Blank
           \/ flash'[s][b] = Blank
<1>1. ASSUME NEW x \in Cell, Programming, Program(Target[1], Target[2], x)
      PROVE  \A s \in Sector, b \in Block :
               flash'[s][b] = flash[s][b] \/ flash[s][b] = Blank
  BY <1>1, TargetBlank, ProgramsBlank
<1>2. CASE UNCHANGED flash
  BY <1>2
<1>3. ASSUME NEW t \in Sector, NEW P, flash' = [flash EXCEPT ![t] = Erased(@, P)]
      PROVE  \A s \in Sector, b \in Block :
               flash'[s][b] = flash[s][b] \/ flash'[s][b] = Blank
  BY <1>3 DEF Erased, IInv, TypeOK
<1>4. ASSUME NEW t \in Sector, flash' = [flash EXCEPT ![t] = BlankSector]
      PROVE  \A s \in Sector, b \in Block :
               flash'[s][b] = flash[s][b] \/ flash'[s][b] = Blank
  BY <1>4 DEF BlankSector, IInv, TypeOK
<1>5. CASE FormatSector
  <2>1. cur \in Sector
    BY <1>5, SizesAssumption DEF FormatSector, IInv, TypeOK, Sector
  <2> QED BY <1>2, <1>4, <1>5, <2>1 DEF FormatSector
<1>6. CASE FormatDone
  <2>1. /\ Programming /\ Program(Target[1], Target[2], StartOf(0))
        /\ StartOf(0) \in Cell
    BY <1>6, SizesAssumption DEF FormatDone, Programming, Target,
       StartOf, Cell, StartCell, SecId
  <2> QED BY <1>1, <2>1
<1>7. CASE Erase
  BY <1>4, <1>7 DEF Erase, IInv, TypeOK
<1>8. CASE InitSector
  <2>1. /\ Programming /\ Program(Target[1], Target[2], StartOf(wr_sector_id))
        /\ StartOf(wr_sector_id) \in Cell
    BY <1>8 DEF InitSector, Programming, Target, StartOf, Cell, StartCell,
       IInv, TypeOK
  <2> QED BY <1>1, <2>1
<1>9. CASE CopyBlock
  <2>1. /\ Programming
        /\ Program(Target[1], Target[2],
                   flash[NextSector(wr_sector)][Source.offset + pos])
    BY <1>9 DEF CopyBlock, Programming, Target
  <2>2. flash[NextSector(wr_sector)][Source.offset + pos] \in Cell
    BY <1>9, SourceFacts DEF CopyBlock
  <2> QED BY <1>1, <2>1, <2>2
<1>10. CASE WriteBlock
  <2>1. Programming /\ Program(Target[1], Target[2], Data(req.val))
    BY <1>10 DEF WriteBlock, Programming, Target
  <2>2. Data(req.val) \in Cell
    BY <1>10, WriteFacts DEF WriteBlock
  <2> QED BY <1>1, <2>1, <2>2
<1>11. ASSUME NEW i \in Ids, NEW n \in Lens, CloseAs(i, n),
              Target = <<wr_sector, wr_ate_offset>>, Programming
       PROVE  \A s \in Sector, b \in Block :
                flash'[s][b] = flash[s][b] \/ flash[s][b] = Blank
  <2>1. flash[wr_sector][wr_ate_offset] = Blank
    BY <1>11, TargetBlank
  <2>2. flash' = [flash EXCEPT ![wr_sector] = [flash[wr_sector] EXCEPT
                    ![wr_ate_offset] = Ate(i, wr_data_offset, n)]]
    BY <1>11, <2>1, ProgramBlank DEF CloseAs
  <2> QED BY <2>1, <2>2 DEF IInv, TypeOK
<1>12. CASE CopyClose
  <2>1. Target = <<wr_sector, wr_ate_offset>> /\ Programming
    BY <1>12 DEF CopyClose, Programming, Target, IInv, TypeOK
  <2> QED BY <1>11, <1>12, <2>1, SourceFacts DEF CopyClose
<1>13. CASE Close
  <2>1. Target = <<wr_sector, wr_ate_offset>> /\ Programming
    BY <1>13 DEF Close, Programming, Target, IInv, TypeOK
  <2> QED BY <1>11, <1>13, <2>1, WriteFacts DEF Close
<1>14. CASE PowerLoss
  <2>1. PartialErases \subseteq SUBSET (0..SectorSize - 1)
    BY ChoicesAssumption
  <2> QED BY <1>1, <1>2, <1>3, <1>14, TornKind DEF PowerLoss, ProgramTorn
<1>15. CASE Client \/ Retry \/ CompressDone \/ CompressNext
  BY <1>2, <1>15 DEF Client, Mount, Unmount, FormatCall, Open, Retry,
     CompressDone, CompressNext
<1>16. ~ FlashError
  BY DEF FlashError
<1>17. CASE UNCHANGED vars
  BY <1>2, <1>17 DEF vars
<1> QED BY <1>5, <1>6, <1>7, <1>8, <1>9, <1>10, <1>12, <1>13, <1>14, <1>15,
           <1>16, <1>17 DEF Next, Step

-----------------------------------------------------------------------------
(* Theorems.  All of them assume a flash driver that returns no error: the *)
(* section 4 of README.md tells what errors break.                         *)

THEOREM Invariance ==
  ASSUME IoErrors = {}
  PROVE  Spec => []IInv
<1>1. IInv /\ [Next]_vars => IInv'
  BY StepInv
<1> QED BY InitInv, <1>1, PTL DEF Spec

(* Variables and the flash keep their types, whatever happens: in          *)
(* particular the two write offsets never leave the sector.                *)
THEOREM TypeCorrect ==
  ASSUME IoErrors = {}
  PROVE  Spec => []TypeOK
<1>1. IInv => TypeOK
  BY DEF IInv
<1> QED BY Invariance, <1>1, PTL

(* Every walk of sfcb_next_loc ends where the code says it does.           *)
THEOREM WalksEnd ==
  ASSUME IoErrors = {}
  PROVE  Spec => []WalkStops
<1>1. IInv => WalkStops
  BY DEF IInv
<1> QED BY Invariance, <1>1, PTL

(* Data and ATEs are always written into blank flash.                      *)
THEOREM SpaceIsFree ==
  ASSUME IoErrors = {}
  PROVE  Spec => []FreeSpace
<1>1. IInv => FreeSpace
  BY DEF IInv
<1> QED BY Invariance, <1>1, PTL

(* No entry's data is ever shared with another entry, a sector start or an *)
(* ATE, although writes, copies and erases may be cut off at any point.    *)
THEOREM EntriesNeverOverlap ==
  ASSUME IoErrors = {}
  PROVE  Spec => []EntriesDisjoint
<1>1. IInv => EntriesDisjoint
  BY DEF IInv, AllSound, SectorSound, Disjoint, EntriesDisjoint
<1> QED BY Invariance, <1>1, PTL

(* No block is programmed twice without an erase in between.               *)
THEOREM NeverOverwrites ==
  ASSUME IoErrors = {}
  PROVE  Spec => NoOverwrite
<1>1. IInv /\ [Next]_vars =>
        [\A s \in Sector, b \in Block :
           \/ flash'[s][b] = flash[s][b]
           \/ flash[s][b] = Blank
           \/ flash'[s][b] = Blank]_vars
  BY StepNoOverwrite
<1> QED BY Invariance, <1>1, PTL DEF Spec, NoOverwrite
=============================================================================
