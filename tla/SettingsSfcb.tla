----------------------------- MODULE SettingsSfcb ---------------------------
(***************************************************************************)
(* The settings backend of settings_sfcb.c, a client of sfcb with one      *)
(* identifier, SETTINGS_SFCB_ID, for all settings: a location holds        *)
(* "name=value", and a setting is deleted by saving an empty value.        *)
(*                                                                         *)
(* The flash circular buffer is modelled by locations: a sector is the     *)
(* sequence of its entries, in the order a walk meets them.  Sfcb models   *)
(* it by blocks.  An entry that was cut off is one the mount walks over:   *)
(* one it takes for an error, and the format that follows, are in Sfcb     *)
(* alone (TornCrc).                                                        *)
(***************************************************************************)
EXTENDS Integers, Sequences

CONSTANTS
  NSectors,      \* sectors of the file system
  PerSector,     \* locations that fit in a sector
  Names, Values, \* settings and their contents
  HandlersSave,  \* set handlers may save settings
  WriteErrors,   \* what sfcb_write_loc may fail to write
  Missing,       \* no setting, and the empty value that deletes one
  Unreadable,    \* an entry settings_sfcb_read_name finds no setting's name in
  Garbage,       \* a value that was not written, or in part
  NoReq          \* no save is in progress

ASSUME SettingsAssumption ==
  /\ NSectors \in Nat /\ NSectors > 1
  /\ PerSector \in Nat \ {0}
  /\ HandlersSave \in BOOLEAN /\ WriteErrors \subseteq {"name", "value"}
  /\ Missing \notin Values /\ Garbage \notin Values \cup {Missing}
  /\ Unreadable \notin [name: Names, content: Values \cup {Missing, Garbage}]
  /\ NoReq \notin [name: Names, content: Values \cup {Missing}]
                   \cup [id: Names, content: Values \cup {Missing}]

VARIABLES
  ring,       \* the entries of each sector, on flash
  newest,     \* the sector whose start has the highest id, on flash
  at,         \* what the backend is doing
  wr_sector,  \* fs->wr_sector
  req,        \* the setting being saved
  loading,    \* that save was called by a set handler
  loc,        \* where the walk of settings_sfcb_load is
  handed,     \* what this load has given to the set handlers
  excused     \* settings the set handlers interfered with during this load

load == <<loc, handed, excused>>
vars == <<ring, newest, at, wr_sector, req, loading, load>>

Sector  == 0..NSectors - 1
Content == Values \cup {Missing}
Setting == [name: Names, content: Content]
Entry   == [name: Names, content: Content \cup {Garbage}] \cup {Unreadable}
Loc     == [sector: Sector, n: 0..PerSector]

NextSector(s) == (s + 1) % NSectors

NoLoad ==
  /\ loc' = [sector |-> 0, n |-> 0]
  /\ handed' = [n \in Names |-> Missing]
  /\ excused' = {}

Init ==
  /\ ring = [s \in Sector |-> <<>>]
  /\ newest = NSectors                       \* no valid sector start
  /\ at = "off" /\ wr_sector = 0
  /\ req = NoReq /\ loading = FALSE
  /\ loc = [sector |-> 0, n |-> 0]
  /\ handed = [n \in Names |-> Missing]
  /\ excused = {}

-----------------------------------------------------------------------------
(* The walk of sfcb_next_loc: from the sector after the write sector round *)
(* to the write sector.                                                    *)
Age(wr, s) == (s - wr - 1) % NSectors

EntryAt(s, k) == ring[s][k]

Readable == {e \in Sector \X (1..PerSector) :
               e[2] <= Len(ring[e[1]]) /\ EntryAt(e[1], e[2]) # Unreadable}

Later(wr, e, d) == \/ Age(wr, d[1]) > Age(wr, e[1])
                   \/ d[1] = e[1] /\ d[2] > e[2]

NameOf(e) == EntryAt(e[1], e[2]).name

(* settings_sfcb_check_duplicate                                           *)
\* Mutant: only the rest of the sector is searched.
Duplicate_InSector(e) ==
  \E d \in Readable : /\ d[1] = e[1] /\ Later(wr_sector, e, d)
                      /\ NameOf(d) = NameOf(e)

Duplicate(e) ==
  \E d \in Readable : Later(wr_sector, e, d) /\ NameOf(d) = NameOf(e)

(* What load hands out and what compress copies.                           *)
Live(e) ==
  /\ e \in Readable
  /\ EntryAt(e[1], e[2]).content # Missing
  /\ ~ Duplicate(e)

(* settings_sfcb_compress.  The loop is entered when sfcb_next_loc fails   *)
(* and left when it finds an entry; when it finds none, the location is in *)
(* the write sector.                                                       *)
CompressCopies(wr) ==
  LET cs     == NextSector(wr)
      walked == \E s \in Sector : Len(ring[s]) > 0
      ended  == wr
  IN  IF walked \/ ended # cs THEN <<>>
      ELSE SelectSeq([k \in 1..Len(ring[cs]) |-> <<cs, k>>], Live)

-----------------------------------------------------------------------------
(* settings_backend_init: mount, and format if that fails.  compress is    *)
(* only set after the mount.                                               *)
BackendInit ==
  /\ at = "off"
  /\ IF newest = NSectors
       THEN newest' = 0 /\ wr_sector' = 0
       ELSE wr_sector' = newest /\ UNCHANGED newest
  /\ at' = "idle"
  /\ UNCHANGED <<ring, req, loading, load>>

(* settings_sfcb_save as far as sfcb_open_loc finds space or calls         *)
(* sfcb_new_sector.                                                        *)
\* Mutant: the space that is left is not looked at.
Save_NoSpaceCheck(r) ==
  /\ \/ at = "idle" /\ loading' = FALSE
     \/ at = "handler" /\ HandlersSave /\ loading' = TRUE
  /\ req' = r /\ at' = "write"
  /\ UNCHANGED <<wr_sector, ring, newest, load>>

Save(r) ==
  /\ \/ at = "idle" /\ loading' = FALSE
     \/ at = "handler" /\ HandlersSave /\ loading' = TRUE
  /\ req' = r
  /\ IF Len(ring[wr_sector]) < PerSector
       THEN at' = "write" /\ UNCHANGED wr_sector
       ELSE at' = "erase" /\ wr_sector' = NextSector(wr_sector)
  /\ UNCHANGED <<ring, newest, load>>

Erase ==
  /\ at = "erase"
  /\ ring' = [ring EXCEPT ![wr_sector] = <<>>]
  /\ at' = "start"
  /\ UNCHANGED <<newest, wr_sector, req, loading, load>>

(* sfcb_init_sector and compress; then there is space.                     *)
\* Mutant: the sector start gets an id that is not higher than the last.
InitSector_SameId ==
  /\ at = "start"
  /\ at' = "write"
  /\ excused' = IF loading THEN Names ELSE excused
  /\ UNCHANGED <<ring, newest, wr_sector, req, loading, loc, handed>>

InitSector ==
  /\ at = "start"
  /\ newest' = wr_sector
  /\ LET copies == CompressCopies(wr_sector)
     IN  ring' = [ring EXCEPT ![wr_sector] =
                    [k \in 1..Len(copies) |-> EntryAt(copies[k][1],
                                                      copies[k][2])]]
  /\ at' = "write"
  /\ excused' = IF loading THEN Names ELSE excused
  /\ UNCHANGED <<wr_sector, req, loading, loc, handed>>

(* The three sfcb_write_loc, whose results are ignored, and sfcb_close_loc *)
(* with the length the location was opened with: without its name, or the  *)
(* "=" behind it, the entry names no setting; without its value it does.   *)
Failed(r) ==
  (IF "name" \in WriteErrors THEN {Unreadable} ELSE {})
    \cup (IF "value" \in WriteErrors /\ r.content # Missing
           THEN {[name |-> r.name, content |-> Garbage]} ELSE {})

Close ==
  /\ at = "write"
  /\ \E e \in {req} \cup Failed(req) :
       ring' = [ring EXCEPT ![wr_sector] = Append(@, e)]
  /\ at' = IF loading THEN "handler" ELSE "idle"
  /\ excused' = IF loading /\ req.content = Missing
                  THEN excused \cup {req.name} ELSE excused
  /\ req' = NoReq /\ loading' = FALSE
  /\ UNCHANGED <<newest, wr_sector, loc, handed>>

-----------------------------------------------------------------------------
(* settings_sfcb_load                                                      *)
Load ==
  /\ at = "idle"
  /\ at' = "load"
  /\ loc' = [sector |-> NextSector(wr_sector), n |-> 0]
  /\ UNCHANGED <<ring, newest, wr_sector, req, loading, handed, excused>>

(* One turn of the loop of sfcb_next_loc.  The location has no memory of   *)
(* what was in its sector when it came there.                              *)
AtEntry == loc.n < Len(ring[loc.sector])
AtEnd   == loc.sector = wr_sector /\ loc.n = Len(ring[loc.sector])

NextEntry ==
  /\ at = "load" /\ AtEntry
  /\ LET e == <<loc.sector, loc.n + 1>>
     IN  /\ loc' = [loc EXCEPT !.n = @ + 1]
         /\ IF Live(e)
              THEN /\ at' = "handler"      \* settings_call_set_handler
                   /\ handed' = [handed EXCEPT ![NameOf(e)] =
                                   EntryAt(e[1], e[2]).content]
              ELSE UNCHANGED <<at, handed>>
  /\ UNCHANGED <<ring, newest, wr_sector, req, loading, excused>>

SectorEnd ==
  /\ at = "load" /\ ~AtEntry /\ ~AtEnd
  /\ loc' = [sector |-> NextSector(loc.sector), n |-> 0]
  /\ UNCHANGED <<ring, newest, at, wr_sector, req, loading, handed, excused>>

FsEnd ==
  /\ at = "load" /\ AtEnd
  /\ at' = "loaded"
  /\ UNCHANGED <<ring, newest, wr_sector, req, loading, load>>

(* The handler returns 0, or an error that ends the load unnoticed.        *)
HandlerReturns ==
  /\ at = "handler"
  /\ \/ at' = "load" /\ UNCHANGED load
     \/ at' = "idle" /\ NoLoad
  /\ UNCHANGED <<ring, newest, wr_sector, req, loading>>

LoadReturns ==
  /\ at = "loaded"
  /\ at' = "idle" /\ NoLoad
  /\ UNCHANGED <<ring, newest, wr_sector, req, loading>>

-----------------------------------------------------------------------------
(* Power fails.  A location that was being written leaves space that is    *)
(* used up, a sector that was being erased has lost its last blocks, with  *)
(* all of its entries, or its first ones, with the data of the first       *)
(* entries (see Sfcb).                                                     *)
PowerLoss ==
  /\ at # "off"
  /\ \/ UNCHANGED ring
     \/ at = "write" /\ ring' = [ring EXCEPT ![wr_sector] =
                                   Append(@, Unreadable)]
     \/ at = "erase" /\ ring' = [ring EXCEPT ![wr_sector] = <<>>]
     \/ /\ at = "erase"
        /\ \E j \in 1..PerSector :
             ring' = [ring EXCEPT ![wr_sector] =
                        [k \in 1..Len(@) |-> IF k <= j THEN Unreadable
                                             ELSE @[k]]]
  /\ at' = "off" /\ wr_sector' = 0
  /\ req' = NoReq /\ loading' = FALSE
  /\ NoLoad
  /\ UNCHANGED newest

Next == \/ BackendInit \/ Load \/ \E r \in Setting : Save(r)
        \/ Erase \/ InitSector \/ Close
        \/ NextEntry \/ SectorEnd \/ FsEnd \/ HandlerReturns \/ LoadReturns
        \/ PowerLoss

Spec == Init /\ [][Next]_vars

-----------------------------------------------------------------------------
(* Every variable has its type; an entry is only added where there is      *)
(* space, and a load has not run off a sector.                             *)
TypeOK ==
  /\ ring \in [Sector -> UNION {[1..k -> Entry] : k \in 0..PerSector}]
  /\ newest \in 0..NSectors /\ wr_sector \in Sector
  /\ at \in {"off", "idle", "erase", "start", "write", "load", "handler",
             "loaded"}
  /\ req \in Setting \cup {NoReq} /\ loading \in BOOLEAN
  /\ loc \in Loc
  /\ handed \in [Names -> Content \cup {Garbage}]
  /\ excused \subseteq Names

(* What a load after a power failure at this moment would find.            *)
Stored(n) ==
  LET named == {e \in Readable : NameOf(e) = n}
      last  == CHOOSE e \in named : \A d \in named : ~ Later(newest, e, d)
  IN  IF named = {} THEN Missing ELSE EntryAt(last[1], last[2]).content

(* A load that returns has given every set handler the value that is       *)
(* stored, and nothing to the others, whatever was cut off before and      *)
(* whatever the handlers saved meanwhile, as long as that did not start a  *)
(* sector or delete the setting.                                           *)
LoadIsCurrent ==
  at = "loaded" => \A n \in Names \ excused : handed[n] = Stored(n)

Pending == IF req = NoReq THEN NoReq
           ELSE [id |-> req.name, content |-> req.content]

(* settings_sfcb_save commits a value at once, and an older value never    *)
(* comes back, nor does a deleted setting: at worst a setting is lost.     *)
Lossy == INSTANCE KeyStore WITH
           Ids <- Names, Contents <- Content, KeepIds <- {},
           store <- [n \in Names |-> Stored(n)], request <- Pending

NeverBack == Lossy!Spec

(* Settings stay: README.md of sfcb says of compress that it is called "to *)
(* allow stored data to remain available".                                 *)
Lasting == INSTANCE KeyStore WITH
             Ids <- Names, Contents <- Content, KeepIds <- Names,
             store <- [n \in Names |-> Stored(n)], request <- Pending

NothingLost == Lasting!Spec
=============================================================================
