------------------------ MODULE SfcbRefinementProofs ------------------------
(***************************************************************************)
(* What a mount of the flash circular buffer finds out, that compress has  *)
(* saved what is erased, and that the buffer implements KeyStore, the      *)
(* store its README promises: proofs for every number and size of sectors, *)
(* every set of identifiers and contents, a flash driver that returns no   *)
(* error, a client that formats only what it cannot mount, and power       *)
(* failing at any moment.                                                  *)
(*                                                                         *)
(* They rest on an order of the sectors that sfcb.c never writes down: the *)
(* sectors that have a start are those met going back from the newest one, *)
(* and their ids count down from its id, modulo 2^16 in the code.          *)
(***************************************************************************)
EXTENDS SfcbRefinement, SfcbProofs, WellFoundedInduction

(* A block that is cut off has an erased CRC byte, or one that is above the *)
(* CRC of its other bytes.                                                 *)
CrcLast == "below" \notin TornCrc

Behind(w, s) == IF s <= w THEN w - s ELSE (w - s) + NSectors
Back(i, k)   == (i - k) % SecIdMod
Prev(s)      == IF s = 0 THEN NSectors - 1 ELSE s - 1

Newest(f, w) ==
  /\ w \in Started(f)
  /\ \A s \in Started(f) :
       /\ f[s][0].sec_id = Back(f[w][0].sec_id, Behind(w, s))
       /\ \A t \in Sector : Behind(w, t) < Behind(w, s) => t \in Started(f)

(* The next sector gets the id after that of sector w.                     *)
Follows(w) ==
  /\ Newest(flash, w)
  /\ wr_sector_id = (flash[w][0].sec_id + 1) % SecIdMod

Ages ==
  /\ at = "down" => Started(flash) = {} \/ \E w \in Sector : Newest(flash, w)
  /\ at = "format" => Started(flash) = {}
  /\ Mounted => Follows(wr_sector)
  /\ at = "erase" /\ caller # "remount" => Follows(Prev(wr_sector))
  /\ at = "erase" /\ caller = "remount" =>
       /\ Newest(flash, wr_sector)
       /\ wr_sector_id = flash[wr_sector][0].sec_id
  /\ at = "start" => Started(flash) = {} \/ Follows(Prev(wr_sector))

(* A mount would find the data to end where the RAM says.                  *)
DataEnds ==
  at \in {"idle", "compress", "retry"}
    => IsDataEnd(flash[wr_sector], wr_ate_offset, wr_data_offset)

(* The entries compress has met from slot c on, and is to keep, are met    *)
(* again later in the walk.                                                *)
Copied(c) ==
  LET cs == NextSector(wr_sector)
  IN  \A a \in Entries(flash[cs]) :
        a >= c /\ flash[cs][a].id \in KeepIds
          => LaterEntry(flash, wr_sector, cs, a, flash[cs][a].id)

AllCopied ==
  HasCompress =>
    /\ at \in {"idle", "retry", "write"} => Copied(0)
    /\ at = "compress" => Copied(cur)
    /\ at = "copy" => Copied(cur + 1)

(* In a sector that was erased before, copies are nowhere less dense than  *)
(* what they are copies of, so compress never lacks space.                 *)
RoomToCopy ==
  caller \in {"open", "remount"} =>
    /\ at = "compress" =>
         /\ wr_ate_offset >= cur - 1
         /\ \A a \in Entries(flash[NextSector(wr_sector)]) :
              a < cur => wr_data_offset
                           <= flash[NextSector(wr_sector)][a].offset
    /\ at = "copy" =>
         wr_ate_offset >= cur /\ wr_data_offset <= Source.offset

(* The inductive invariant.                                                *)
RInv == /\ IInv /\ Ages /\ DataEnds /\ AllCopied /\ RoomToCopy
        /\ CopiedBeforeErase

-----------------------------------------------------------------------------
(* The scan of sfcb_fs_check, which the model defines recursively.         *)

LEMMA Least ==
  ASSUME NEW T, T \subseteq Nat, T # {}
  PROVE  \E n \in T : \A m \in T : n <= m
<1>1. IsWellFoundedOn(OpToRel(<, Nat), Nat)
  BY NatLessThanWellFounded
<1>2. \E x \in T : \A y \in T : ~ (<<y, x>> \in OpToRel(<, Nat))
  BY <1>1, WFMin
<1>3. PICK x \in T : \A y \in T : ~ (<<y, x>> \in OpToRel(<, Nat))
  BY <1>2
<1>4. \A y \in T : ~ (y < x)
  BY <1>3 DEF OpToRel
<1> QED BY <1>4

Better(f, s, b) ==
  IF s \notin Started(f) THEN b
  ELSE IF b = NSectors THEN s
  ELSE IF Scmp(f[s][0].sec_id, f[b][0].sec_id) > 0 THEN s ELSE b

IsScan(f, n, g) ==
  g = [i \in 0..n |-> IF i = 0 THEN NSectors ELSE Better(f, i - 1, g[i - 1])]

LEMMA ScanExists ==
  ASSUME NEW f, NEW n \in Nat
  PROVE  \E g : IsScan(f, n, g)
<1> DEFINE T == {k \in Nat : ~ \E g : IsScan(f, k, g)}
<1>1. SUFFICES ASSUME T # {} PROVE FALSE
  OBVIOUS
<1>2. PICK k \in T : \A m \in T : k <= m
  BY <1>1, Least
<1>3. CASE k = 0
  <2>1. IsScan(f, 0, [i \in 0..0 |-> NSectors])
    BY DEF IsScan
  <2> QED BY <1>3, <2>1
<1>4. CASE k # 0
  <2>1. k \in Nat /\ k - 1 \in Nat /\ k - 1 \notin T
    BY <1>2, <1>4
  <2>2. PICK g : IsScan(f, k - 1, g)
    BY <2>1
  <2> DEFINE h == [i \in 0..k |-> IF i = k THEN Better(f, k - 1, g[k - 1]) ELSE g[i]]
  <2>3. \A i \in 0..k - 1 : g[i] = IF i = 0 THEN NSectors ELSE Better(f, i - 1, g[i - 1])
    BY <2>1, <2>2 DEF IsScan
  <2>4. \A i \in 0..k : h[i] = IF i = 0 THEN NSectors ELSE Better(f, i - 1, h[i - 1])
    <3> TAKE i \in 0..k
    <3>1. CASE i = 0
      BY <3>1, <2>1, <2>3
    <3>2. CASE i # 0 /\ i # k
      <4>1. i \in 0..k - 1 /\ i - 1 \in 0..k - 1 /\ i - 1 # k /\ i - 1 \in 0..k /\ i \in 0..k
        BY <2>1, <3>2
      <4>2. h[i] = g[i] /\ h[i - 1] = g[i - 1]
        BY <4>1, <3>2
      <4> QED BY <4>1, <4>2, <2>3, <3>2
    <3>3. CASE i = k
      <4>1. k - 1 \in 0..k /\ k - 1 # k
        BY <2>1
      <4>2. h[k - 1] = g[k - 1] /\ h[k] = Better(f, k - 1, g[k - 1])
        BY <4>1, <2>1
      <4> QED BY <4>2, <3>3, <1>4
    <3> QED BY <3>1, <3>2, <3>3
  <2>5. h = [i \in 0..k |-> IF i = 0 THEN NSectors ELSE Better(f, i - 1, h[i - 1])]
    BY <2>4
  <2>6. IsScan(f, k, h)
    BY <2>5 DEF IsScan
  <2> QED BY <2>6
<1> QED BY <1>3, <1>4

LEMMA ScanOf ==
  ASSUME NEW f
  PROVE  \E g : IsScan(f, NSectors, g) /\ NewestStart(f) = g[NSectors]
<1> DEFINE g == CHOOSE best : IsScan(f, NSectors, best)
<1>1. NSectors \in Nat
  BY SizesAssumption
<1>2. IsScan(f, NSectors, g)
  BY <1>1, ScanExists
<1>3. NewestStart(f) = g[NSectors]
  BY DEF NewestStart, IsScan, Better
<1> QED BY <1>2, <1>3

LEMMA Modulo ==
  ASSUME NEW M \in Nat \ {0}, NEW n \in 0..M - 1
  PROVE  n % M = n /\ (n + M) % M = n /\ (n - M) % M = n
  OBVIOUS

LEMMA BackIs ==
  ASSUME NEW i \in SecId, NEW k \in 0..NSectors
  PROVE  /\ Back(i, k) = IF k <= i THEN i - k ELSE (i - k) + SecIdMod
         /\ Back(i, k) \in SecId
<1>1. SecIdMod \in Nat \ {0} /\ i \in 0..SecIdMod - 1 /\ k \in Nat /\ k < SecIdMod
      /\ i \in Nat
  BY SizesAssumption DEF SecId
<1>2. CASE k <= i
  <2>1. i - k \in 0..SecIdMod - 1
    BY <1>1, <1>2
  <2>2. (i - k) % SecIdMod = i - k
    BY <1>1, <2>1, Modulo
  <2> QED BY <1>1, <1>2, <2>1, <2>2 DEF Back, SecId
<1>3. CASE ~ (k <= i)
  <2> DEFINE n == (i - k) + SecIdMod
  <2>1. n \in 0..SecIdMod - 1 /\ n - SecIdMod = i - k
    BY <1>1, <1>3
  <2>2. (n - SecIdMod) % SecIdMod = n
    BY <1>1, <2>1, Modulo
  <2> QED BY <1>1, <1>3, <2>1, <2>2 DEF Back, SecId
<1> QED BY <1>2, <1>3

LEMMA ScmpSign ==
  ASSUME NEW i \in SecId, NEW j \in 0..NSectors - 1, NEW k \in 0..NSectors - 1
  PROVE  Scmp(Back(i, j), Back(i, k)) > 0 <=> j < k
<1>1. SecIdMod \in Nat \ {0} /\ i \in Nat /\ i < SecIdMod /\ SecIdMod >= 2 * NSectors
      /\ j \in Nat /\ k \in Nat /\ j < NSectors /\ k < NSectors /\ NSectors \in Nat
  BY SizesAssumption DEF SecId
<1>2. j \in 0..NSectors /\ k \in 0..NSectors
  BY <1>1
<1>3. /\ Back(i, j) = IF j <= i THEN i - j ELSE (i - j) + SecIdMod
      /\ Back(i, k) = IF k <= i THEN i - k ELSE (i - k) + SecIdMod
  BY <1>2, BackIs
<1> DEFINE a == Back(i, j)
           b == Back(i, k)
           d == (a - b) % SecIdMod
<1>4. d = IF j <= k THEN k - j ELSE (k - j) + SecIdMod
  <2> DEFINE n == IF j <= k THEN k - j ELSE (k - j) + SecIdMod
  <2>1. n \in 0..SecIdMod - 1
    BY <1>1
  <2>2. a - b \in {n, n + SecIdMod, n - SecIdMod}
    BY <1>1, <1>3
  <2> HIDE DEF n, a, b
  <2>3. n \in Nat /\ n % SecIdMod = n /\ (n + SecIdMod) % SecIdMod = n /\ (n - SecIdMod) % SecIdMod = n
    BY <1>1, <2>1, Modulo
  <2>4. (a - b) % SecIdMod = n
    BY <2>2, <2>3
  <2> QED BY <2>4 DEF n
<1> HIDE DEF d
<1>5. Scmp(a, b) = IF 2 * d >= SecIdMod THEN d - SecIdMod ELSE d
  BY DEF Scmp, d
<1> QED BY <1>1, <1>4, <1>5

LEMMA BehindIs ==
  ASSUME NEW w \in Sector, NEW s \in Sector
  PROVE  /\ Behind(w, s) \in 0..NSectors - 1
         /\ Behind(w, s) = 0 <=> s = w
         /\ \A t \in Sector : Behind(w, s) = Behind(w, t) => s = t
  BY SizesAssumption DEF Behind, Sector

(* sfcb_fs_check finds the newest sector.                                  *)
Keeps(f, w, n, b) ==
  IF \E s \in Started(f) : s < n
    THEN /\ b \in Started(f) /\ b < n
         /\ \A s \in Started(f) : s < n => Behind(w, b) <= Behind(w, s)
    ELSE b = NSectors

LEMMA KeepsStep ==
  ASSUME NEW f, NEW w \in Sector, Newest(f, w),
         \A s \in Started(f) : f[s][0].sec_id \in SecId,
         NEW n \in Sector, NEW b, Keeps(f, w, n, b)
  PROVE  Keeps(f, w, n + 1, Better(f, n, b))
<1>1. /\ Started(f) \subseteq Sector /\ Sector \subseteq Int /\ NSectors \notin Sector
      /\ NSectors \in Nat
  BY SizesAssumption DEF Started, Sector
<1>1a. /\ \A s \in Started(f) : s \in Sector /\ s \in Int
       /\ n \in Int
  BY <1>1
<1>2. CASE n \notin Started(f)
  <2>1. \A s \in Started(f) : s < n + 1 <=> s < n
    BY <1>1a, <1>2
  <2>2. Better(f, n, b) = b
    BY <1>2 DEF Better
  <2> QED BY <1>1, <2>1, <2>2 DEF Keeps
<1>3. CASE n \in Started(f) /\ b = NSectors
  <2>1. ~ \E s \in Started(f) : s < n
    BY <1>1, <1>3 DEF Keeps
  <2>2. Better(f, n, b) = n
    BY <1>3 DEF Better
  <2>3. Behind(w, n) \in Int
    BY BehindIs
  <2>4. \A s \in Started(f) : s < n + 1 => s = n
    BY <1>1a, <2>1
  <2> QED BY <1>1, <1>3, <2>2, <2>3, <2>4 DEF Keeps
<1>4. CASE n \in Started(f) /\ b # NSectors
  <2>1. /\ b \in Started(f) /\ b < n
        /\ \A s \in Started(f) : s < n => Behind(w, b) <= Behind(w, s)
    BY <1>4 DEF Keeps
  <2>2. \A s \in Started(f) : Behind(w, s) \in 0..NSectors - 1 /\ Behind(w, s) \in Int
    BY <1>1a, BehindIs
  <2>3. w \in Started(f) /\ f[w][0].sec_id \in SecId
    BY DEF Newest
  <2>4. /\ f[n][0].sec_id = Back(f[w][0].sec_id, Behind(w, n))
        /\ f[b][0].sec_id = Back(f[w][0].sec_id, Behind(w, b))
    BY <1>4, <2>1 DEF Newest
  <2>5. Scmp(f[n][0].sec_id, f[b][0].sec_id) > 0 <=> Behind(w, n) < Behind(w, b)
    BY <1>4, <2>1, <2>2, <2>3, <2>4, ScmpSign
  <2>6. Better(f, n, b) = IF Behind(w, n) < Behind(w, b) THEN n ELSE b
    BY <1>4, <2>5 DEF Better
  <2>7. \A s \in Started(f) : s < n + 1 => s = n \/ s < n
    BY <1>1
  <2> QED BY <1>1, <1>4, <2>1, <2>2, <2>6, <2>7 DEF Keeps
<1> QED BY <1>2, <1>3, <1>4

LEMMA NewestStartIs ==
  ASSUME NEW f, NEW w \in Sector, Newest(f, w),
         \A s \in Started(f) : f[s][0].sec_id \in SecId
  PROVE  NewestStart(f) = w
<1>0. NSectors \in Nat \ {0} /\ Started(f) \subseteq Sector
  BY SizesAssumption DEF Started
<1>1. PICK g : IsScan(f, NSectors, g) /\ NewestStart(f) = g[NSectors]
  BY ScanOf
<1>2. \A i \in 0..NSectors :
        g[i] = IF i = 0 THEN NSectors ELSE Better(f, i - 1, g[i - 1])
  BY <1>1 DEF IsScan
<1> DEFINE T == {i \in 0..NSectors : ~ Keeps(f, w, i, g[i])}
<1>3. T = {}
  <2>1. SUFFICES ASSUME T # {} PROVE FALSE
    OBVIOUS
  <2>2. T \subseteq Nat
    BY <1>0
  <2>3. PICK i \in T : \A m \in T : i <= m
    BY <2>1, <2>2, Least
  <2>4. i # 0
    BY <1>0, <1>2 DEF Keeps, Sector
  <2>5. i - 1 \in Sector /\ i - 1 \in 0..NSectors /\ (i - 1) + 1 = i /\ i - 1 \notin T
    BY <1>0, <2>3, <2>4 DEF Sector
  <2>6. Keeps(f, w, i - 1, g[i - 1])
    BY <2>5
  <2>7. g[i] = Better(f, i - 1, g[i - 1])
    BY <1>2, <2>4
  <2>8. Keeps(f, w, (i - 1) + 1, Better(f, i - 1, g[i - 1]))
    BY <2>5, <2>6, KeepsStep
  <2> QED BY <2>5, <2>7, <2>8
<1>4. Keeps(f, w, NSectors, g[NSectors])
  BY <1>0, <1>3
<1>5. w \in Started(f) /\ w < NSectors
  BY <1>0 DEF Newest, Sector
<1>6. g[NSectors] \in Started(f) /\ Behind(w, g[NSectors]) <= Behind(w, w)
  BY <1>4, <1>5 DEF Keeps
<1>7. g[NSectors] = w
  BY <1>0, <1>6, BehindIs
<1> QED BY <1>1, <1>7

-----------------------------------------------------------------------------
(* How the newest sector changes with the sector starts.                   *)

IsStart(c) == c[0].kind = "start"

LEMMA StartedIs ==
  ASSUME NEW f, NEW s \in Sector
  PROVE  s \in Started(f) <=> IsStart(f[s])
  BY DEF Started, IsStart

(* The same sectors have the same starts.                                  *)
SameStarts(f, g) ==
  \A s \in Sector : \/ g[s][0] = f[s][0]
                    \/ ~ IsStart(f[s]) /\ ~ IsStart(g[s])

LEMMA StartedSame ==
  ASSUME NEW f, NEW g, SameStarts(f, g)
  PROVE  /\ Started(g) = Started(f)
         /\ \A s \in Started(f) : g[s][0] = f[s][0]
  BY DEF SameStarts, Started, IsStart

LEMMA NewestSame ==
  ASSUME NEW f, NEW g, SameStarts(f, g), NEW w, Newest(f, w)
  PROVE  Newest(g, w) /\ g[w][0] = f[w][0]
  BY StartedSame DEF Newest

(* Neighbours                                                              *)
LEMMA PrevNext ==
  ASSUME NEW w \in Sector
  PROVE  /\ Prev(w) \in Sector /\ NextSector(w) \in Sector
         /\ NextSector(Prev(w)) = w /\ Prev(NextSector(w)) = w
         /\ NSectors > 1 => Prev(w) # w
         /\ Behind(w, w) = 0
         /\ \A s \in Sector : s # w => Behind(w, s) = Behind(Prev(w), s) + 1
         /\ Behind(Prev(w), w) = NSectors - 1
  BY SizesAssumption DEF Prev, NextSector, Sector, Behind

(* Ids                                                                     *)
LEMMA UpBack ==
  ASSUME NEW i \in SecId, NEW k \in 0..NSectors - 1
  PROVE  /\ (i + 1) % SecIdMod \in SecId
         /\ Back((i + 1) % SecIdMod, k + 1) = Back(i, k)
         /\ (((i + 1) % SecIdMod) - 1) % SecIdMod = i
         /\ Back(i, 0) = i
         /\ (Back(i, 1) + 1) % SecIdMod = i
         /\ Back(i, k + 1) = Back(Back(i, 1), k)
<1>1. /\ SecIdMod \in Nat \ {0} /\ i \in Nat /\ i < SecIdMod
      /\ SecIdMod >= 2 * NSectors /\ k \in Nat /\ k < NSectors
      /\ NSectors \in Nat /\ SecIdMod > 1
  BY SizesAssumption DEF SecId
<1>2. /\ k \in 0..NSectors /\ k + 1 \in 0..NSectors /\ 0 \in 0..NSectors
      /\ 1 \in 0..NSectors
  BY <1>1
<1> DEFINE u == (i + 1) % SecIdMod
<1>3. u = IF i + 1 = SecIdMod THEN 0 ELSE i + 1
  <2>1. CASE i + 1 = SecIdMod
    <3>1. (0 + SecIdMod) % SecIdMod = 0
      BY <1>1, Modulo
    <3> QED BY <1>1, <2>1, <3>1
  <2>2. CASE i + 1 # SecIdMod
    <3>1. i + 1 \in 0..SecIdMod - 1
      BY <1>1, <2>2
    <3> QED BY <1>1, <2>2, <3>1, Modulo
  <2> QED BY <2>1, <2>2
<1> HIDE DEF u
<1>4. u \in SecId
  BY <1>1, <1>3 DEF SecId
<1>5. Back(u, k + 1) = Back(i, k)
  <2>1. Back(u, k + 1) = IF k + 1 <= u THEN u - (k + 1)
                         ELSE (u - (k + 1)) + SecIdMod
    BY <1>2, <1>4, BackIs
  <2>2. Back(i, k) = IF k <= i THEN i - k ELSE (i - k) + SecIdMod
    BY <1>2, BackIs
  <2> QED BY <1>1, <1>3, <2>1, <2>2
<1>6. Back(u, 1) = i
  <2>1. Back(u, 1) = IF 1 <= u THEN u - 1 ELSE (u - 1) + SecIdMod
    BY <1>2, <1>4, BackIs
  <2> QED BY <1>1, <1>3, <2>1
<1>7. Back(i, 0) = i
  <2>1. Back(i, 0) = IF 0 <= i THEN i - 0 ELSE (i - 0) + SecIdMod
    BY <1>2, BackIs
  <2> QED BY <1>1, <2>1
<1> DEFINE b == Back(i, 1)
<1>8. b = IF 1 <= i THEN i - 1 ELSE (i - 1) + SecIdMod
  BY <1>2, BackIs
<1>9. b \in SecId
  BY <1>2, BackIs
<1> HIDE DEF b
<1>10. (b + 1) % SecIdMod = i
  <2>1. b + 1 = i \/ b + 1 = i + SecIdMod
    BY <1>1, <1>8
  <2>2. i % SecIdMod = i /\ (i + SecIdMod) % SecIdMod = i
    BY <1>1, Modulo
  <2> QED BY <2>1, <2>2
<1>11. Back(i, k + 1) = Back(b, k)
  <2>1. Back(i, k + 1) = IF k + 1 <= i THEN i - (k + 1)
                         ELSE (i - (k + 1)) + SecIdMod
    BY <1>2, BackIs
  <2>2. Back(b, k) = IF k <= b THEN b - k ELSE (b - k) + SecIdMod
    BY <1>2, <1>9, BackIs
  <2> QED BY <1>1, <1>8, <2>1, <2>2
<1> QED BY <1>4, <1>5, <1>6, <1>7, <1>10, <1>11 DEF u, b, Back

(* The sector after the newest one loses its start: it was the oldest.     *)
LEMMA NewestDrop ==
  ASSUME NEW f, NEW g, NEW w \in Sector, Newest(f, Prev(w)), NSectors > 1,
         \A s \in Sector : s # w => g[s][0] = f[s][0], ~ IsStart(g[w])
  PROVE  Newest(g, Prev(w)) /\ g[Prev(w)][0] = f[Prev(w)][0]
<1> DEFINE p == Prev(w)
<1>1. p \in Sector /\ p # w /\ Behind(p, w) = NSectors - 1
  BY PrevNext
<1>2. /\ \A s \in Started(g) : s \in Started(f) /\ s # w /\ g[s][0] = f[s][0]
      /\ \A s \in Started(f) : s # w => s \in Started(g)
      /\ Started(f) \subseteq Sector
  BY DEF Started, IsStart
<1>3. \A s \in Sector : Behind(p, s) <= NSectors - 1
  BY <1>1, BehindIs, SizesAssumption
<1>4. p \in Started(f) /\ g[p][0] = f[p][0] /\ p \in Started(g)
  BY <1>1, <1>2 DEF Newest
<1>5. ASSUME NEW s \in Started(g)
      PROVE  /\ g[s][0].sec_id = Back(g[p][0].sec_id, Behind(p, s))
             /\ \A t \in Sector : Behind(p, t) < Behind(p, s)
                                  => t \in Started(g)
  <2>1. s \in Started(f) /\ s \in Sector /\ g[s][0] = f[s][0]
    BY <1>2
  <2>2. \A t \in Sector : Behind(p, t) < Behind(p, s) => t # w
    BY <1>1, <1>3, <2>1, BehindIs
  <2> QED BY <1>2, <1>4, <2>1, <2>2 DEF Newest
<1> QED BY <1>4, <1>5 DEF Newest

(* The newest sector loses its start: the one before it is the newest.     *)
LEMMA NewestBack ==
  ASSUME NEW f, NEW g, NEW w \in Sector, Newest(f, w),
         \A s \in Started(f) : f[s][0].sec_id \in SecId,
         \A s \in Sector : s # w => g[s][0] = f[s][0], ~ IsStart(g[w])
  PROVE  \/ Started(g) = {}
         \/ /\ Newest(g, Prev(w))
            /\ f[w][0].sec_id = (g[Prev(w)][0].sec_id + 1) % SecIdMod
<1> DEFINE p == Prev(w)
<1>0. SUFFICES ASSUME NEW x \in Started(g)
               PROVE  /\ Newest(g, p)
                      /\ f[w][0].sec_id = (g[p][0].sec_id + 1) % SecIdMod
  OBVIOUS
<1>1. /\ \A s \in Started(g) : s \in Started(f) /\ s # w /\ g[s][0] = f[s][0]
      /\ \A s \in Started(f) : s # w => s \in Started(g)
      /\ Started(f) \subseteq Sector /\ w \in Started(f)
  BY DEF Started, IsStart, Newest
<1>2. /\ p \in Sector /\ p # w /\ Behind(w, p) = 1
      /\ \A s \in Sector : s # w => Behind(w, s) = Behind(p, s) + 1
  <2>1. NSectors > 1
    BY <1>1, SizesAssumption DEF Sector
  <2>2. p \in Sector /\ p # w
    BY <2>1, PrevNext
  <2>3. \A s \in Sector : s # w => Behind(w, s) = Behind(p, s) + 1
    BY PrevNext
  <2>4. Behind(p, p) = 0
    BY <2>2, PrevNext
  <2> QED BY <2>2, <2>3, <2>4
<1>3. p \in Started(g)
  <2>1. Behind(w, x) \in 0..NSectors - 1 /\ Behind(w, x) # 0
    BY <1>1, BehindIs
  <2>2. CASE x = p
    BY <2>2
  <2>3. CASE x # p
    <3>1. Behind(w, x) # 1
      BY <1>1, <1>2, <2>3, BehindIs
    <3>2. Behind(w, p) < Behind(w, x)
      BY <1>2, <2>1, <3>1, SizesAssumption
    <3> QED BY <1>1, <1>2, <3>2 DEF Newest
  <2> QED BY <2>2, <2>3
<1> DEFINE i == f[w][0].sec_id
<1>4. i \in SecId /\ g[p][0].sec_id = Back(i, 1)
  BY <1>1, <1>2, <1>3 DEF Newest
<1> HIDE DEF i
<1>5. 0 \in 0..NSectors - 1
  BY SizesAssumption
<1>6. i = (g[p][0].sec_id + 1) % SecIdMod
  BY <1>4, <1>5, UpBack
<1>7. ASSUME NEW s \in Started(g)
      PROVE  /\ g[s][0].sec_id = Back(g[p][0].sec_id, Behind(p, s))
             /\ \A t \in Sector : Behind(p, t) < Behind(p, s)
                                  => t \in Started(g)
  <2>1. s \in Started(f) /\ s \in Sector /\ s # w /\ g[s][0] = f[s][0]
    BY <1>1
  <2>2. Behind(w, s) = Behind(p, s) + 1 /\ Behind(p, s) \in 0..NSectors - 1
    BY <1>2, <2>1, BehindIs
  <2>3. f[s][0].sec_id = Back(i, Behind(w, s))
    BY <2>1 DEF Newest, i
  <2>4. g[s][0].sec_id = Back(Back(i, 1), Behind(p, s))
    BY <1>4, <2>1, <2>2, <2>3, UpBack
  <2>5. ASSUME NEW t \in Sector, Behind(p, t) < Behind(p, s)
        PROVE  t \in Started(g)
    <3>1. Behind(p, t) \in 0..NSectors - 1 /\ Behind(p, w) = NSectors - 1
      BY <1>2, BehindIs, PrevNext
    <3>2. t # w
      BY <2>2, <2>5, <3>1, SizesAssumption
    <3>3. Behind(w, t) = Behind(p, t) + 1
      BY <1>2, <3>2
    <3>4. Behind(w, t) < Behind(w, s)
      BY <2>2, <2>5, <3>1, <3>3, SizesAssumption
    <3> QED BY <1>1, <2>1, <3>2, <3>4 DEF Newest
  <2> QED BY <1>4, <2>4, <2>5
<1> QED BY <1>3, <1>6, <1>7 DEF Newest, i

(* The sector after the newest one is started.                             *)
LEMMA NewestNext ==
  ASSUME NEW f, NEW g, NEW w \in Sector, NEW i \in SecId,
         \A s \in Started(f) : f[s][0].sec_id \in SecId,
         \/ Started(f) = {}
         \/ /\ Newest(f, Prev(w))
            /\ i = (f[Prev(w)][0].sec_id + 1) % SecIdMod,
         \A s \in Sector : s # w => g[s][0] = f[s][0],
         ~ IsStart(f[w]), g[w][0] = StartOf(i)
  PROVE  Newest(g, w) /\ g[w][0].sec_id = i
<1> DEFINE p == Prev(w)
<1>1. /\ w \in Started(g) /\ g[w][0].sec_id = i /\ w \notin Started(f)
      /\ \A s \in Started(g) : s # w => s \in Started(f) /\ g[s][0] = f[s][0]
      /\ \A s \in Started(f) : s \in Started(g)
      /\ Started(f) \subseteq Sector /\ Started(g) \subseteq Sector
  BY DEF Started, IsStart, StartOf
<1>2. Behind(w, w) = 0 /\ 0 \in 0..NSectors - 1
  BY PrevNext, SizesAssumption
<1>3. Back(i, 0) = i
  BY <1>2, UpBack
<1>4. \A t \in Sector : ~ (Behind(w, t) < 0)
  BY BehindIs
<1>5. CASE Started(f) = {}
  <2>1. \A s \in Started(g) : s = w
    BY <1>1, <1>5
  <2> QED BY <1>1, <1>2, <1>3, <1>4, <2>1 DEF Newest
<1>6. CASE /\ Newest(f, p)
           /\ i = (f[p][0].sec_id + 1) % SecIdMod
  <2> DEFINE j == f[p][0].sec_id
  <2>1. p \in Started(f) /\ p \in Sector /\ j \in SecId
    BY <1>1, <1>6 DEF Newest
  <2> HIDE DEF j
  <2>2. ASSUME NEW s \in Started(g), s # w
        PROVE  /\ g[s][0].sec_id = Back(i, Behind(w, s))
               /\ \A t \in Sector : Behind(w, t) < Behind(w, s)
                                    => t \in Started(g)
    <3>1. s \in Started(f) /\ s \in Sector /\ g[s][0] = f[s][0]
      BY <1>1, <2>2
    <3>2. Behind(w, s) = Behind(p, s) + 1 /\ Behind(p, s) \in 0..NSectors - 1
      BY <2>1, <2>2, <3>1, BehindIs, PrevNext
    <3>3. f[s][0].sec_id = Back(j, Behind(p, s))
      BY <1>6, <3>1 DEF Newest, j
    <3>4. Back((j + 1) % SecIdMod, Behind(p, s) + 1) = Back(j, Behind(p, s))
      BY <2>1, <3>2, UpBack
    <3>5. g[s][0].sec_id = Back(i, Behind(w, s))
      BY <1>6, <3>1, <3>2, <3>3, <3>4 DEF j
    <3>6. ASSUME NEW t \in Sector, Behind(w, t) < Behind(w, s), t # w
          PROVE  t \in Started(g)
      <4>1. Behind(w, t) = Behind(p, t) + 1 /\ Behind(p, t) \in 0..NSectors - 1
        BY <2>1, <3>6, BehindIs, PrevNext
      <4>2. Behind(p, t) < Behind(p, s)
        BY <3>2, <3>6, <4>1
      <4> QED BY <1>1, <1>6, <3>1, <4>2 DEF Newest
    <3> QED BY <1>1, <3>5, <3>6
  <2> QED BY <1>1, <1>2, <1>3, <1>4, <2>2 DEF Newest
<1> QED BY <1>5, <1>6

-----------------------------------------------------------------------------
(* What a write or a copy does to what is there.                           *)

Grown ==
  /\ \A s \in Sector : /\ flash'[s][0] = flash[s][0]
                       /\ s # wr_sector => flash'[s] = flash[s]
                       /\ \A p \in Entries(flash[s]) :
                            p \in Entries(flash'[s]) /\ flash'[s][p] = flash[s][p]

LEMMA BlockGrown ==
  ASSUME IInv, at \in {"copy", "write"}, NEW n \in Nat,
         pos < n, Fits(n), NEW x \in Cell,
         Program(wr_sector, wr_data_offset + pos, x)
  PROVE  Grown
<1>1. /\ \A s \in Sector : s # wr_sector => flash'[s] = flash[s]
      /\ LET c == flash[wr_sector]
             d == flash'[wr_sector]
         IN  /\ \A b \in Block : b # wr_data_offset + pos => d[b] = c[b]
             /\ Entries(d) = Entries(c)
             /\ \A p \in Entries(c) : d[p] = c[p]
  BY BlockFlash
<1>2. 0 \in Block /\ 0 # wr_data_offset + pos
  BY SizesAssumption DEF Block, IInv, TypeOK
<1> QED BY <1>1, <1>2 DEF Grown

LEMMA CloseGrown ==
  ASSUME IInv, at \in {"copy", "write"},
         NEW i \in Ids, NEW n \in Lens, pos = n, Fits(n), CloseAs(i, n)
  PROVE  /\ Grown
         /\ wr_ate_offset \in Entries(flash'[wr_sector])
         /\ flash'[wr_sector][wr_ate_offset].id = i
         /\ IsDataEnd(flash'[wr_sector], wr_ate_offset - 1, wr_data_offset + n)
<1> DEFINE c == flash[wr_sector]
           w == wr_ate_offset
           o == wr_data_offset
           d == [c EXCEPT ![w] = Ate(i, o, n)]
<1>1. /\ wr_sector \in Sector /\ c \in [Block -> Cell]
      /\ w \in Slot /\ o \in 1..SectorSize /\ n \in Nat
  BY SizesAssumption DEF IInv, TypeOK
<1>2. /\ o \in Block /\ o + n < w /\ w - 1 \in Slot /\ w \in Block
      /\ w # 0 /\ w \in Int /\ 0 \in Block /\ o + n \in 1..SectorSize
  BY <1>1, SizesAssumption DEF Fits, Slot, Block
<1>3. c[w] = Blank /\ IsAteEnd(c, w)
  BY DEF IInv, WalkStops
<1>4. \A b \in Block : o + n <= b /\ b <= w => c[b] = Blank
  BY DEF IInv, FreeSpace
<1>5. flash' = [flash EXCEPT ![wr_sector] = d]
  BY <1>3, ProgramBlank DEF CloseAs
<1>6. d[w] = Ate(i, o, n) /\ \A b \in Block : b # w => d[b] = c[b]
  BY <1>1, <1>2
<1>7. /\ IsAte(d, w) /\ d[w].id = i /\ d[w] # Blank
      /\ AteEnd(d[w]) = o + n
  <2>1. /\ Ate(i, o, n).kind = "ate" /\ Ate(i, o, n).offset = o
        /\ Ate(i, o, n).len = n /\ Ate(i, o, n).id = i
        /\ Ate(i, o, n) # Blank
    BY DEF Ate, Blank
  <2> HIDE DEF d
  <2> QED BY <1>6, <2>1 DEF IsAte, AteEnd
<1> HIDE DEF d
<1>8. d[w - 1] = Blank
  <2>1. w - 1 \in Block /\ w - 1 # w /\ o + n <= w - 1 /\ w - 1 <= w
    BY <1>1, <1>2 DEF Slot, Block
  <2> QED BY <1>4, <1>6, <2>1
<1>9. IsAteEnd(d, w - 1)
  <2>1. \A b \in Slot : b > w - 1 => b = w \/ (b > w /\ b \in Block /\ b # w)
    BY <1>2, SizesAssumption DEF Slot, Block
  <2>2. \A b \in Slot : b > w => c[b] # Blank
    BY <1>3 DEF IsAteEnd
  <2> QED BY <1>6, <1>7, <1>8, <2>1, <2>2 DEF IsAteEnd
<1>10. Entries(d) = {p \in Slot : p > w - 1 /\ IsAte(d, p)}
  BY <1>2, <1>8, <1>9, EntriesAbove
<1>11. Entries(c) = {p \in Slot : p > w /\ IsAte(c, p)}
  BY <1>1, <1>3, EntriesAbove
<1>12. w \in Entries(d)
  BY <1>1, <1>2, <1>7, <1>10
<1>13. \A p \in Entries(c) : p \in Entries(d) /\ d[p] = c[p]
  <2> TAKE p \in Entries(c)
  <2>1. p \in Slot /\ p > w /\ IsAte(c, p)
    BY <1>11
  <2>2. p \in Block /\ p # w /\ p > w - 1
    BY <1>2, <2>1, SizesAssumption DEF Slot, Block
  <2> QED BY <1>6, <1>10, <2>1, <2>2 DEF IsAte
<1>14. /\ flash'[wr_sector] = d
       /\ \A s \in Sector : s # wr_sector => flash'[s] = flash[s]
  BY <1>1, <1>5 DEF IInv, TypeOK
<1>15. Grown
  BY <1>2, <1>6, <1>13, <1>14 DEF Grown
<1>16. IsDataEnd(d, w - 1, o + n)
  <2>1. IsLastAteEnd(d, w - 1, o + n)
    <3> DEFINE passed == {p \in Slot : p >= w - 1 /\ IsAte(d, p)}
    <3>1. w \in passed
      BY <1>1, <1>2, <1>7
    <3>2. \A q \in passed : w <= q
      <4> TAKE q \in passed
      <4>1. q # w - 1
        BY <1>8, BlankKind DEF IsAte
      <4> QED BY <4>1, <1>2, SizesAssumption DEF Slot
    <3> QED BY <1>7, <3>1, <3>2 DEF IsLastAteEnd
  <2>2. \A b \in Block : o + n <= b /\ b < w - 1 => d[b] = Blank
    <3> TAKE b \in Block
    <3>1. b < w - 1 => b <= w /\ b # w
      BY <1>2 DEF Block
    <3> QED BY <1>4, <1>6, <3>1
  <2> QED BY <1>2, <2>1, <2>2 DEF IsDataEnd
<1> QED BY <1>7, <1>12, <1>14, <1>15, <1>16

LEMMA LaterKept ==
  ASSUME Grown, NEW wr, NEW s \in Sector, NEW a, NEW i,
         LaterEntry(flash, wr, s, a, i)
  PROVE  LaterEntry(flash', wr, s, a, i)
  BY DEF Grown, LaterEntry

(* The compress sector is another one.                                     *)
LEMMA CompressSector ==
  ASSUME IInv, HasCompress
  PROVE  /\ wr_sector \in Sector /\ NSectors > 1
         /\ NextSector(wr_sector) \in Sector
         /\ NextSector(wr_sector) # wr_sector
         /\ flash[NextSector(wr_sector)] \in [Block -> Cell]
         /\ SectorSound(flash[NextSector(wr_sector)])
<1>1. wr_sector \in Sector /\ NSectors > 1
  BY SizesAssumption DEF IInv, TypeOK
<1>2. NextSector(wr_sector) \in Sector /\ NextSector(wr_sector) # wr_sector
  BY <1>1, NextIsSector
<1> QED BY <1>1, <1>2 DEF IInv, TypeOK, AllSound

LEMMA CopiedKept ==
  ASSUME IInv, Grown, HasCompress, wr_sector' = wr_sector, NEW c, Copied(c)
  PROVE  Copied(c)'
<1>1. /\ NextSector(wr_sector) \in Sector
      /\ NextSector(wr_sector) # wr_sector
  BY CompressSector
<1>2. flash'[NextSector(wr_sector)] = flash[NextSector(wr_sector)]
  BY <1>1 DEF Grown
<1>3. \A a, i : LaterEntry(flash, wr_sector, NextSector(wr_sector), a, i)
                => LaterEntry(flash', wr_sector, NextSector(wr_sector), a, i)
  BY <1>1, LaterKept
<1> QED BY <1>2, <1>3 DEF Copied

(* The write sector is met last.                                           *)
LEMMA WriteSectorLast ==
  ASSUME NEW w \in Sector, NSectors > 1
  PROVE  Age(w, w) > Age(w, NextSector(w)) /\ (NextSector(w) - 1) % NSectors = w
<1>1. NSectors \in Nat \ {0} /\ w \in 0..NSectors - 1 /\ NSectors - 1 \in 0..NSectors - 1
      /\ 0 \in 0..NSectors - 1
  BY SizesAssumption DEF Sector
<1>2. (w - w - 1) % NSectors = NSectors - 1
  <2>1. ((NSectors - 1) - NSectors) % NSectors = NSectors - 1
    BY <1>1, Modulo
  <2>2. (NSectors - 1) - NSectors = w - w - 1
    BY <1>1
  <2> QED BY <2>1, <2>2
<1>3. (NextSector(w) - w - 1) % NSectors = 0
  <2>1. 0 % NSectors = 0 /\ (0 - NSectors) % NSectors = 0
    BY <1>1, Modulo
  <2>2. NextSector(w) - w - 1 = 0 \/ NextSector(w) - w - 1 = 0 - NSectors
    BY <1>1 DEF NextSector
  <2> QED BY <2>1, <2>2
<1>4. (NextSector(w) - 1) % NSectors = w
  <2>1. w % NSectors = w /\ (w - NSectors) % NSectors = w
    BY <1>1, Modulo
  <2>2. NextSector(w) - 1 = w \/ NextSector(w) - 1 = w - NSectors
    BY <1>1 DEF NextSector
  <2> QED BY <2>1, <2>2
<1> QED BY <1>1, <1>2, <1>3, <1>4 DEF Age

-----------------------------------------------------------------------------
(* Steps.                                                                  *)

Recoverable(f) == Started(f) = {} \/ \E w \in Sector : Newest(f, w)

(* Where nothing but the ages matters.                                     *)
LEMMA DownRInv ==
  ASSUME IInv', Down, Recoverable(flash')
  PROVE  RInv'
<1>1. at' = "down" /\ caller' = "none"
  BY DEF Down, Rest
<1>2. Ages' /\ DataEnds' /\ CopiedBeforeErase'
  BY <1>1 DEF Ages, DataEnds, CopiedBeforeErase, Mounted, Recoverable
<1>3. AllCopied' /\ RoomToCopy'
  BY <1>1 DEF AllCopied, RoomToCopy
<1> QED BY <1>2, <1>3 DEF RInv

LEMMA InitRInv == Init => RInv
<1> SUFFICES ASSUME Init PROVE RInv
  OBVIOUS
<1>1. at = "down" /\ caller = "none" /\ flash = [s \in Sector |-> BlankSector]
  BY DEF Init
<1>2. Started(flash) = {}
  <2>1. 0 \in Block
    BY SizesAssumption DEF Block
  <2> QED BY <1>1, <2>1 DEF Started, BlankSector, Blank
<1>3. Ages /\ DataEnds /\ CopiedBeforeErase
  BY <1>1, <1>2 DEF Ages, DataEnds, CopiedBeforeErase, Mounted
<1>4. AllCopied /\ RoomToCopy
  BY <1>1 DEF AllCopied, RoomToCopy
<1> QED BY <1>3, <1>4, InitInv DEF RInv

LEMMA StartIds ==
  ASSUME IInv
  PROVE  \A s \in Started(flash) : s \in Sector /\ flash[s][0].sec_id \in SecId
<1> TAKE s \in Started(flash)
<1>1. s \in Sector /\ flash[s][0].kind = "start" /\ flash[s] \in [Block -> Cell]
  BY DEF Started, IInv, TypeOK
<1>2. flash[s][0] \in Cell
  BY <1>1, SizesAssumption DEF Block
<1> QED BY <1>1, <1>2, StartKind

LEMMA MountRInv ==
  ASSUME RInv, Mount, IInv'
  PROVE  RInv'
<1>1. PICK w \in Started(flash), a \in Slot, d \in 1..SectorSize :
        /\ w = FsCheck(flash)
        /\ IsAteEnd(flash[w], a)
        /\ IsDataEnd(flash[w], a, d)
        /\ wr_sector' = w
        /\ wr_sector_id' = (flash[w][0].sec_id + 1) % SecIdMod
        /\ wr_ate_offset' = a
        /\ wr_data_offset' = d
  BY DEF Mount
<1>2. at = "down" /\ flash' = flash
  BY DEF Mount
<1>3. Newest(flash, w)
  <2>1. PICK v \in Sector : Newest(flash, v)
    BY <1>1, <1>2 DEF RInv, Ages
  <2>2. NewestStart(flash) = v
    BY <2>1, StartIds, NewestStartIs DEF RInv
  <2>3. FsCheck(flash) = v
    BY <2>2 DEF Mount, Mountable, FsCheck
  <2> QED BY <1>1, <2>1, <2>3
<1>4. /\ at' \in {"compress", "idle"} /\ (at' = "idle" => ~ HasCompress)
      /\ HasCompress => at' = "compress" /\ caller' = "mount" /\ cur' = SectorSize
      /\ ~ HasCompress => at' = "idle"
  BY SizesAssumption DEF Mount
<1>5. Ages'
  BY <1>1, <1>2, <1>3, <1>4 DEF Ages, Follows, Mounted
<1>6. DataEnds'
  BY <1>1, <1>2 DEF DataEnds
<1>7. AllCopied'
  <2> SUFFICES ASSUME HasCompress PROVE Copied(cur)'
    BY <1>4 DEF AllCopied
  <2> QED BY <1>4, SizesAssumption DEF Copied, Entries, Slot
<1>8. RoomToCopy'
  BY <1>4 DEF RoomToCopy
<1>9. CopiedBeforeErase'
  BY <1>4 DEF CopiedBeforeErase
<1> QED BY <1>5, <1>6, <1>7, <1>8, <1>9 DEF RInv

LEMMA UnmountRInv ==
  ASSUME RInv, Unmount, IInv'
  PROVE  RInv'
<1>1. Newest(flash, wr_sector) /\ wr_sector \in Sector /\ flash' = flash /\ Down
  BY DEF Unmount, RInv, Ages, Mounted, Follows, IInv, TypeOK
<1> QED BY <1>1, DownRInv DEF Recoverable

(* The write sector has no space: the next one is erased.                  *)
LEMMA GoNewRInv ==
  ASSUME RInv, at \in {"idle", "retry"}, GoNewSector("open"), IInv',
         UNCHANGED <<flash, wr_sector_id>>
  PROVE  RInv'
<1>1. /\ at' = "erase" /\ caller' = "open" /\ wr_sector' = NextSector(wr_sector)
      /\ wr_sector \in Sector /\ Follows(wr_sector)
  BY DEF GoNewSector, RInv, Ages, Mounted, IInv, TypeOK
<1>2. Prev(wr_sector') = wr_sector
  BY <1>1, PrevNext
<1>3. Ages'
  BY <1>1, <1>2 DEF Ages, Follows, Mounted
<1>4. DataEnds' /\ AllCopied' /\ RoomToCopy'
  BY <1>1 DEF DataEnds, AllCopied, RoomToCopy
<1>5. CopiedBeforeErase'
  <2> SUFFICES ASSUME HasCompress,
                      NEW a \in Entries(flash[wr_sector']),
                      flash[wr_sector'][a].id \in KeepIds
               PROVE  LaterEntry(flash, (wr_sector' - 1) % NSectors, wr_sector',
                                 a, flash[wr_sector'][a].id)
    BY DEF CopiedBeforeErase
  <2>1. Copied(0) /\ NSectors > 1
    BY SizesAssumption DEF RInv, AllCopied
  <2>2. (wr_sector' - 1) % NSectors = wr_sector
    BY <1>1, <2>1, WriteSectorLast
  <2>3. a >= 0
    BY SizesAssumption DEF Entries, Slot
  <2> QED BY <1>1, <2>1, <2>2, <2>3 DEF Copied
<1> QED BY <1>3, <1>4, <1>5 DEF RInv

(* Only at, caller, req, nscnt, cur and pos change, in the write sector.   *)
LEMMA StayAges ==
  ASSUME RInv, Mounted, Mounted', UNCHANGED <<flash, ram>>
  PROVE  Ages'
  BY DEF RInv, Ages, Mounted, Follows, ram

LEMMA StayCopied ==
  ASSUME UNCHANGED <<flash, ram>>, NEW c, Copied(c)
  PROVE  Copied(c)'
  BY DEF Copied, ram

(* To where no compress is running.                                        *)
LEMMA StayRInv ==
  ASSUME RInv, at \in {"idle", "retry", "compress"},
         HasCompress => Copied(0), IInv',
         at' \in {"idle", "retry", "write"}, UNCHANGED <<flash, ram>>
  PROVE  RInv'
<1>1. Ages'
  BY StayAges DEF Mounted
<1>2. DataEnds'
  BY DEF RInv, DataEnds, ram
<1>3. AllCopied'
  BY StayCopied DEF AllCopied
<1>4. RoomToCopy' /\ CopiedBeforeErase'
  BY DEF RoomToCopy, CopiedBeforeErase
<1> QED BY <1>1, <1>2, <1>3, <1>4 DEF RInv

LEMMA OpenRInv ==
  ASSUME RInv, NEW r \in Request, Open(r), IInv'
  PROVE  RInv'
<1>1. CASE Fits(r.len)
  BY <1>1, StayRInv DEF Open, RInv, AllCopied
<1>2. CASE ~ Fits(r.len)
  BY <1>2, GoNewRInv DEF Open
<1> QED BY <1>1, <1>2

LEMMA RetryRInv ==
  ASSUME RInv, Retry, IInv'
  PROVE  RInv'
<1>1. at = "retry" /\ flash' = flash /\ (HasCompress => Copied(0))
  BY DEF Retry, RInv, AllCopied
<1>2. CASE Idle
  BY <1>1, <1>2, StayRInv DEF Idle, Rest
<1>3. CASE at' = "write" /\ UNCHANGED ram
  BY <1>1, <1>3, StayRInv
<1>4. CASE GoNewSector("open") /\ UNCHANGED wr_sector_id
  BY <1>1, <1>4, GoNewRInv
<1> QED BY <1>2, <1>3, <1>4 DEF Retry

(* The compress routine returns: with everything copied, or to the mount   *)
(* that starts the sector anew.                                            *)
LEMMA CompressReturnsRInv ==
  ASSUME RInv, NEW ok \in BOOLEAN, at = "compress", CompressReturns(ok),
         UNCHANGED flash, IInv',
         ok => Copied(0), ~ ok => caller = "mount"
  PROVE  RInv'
<1>1. HasCompress /\ Mounted /\ Follows(wr_sector) /\ wr_sector \in Sector
  BY DEF RInv, IInv, Control, Mounted, Ages, TypeOK
<1>2. CASE caller = "open" /\ at' = "retry" /\ UNCHANGED ram
  BY <1>2, StayRInv
<1>3. CASE ok /\ Idle
  BY <1>3, StayRInv DEF Idle, Rest
<1>4. CASE /\ caller = "mount"
           /\ at' = "erase" /\ caller' = "remount"
           /\ wr_sector_id' = (wr_sector_id - 1) % SecIdMod
           /\ UNCHANGED wr_sector
  <2> DEFINE i == flash[wr_sector][0].sec_id
  <2>1. wr_sector_id = (i + 1) % SecIdMod /\ Newest(flash, wr_sector)
    BY <1>1 DEF Follows
  <2>2. i \in SecId /\ 0 \in 0..NSectors - 1
    BY <2>1, StartIds, SizesAssumption DEF RInv, Newest
  <2> HIDE DEF i
  <2>3. (((i + 1) % SecIdMod) - 1) % SecIdMod = i
    BY <2>2, UpBack
  <2>4. Ages'
    BY <1>4, <2>1, <2>3 DEF Ages, Mounted, i
  <2>5. DataEnds' /\ AllCopied' /\ RoomToCopy' /\ CopiedBeforeErase'
    BY <1>4 DEF DataEnds, AllCopied, RoomToCopy, CopiedBeforeErase
  <2> QED BY <2>4, <2>5 DEF RInv
<1>5. ~ (~ ok /\ caller = "remount" /\ Down)
  OBVIOUS
<1> QED BY <1>2, <1>3, <1>4, <1>5 DEF CompressReturns

LEMMA CompressDoneRInv ==
  ASSUME RInv, CompressDone, IInv'
  PROVE  RInv'
<1>1. /\ at = "compress" /\ ToCopy(cur) = {} /\ CompressReturns(TRUE)
      /\ flash' = flash /\ HasCompress /\ Copied(cur)
  BY DEF CompressDone, RInv, IInv, Control, AllCopied
<1>2. Copied(0)
  <2> DEFINE cs == NextSector(wr_sector)
  <2> SUFFICES ASSUME NEW a \in Entries(flash[cs]), flash[cs][a].id \in KeepIds
               PROVE  LaterEntry(flash, wr_sector, cs, a, flash[cs][a].id)
    BY DEF Copied
  <2>1. a \in Int /\ cur \in Int
    BY SizesAssumption DEF RInv, IInv, TypeOK, Entries, Slot
  <2>2. CASE a >= cur
    BY <1>1, <2>2 DEF Copied
  <2>3. CASE a < cur
    BY <1>1, <2>3 DEF ToCopy
  <2> QED BY <2>1, <2>2, <2>3
<1> QED BY <1>1, <1>2, CompressReturnsRInv

LEMMA CompressNextRInv ==
  ASSUME RInv, CompressNext, IInv'
  PROVE  RInv'
<1> DEFINE cs == NextSector(wr_sector)
<1>1. /\ at = "compress" /\ flash' = flash /\ HasCompress /\ Copied(cur)
      /\ Mounted
  BY DEF CompressNext, RInv, IInv, Control, AllCopied, Mounted
<1>2. PICK e \in ToCopy(cur) :
        /\ \A b \in ToCopy(cur) : b <= e
        /\ IF Fits(flash[cs][e].len)
             THEN /\ at' = "copy" /\ cur' = e /\ pos' = 0
                  /\ UNCHANGED <<caller, ram, req, nscnt>>
             ELSE CompressReturns(FALSE)
  BY DEF CompressNext
<1>3. /\ e \in Entries(flash[cs]) /\ e < cur
      /\ cs \in Sector /\ flash[cs] \in [Block -> Cell] /\ SectorSound(flash[cs])
  BY <1>1, CompressSector DEF ToCopy, RInv
<1>4. /\ e \in Slot /\ e \in Int /\ cur \in Int /\ wr_ate_offset \in Int
      /\ wr_data_offset \in Int
      /\ flash[cs][e].offset \in Int /\ flash[cs][e].len \in Nat
      /\ flash[cs][e].offset + flash[cs][e].len < e
  <2>1. e \in Slot /\ e \in Block /\ flash[cs][e].kind = "ate"
    BY <1>3, SizesAssumption DEF Entries, IsAte, Slot, Block
  <2>2. flash[cs][e].offset \in Int /\ flash[cs][e].len \in Nat
    BY <1>3, <2>1, CellKind
  <2>3. AteEnd(flash[cs][e]) < e
    BY <1>3 DEF SectorSound, Disjoint
  <2> QED BY <2>1, <2>2, <2>3, SizesAssumption
          DEF AteEnd, RInv, IInv, TypeOK, Slot
<1>5. CASE Fits(flash[cs][e].len)
  <2>1. at' = "copy" /\ cur' = e /\ UNCHANGED <<flash, caller, ram>>
    BY <1>1, <1>2, <1>5
  <2>2. Ages'
    BY <1>1, <2>1, StayAges DEF Mounted
  <2>3. DataEnds' /\ CopiedBeforeErase'
    BY <2>1 DEF DataEnds, CopiedBeforeErase
  <2>4. Copied(e + 1)
    <3> SUFFICES ASSUME NEW a \in Entries(flash[cs]), a >= e + 1,
                        flash[cs][a].id \in KeepIds
                 PROVE  LaterEntry(flash, wr_sector, cs, a, flash[cs][a].id)
      BY DEF Copied
    <3>1. a \in Int
      BY SizesAssumption DEF Entries, Slot
    <3>2. CASE a >= cur
      BY <1>1, <3>2 DEF Copied
    <3>3. CASE a < cur
      <4>1. a \notin ToCopy(cur)
        BY <1>2, <1>4, <3>1
      <4> QED BY <3>3, <4>1 DEF ToCopy
    <3> QED BY <1>4, <3>1, <3>2, <3>3
  <2>5. Copied(e + 1)'
    BY <2>1, <2>4, StayCopied
  <2>6. AllCopied'
    BY <2>1, <2>5 DEF AllCopied, Copied
  <2>7. RoomToCopy'
    <3> SUFFICES ASSUME caller \in {"open", "remount"}
                 PROVE  wr_ate_offset >= e /\ wr_data_offset <= flash[cs][e].offset
      BY <2>1 DEF RoomToCopy, Source, ram
    <3>1. /\ wr_ate_offset >= cur - 1
          /\ \A a \in Entries(flash[cs]) :
               a < cur => wr_data_offset <= flash[cs][a].offset
      BY <1>1 DEF RInv, RoomToCopy
    <3> QED BY <1>3, <1>4, <3>1
  <2> QED BY <2>2, <2>3, <2>6, <2>7 DEF RInv
<1>6. CASE ~ Fits(flash[cs][e].len)
  <2>1. caller \notin {"open", "remount"}
    <3> SUFFICES ASSUME caller \in {"open", "remount"} PROVE FALSE
      OBVIOUS
    <3>1. /\ wr_ate_offset >= cur - 1
          /\ \A a \in Entries(flash[cs]) :
               a < cur => wr_data_offset <= flash[cs][a].offset
      BY <1>1 DEF RInv, RoomToCopy
    <3>2. wr_ate_offset >= e /\ wr_data_offset <= flash[cs][e].offset
      BY <1>3, <1>4, <3>1
    <3> QED BY <1>4, <1>6, <3>2 DEF Fits
  <2>2. caller = "mount"
    BY <1>1, <2>1 DEF RInv, IInv, Control, TypeOK
  <2>3. CompressReturns(FALSE)
    BY <1>2, <1>6
  <2> QED BY <1>1, <2>2, <2>3, CompressReturnsRInv
<1> QED BY <1>5, <1>6

(* A block of a copy or a write                                            *)
LEMMA BlockRInv ==
  ASSUME RInv, Grown, at \in {"copy", "write"}, IInv',
         UNCHANGED <<at, caller, ram, req, nscnt, cur>>
  PROVE  RInv'
<1>1. wr_sector' = wr_sector /\ wr_sector_id' = wr_sector_id
      /\ wr_ate_offset' = wr_ate_offset /\ wr_data_offset' = wr_data_offset
  BY DEF ram
<1>2. Newest(flash', wr_sector) /\ flash'[wr_sector][0] = flash[wr_sector][0]
  BY NewestSame DEF RInv, Ages, Mounted, Follows, Grown, SameStarts
<1>3. Ages'
  BY <1>1, <1>2 DEF RInv, Ages, Mounted, Follows
<1>4. DataEnds' /\ CopiedBeforeErase'
  BY DEF DataEnds, CopiedBeforeErase
<1>5. AllCopied'
  <2> SUFFICES ASSUME HasCompress
               PROVE  /\ at = "write" => Copied(0)'
                      /\ at = "copy" => Copied(cur + 1)'
    BY DEF AllCopied
  <2>1. at = "write" => Copied(0)'
    BY <1>1, CopiedKept DEF RInv, AllCopied
  <2>2. PICK k \in {cur + 1} : TRUE
    OBVIOUS
  <2>3. at = "copy" => Copied(k)
    BY <2>2 DEF RInv, AllCopied
  <2>4. at = "copy" => Copied(k)'
    BY <1>1, <2>3, CopiedKept DEF RInv
  <2>5. at = "copy" => Copied(cur + 1)'
    BY <2>2, <2>4 DEF Copied
  <2> QED BY <2>1, <2>5
<1>6. RoomToCopy'
  <2>1. CASE at = "write"
    BY <2>1 DEF RoomToCopy
  <2>2. CASE at = "copy"
    <3>1. HasCompress
      BY <2>2 DEF RInv, IInv, Control
    <3>2. flash'[NextSector(wr_sector)] = flash[NextSector(wr_sector)]
      BY <3>1, CompressSector DEF Grown, RInv
    <3> QED BY <1>1, <2>2, <3>2 DEF RInv, RoomToCopy, Source
  <2> QED BY <2>1, <2>2
<1> QED BY <1>3, <1>4, <1>5, <1>6 DEF RInv

LEMMA CopyBlockRInv ==
  ASSUME RInv, CopyBlock, IInv'
  PROVE  RInv'
<1>1. /\ at = "copy" /\ pos < Source.len /\ Source.len \in Nat
      /\ Fits(Source.len) /\ UNCHANGED <<at, caller, ram, req, nscnt, cur>>
      /\ Program(wr_sector, wr_data_offset + pos,
                 flash[NextSector(wr_sector)][Source.offset + pos])
      /\ flash[NextSector(wr_sector)][Source.offset + pos] \in Cell
  BY SourceFacts, SizesAssumption DEF CopyBlock, RInv
<1>2. Grown
  BY <1>1, BlockGrown DEF RInv
<1> QED BY <1>1, <1>2, BlockRInv

LEMMA WriteBlockRInv ==
  ASSUME RInv, WriteBlock, IInv'
  PROVE  RInv'
<1>1. /\ at = "write" /\ pos < req.len /\ req.len \in Nat
      /\ Fits(req.len) /\ UNCHANGED <<at, caller, ram, req, nscnt, cur>>
      /\ Program(wr_sector, wr_data_offset + pos, Data(req.val))
      /\ Data(req.val) \in Cell
  BY WriteFacts DEF WriteBlock, RInv
<1>2. Grown
  BY <1>1, BlockGrown DEF RInv
<1> QED BY <1>1, <1>2, BlockRInv

LEMMA CopyCloseRInv ==
  ASSUME RInv, CopyClose, IInv'
  PROVE  RInv'
<1> DEFINE cs == NextSector(wr_sector)
<1>1. /\ at = "copy" /\ at' = "compress" /\ pos = Source.len
      /\ UNCHANGED <<caller, cur>> /\ CloseAs(Source.id, Source.len)
      /\ wr_sector' = wr_sector /\ wr_sector_id' = wr_sector_id
      /\ wr_ate_offset' = wr_ate_offset - 1
      /\ wr_data_offset' = wr_data_offset + Source.len
  BY DEF CopyClose, CloseAs
<1>2. /\ HasCompress /\ cur \in Entries(flash[cs]) /\ Copied(cur + 1)
      /\ Fits(Source.len) /\ Source.len \in Lens /\ Source.id \in Ids
  BY <1>1, SourceFacts DEF RInv, IInv, Control, AllCopied
<1>3. /\ Grown
      /\ wr_ate_offset \in Entries(flash'[wr_sector])
      /\ flash'[wr_sector][wr_ate_offset].id = Source.id
      /\ IsDataEnd(flash'[wr_sector], wr_ate_offset - 1,
                   wr_data_offset + Source.len)
  BY <1>1, <1>2, CloseGrown DEF RInv
<1>4. /\ wr_sector \in Sector /\ cs \in Sector /\ cs # wr_sector
      /\ NSectors > 1 /\ SectorSound(flash[cs])
      /\ flash[cs] \in [Block -> Cell]
  BY <1>2, CompressSector DEF RInv
<1>5. flash'[cs] = flash[cs]
  BY <1>3, <1>4 DEF Grown
<1>6. Ages'
  <2>1. Newest(flash', wr_sector) /\ flash'[wr_sector][0] = flash[wr_sector][0]
    BY <1>1, <1>3, NewestSame
       DEF RInv, Ages, Mounted, Follows, Grown, SameStarts
  <2> QED BY <1>1, <2>1 DEF RInv, Ages, Mounted, Follows
<1>7. DataEnds' /\ CopiedBeforeErase'
  BY <1>1, <1>3 DEF DataEnds, CopiedBeforeErase
<1>8. AllCopied'
  <2>1. PICK k \in {cur + 1} : TRUE
    OBVIOUS
  <2>2. Copied(k)'
    BY <1>1, <1>2, <1>3, <2>1, CopiedKept DEF RInv
  <2>3. LaterEntry(flash', wr_sector, cs, cur, Source.id)
    BY <1>3, <1>4, WriteSectorLast DEF LaterEntry
  <2>4. ASSUME NEW a \in Entries(flash[cs]), a >= cur,
               flash[cs][a].id \in KeepIds
        PROVE  LaterEntry(flash', wr_sector, cs, a, flash[cs][a].id)
    <3>1. a \in Int /\ cur \in Int
      BY <1>2, SizesAssumption DEF Entries, Slot
    <3>2. CASE a = cur
      BY <2>3, <3>2 DEF Source
    <3>3. CASE a >= k
      BY <1>1, <1>5, <2>2, <2>4, <3>3 DEF Copied
    <3> QED BY <2>1, <2>4, <3>1, <3>2, <3>3
  <2>5. Copied(cur)'
    BY <1>1, <1>5, <2>4 DEF Copied
  <2> QED BY <1>1, <2>5 DEF AllCopied
<1>9. RoomToCopy'
  <2> SUFFICES ASSUME caller \in {"open", "remount"},
                      NEW a \in Entries(flash[cs]), a < cur
               PROVE  /\ wr_ate_offset - 1 >= cur - 1
                      /\ wr_data_offset + Source.len <= flash[cs][a].offset
    <3>1. caller \in {"open", "remount"} => wr_ate_offset >= cur
      BY <1>1 DEF RInv, RoomToCopy
    <3>2. wr_ate_offset \in Int /\ cur \in Int
      BY <1>2, SizesAssumption DEF Entries, Slot, RInv, IInv, TypeOK
    <3> QED BY <1>1, <1>5, <3>1, <3>2 DEF RoomToCopy
  <2>1. wr_ate_offset >= cur /\ wr_data_offset <= Source.offset
    BY <1>1 DEF RInv, RoomToCopy
  <2>2. Source.offset + Source.len <= flash[cs][a].offset
    BY <1>2, <1>4 DEF SectorSound, Disjoint, AteEnd, Source
  <2>3. /\ a \in Block /\ cur \in Block /\ flash[cs][a].kind = "ate"
        /\ flash[cs][cur].kind = "ate"
    BY <1>2, SizesAssumption DEF Entries, IsAte, Slot, Block
  <2>4. /\ flash[cs][a].offset \in Int /\ Source.offset \in Int
        /\ Source.len \in Int
    BY <1>4, <2>3, CellKind DEF Source
  <2>5. wr_ate_offset \in Int /\ cur \in Int /\ wr_data_offset \in Int
    BY <2>3, SizesAssumption DEF Block, Slot, RInv, IInv, TypeOK
  <2> QED BY <2>1, <2>2, <2>4, <2>5
<1> QED BY <1>6, <1>7, <1>8, <1>9 DEF RInv

LEMMA CloseRInv ==
  ASSUME RInv, Close, IInv'
  PROVE  RInv'
<1>1. /\ at = "write" /\ at' = "idle" /\ pos = req.len
      /\ CloseAs(req.id, req.len)
      /\ wr_sector' = wr_sector /\ wr_sector_id' = wr_sector_id
      /\ wr_ate_offset' = wr_ate_offset - 1
      /\ wr_data_offset' = wr_data_offset + req.len
  BY DEF Close, CloseAs, Rest
<1>2. /\ Grown
      /\ IsDataEnd(flash'[wr_sector], wr_ate_offset - 1, wr_data_offset + req.len)
  BY <1>1, WriteFacts, CloseGrown DEF RInv
<1>3. Newest(flash', wr_sector) /\ flash'[wr_sector][0] = flash[wr_sector][0]
  BY <1>1, <1>2, NewestSame
     DEF RInv, Ages, Mounted, Follows, Grown, SameStarts
<1>4. Ages'
  BY <1>1, <1>3 DEF RInv, Ages, Mounted, Follows
<1>5. DataEnds' /\ CopiedBeforeErase' /\ RoomToCopy'
  BY <1>1, <1>2 DEF DataEnds, CopiedBeforeErase, RoomToCopy
<1>6. AllCopied'
  BY <1>1, <1>2, CopiedKept DEF RInv, AllCopied
<1> QED BY <1>4, <1>5, <1>6 DEF RInv

(* sfcb_format erases what could not be mounted.                           *)
LEMMA FormatSectorRInv ==
  ASSUME RInv, FormatSector, IInv'
  PROVE  RInv'
<1>1. /\ at = "format" /\ at' = "format" /\ Started(flash) = {}
      /\ caller' = caller
      /\ \/ flash' = flash
         \/ flash' = [flash EXCEPT ![cur] = BlankSector]
  BY DEF FormatSector, RInv, Ages
<1>2. Started(flash') = {}
  <2>1. ~ IsStart(BlankSector)
    BY SizesAssumption DEF IsStart, BlankSector, Block, Blank
  <2> QED BY <1>1, <2>1 DEF Started, IsStart, RInv, IInv, TypeOK
<1>3. Ages'
  BY <1>1, <1>2 DEF Ages, Mounted
<1>4. DataEnds' /\ CopiedBeforeErase' /\ AllCopied'
  BY <1>1 DEF DataEnds, CopiedBeforeErase, AllCopied
<1>5. RoomToCopy'
  BY <1>1 DEF RoomToCopy
<1> QED BY <1>3, <1>4, <1>5 DEF RInv

(* The first sector is the only one with a start.                          *)
LEMMA FormatDoneRInv ==
  ASSUME RInv, FormatDone, IInv'
  PROVE  RInv'
<1>1. /\ at = "format" /\ cur = NSectors /\ Started(flash) = {}
      /\ Program(0, 0, StartOf(0)) /\ Down
  BY DEF FormatDone, RInv, Ages
<1>2. flash[0] = BlankSector /\ 0 \in Sector /\ 0 \in SecId /\ 0 \in Block
  BY <1>1, SizesAssumption DEF RInv, IInv, Control, Sector, SecId, Block
<1>3. ~ IsStart(flash[0]) /\ flash[0][0] = Blank
  BY <1>2 DEF IsStart, BlankSector, Blank
<1>4. flash' = [flash EXCEPT ![0] = [flash[0] EXCEPT ![0] = StartOf(0)]]
  BY <1>1, <1>3, ProgramBlank
<1>5. /\ flash'[0][0] = StartOf(0)
      /\ \A s \in Sector : s # 0 => flash'[s][0] = flash[s][0]
  BY <1>2, <1>4 DEF RInv, IInv, TypeOK
<1>6. PICK w \in {0} : TRUE
  OBVIOUS
<1>7. Newest(flash', w)
  BY <1>1, <1>2, <1>3, <1>5, <1>6, StartIds, NewestNext DEF RInv
<1> QED BY <1>1, <1>2, <1>6, <1>7, DownRInv DEF Recoverable

(* When no cut-off block reads as an error only a flash without a sector   *)
(* start cannot be mounted.                                                *)
LEMMA NoneBelow ==
  ASSUME CrcLast, NEW c \in Cell
  PROVE  ~ CrcBelow(c)
  BY DEF CrcLast, CrcBelow, Cell, Blank, TornCell, StartCell, AteCell, DataCell

(* Sector starts carry ids.                                                *)
RightIds(f) == \A s \in Started(f) : f[s][0].sec_id \in SecId

LEMMA FlashMountable ==
  ASSUME CrcLast, NEW f \in [Sector -> [Block -> Cell]],
         Recoverable(f), RightIds(f)
  PROVE  /\ Mountable(f) <=> Started(f) # {}
         /\ ~ StartsFail(f) /\ FsCheck(f) = NewestStart(f)
<1>2. \A s \in Sector, b \in Block : ~ CrcBelow(f[s][b])
  BY NoneBelow
<1>3. ~ StartsFail(f)
  BY <1>2, SizesAssumption DEF StartsFail, Block
<1>4. FsCheck(f) = NewestStart(f)
  BY <1>3 DEF FsCheck
<1>5. CASE \E w \in Sector : Newest(f, w)
  <2>1. PICK w \in Sector : Newest(f, w)
    BY <1>5
  <2>2. NewestStart(f) = w
    BY <2>1, NewestStartIs DEF RightIds
  <2>3. ~ AtesFail(f[w])
    BY <1>2, <2>1, SizesAssumption DEF AtesFail, Slot, Block
  <2>4. Started(f) # {}
    BY <2>1 DEF Newest
  <2> QED BY <1>3, <1>4, <2>2, <2>3, <2>4 DEF Mountable
<1>6. CASE Started(f) = {}
  BY <1>3, <1>4, <1>6 DEF Mountable
<1> QED BY <1>5, <1>6 DEF Recoverable

LEMMA MountableIs ==
  ASSUME CrcLast, IInv, Recoverable(flash)
  PROVE  /\ Mountable(flash) <=> Started(flash) # {}
         /\ ~ StartsFail(flash) /\ FsCheck(flash) = NewestStart(flash)
  BY FlashMountable, StartIds DEF IInv, TypeOK, RightIds

LEMMA FormatCallRInv ==
  ASSUME AnyFormat = FALSE, CrcLast, RInv, FormatCall, IInv'
  PROVE  RInv'
<1>1. /\ at' = "format" /\ at = "down" /\ Started(flash) = {}
      /\ UNCHANGED <<flash, caller>>
  BY MountableIs DEF FormatCall, RInv, Ages, Recoverable
<1>2. Ages'
  BY <1>1 DEF Ages, Mounted
<1>3. DataEnds' /\ CopiedBeforeErase' /\ AllCopied'
  BY <1>1 DEF DataEnds, CopiedBeforeErase, AllCopied
<1>4. RoomToCopy'
  BY <1>1 DEF RoomToCopy
<1> QED BY <1>2, <1>3, <1>4 DEF RInv

(* An erased sector has no start, whatever was there.                      *)
LEMMA EraseAges ==
  ASSUME RInv, at = "erase", NEW g,
         \A s \in Sector : s # wr_sector => g[s][0] = flash[s][0],
         ~ IsStart(g[wr_sector])
  PROVE  \/ Started(g) = {}
         \/ /\ Newest(g, Prev(wr_sector))
            /\ wr_sector_id = (g[Prev(wr_sector)][0].sec_id + 1) % SecIdMod
<1>1. wr_sector \in Sector
  BY DEF RInv, IInv, TypeOK
<1>2. CASE caller = "remount"
  <2>1. /\ Newest(flash, wr_sector)
        /\ wr_sector_id = flash[wr_sector][0].sec_id
    BY <1>2 DEF RInv, Ages
  <2> QED BY <1>1, <2>1, StartIds, NewestBack DEF RInv
<1>3. CASE caller # "remount" /\ NSectors > 1
  <2>1. Follows(Prev(wr_sector))
    BY <1>3 DEF RInv, Ages
  <2>2. Newest(g, Prev(wr_sector))
        /\ g[Prev(wr_sector)][0] = flash[Prev(wr_sector)][0]
    BY <1>1, <1>3, <2>1, NewestDrop DEF Follows
  <2> QED BY <2>1, <2>2 DEF Follows
<1>4. CASE ~ (NSectors > 1)
  <2>1. Sector = {wr_sector}
    BY <1>1, <1>4, SizesAssumption DEF Sector
  <2> QED BY <2>1 DEF Started, IsStart
<1> QED BY <1>2, <1>3, <1>4

LEMMA EraseRInv ==
  ASSUME RInv, Erase, IInv'
  PROVE  RInv'
<1>1. /\ at = "erase" /\ at' = "start"
      /\ flash' = [flash EXCEPT ![wr_sector] = BlankSector]
      /\ UNCHANGED <<caller, wr_sector, wr_sector_id>>
  BY DEF Erase, ram
<1>2. ~ IsStart(BlankSector)
  BY SizesAssumption DEF IsStart, BlankSector, Block, Blank
<1>3. /\ \A s \in Sector : s # wr_sector => flash'[s][0] = flash[s][0]
      /\ ~ IsStart(flash'[wr_sector])
  BY <1>1, <1>2 DEF RInv, IInv, TypeOK
<1>4. \/ Started(flash') = {}
      \/ /\ Newest(flash', Prev(wr_sector))
         /\ wr_sector_id = (flash'[Prev(wr_sector)][0].sec_id + 1) % SecIdMod
  BY <1>1, <1>3, EraseAges
<1>5. Ages'
  BY <1>1, <1>4 DEF Ages, Mounted, Follows
<1>6. DataEnds' /\ CopiedBeforeErase' /\ AllCopied'
  BY <1>1 DEF DataEnds, CopiedBeforeErase, AllCopied
<1>7. RoomToCopy'
  BY <1>1 DEF RoomToCopy
<1> QED BY <1>5, <1>6, <1>7 DEF RInv

LEMMA InitSectorRInv ==
  ASSUME RInv, InitSector, IInv'
  PROVE  RInv'
<1>1. /\ at = "start" /\ wr_sector' = wr_sector /\ caller' = caller
      /\ Program(wr_sector, 0, StartOf(wr_sector_id))
      /\ wr_sector_id' = (wr_sector_id + 1) % SecIdMod
      /\ wr_ate_offset' = SectorSize - 1 /\ wr_data_offset' = 1
      /\ \/ HasCompress /\ at' = "compress" /\ cur' = SectorSize
         \/ ~ HasCompress /\ at' = "retry"
  BY SizesAssumption DEF InitSector
<1>2. /\ wr_sector \in Sector /\ wr_sector_id \in SecId /\ 0 \in Block
      /\ flash[wr_sector] = BlankSector
  BY <1>1, SizesAssumption DEF RInv, IInv, TypeOK, Control, Block
<1>3. ~ IsStart(flash[wr_sector]) /\ flash[wr_sector][0] = Blank
  BY <1>2 DEF IsStart, BlankSector, Blank
<1>4. flash' = [flash EXCEPT ![wr_sector] =
                  [flash[wr_sector] EXCEPT ![0] = StartOf(wr_sector_id)]]
  BY <1>1, <1>3, ProgramBlank
<1>5. /\ flash'[wr_sector][0] = StartOf(wr_sector_id)
      /\ \A b \in Slot : flash'[wr_sector][b] = Blank
      /\ \A s \in Sector : s # wr_sector => flash'[s] = flash[s]
  BY <1>2, <1>4, SizesAssumption
     DEF RInv, IInv, TypeOK, Slot, Block, BlankSector
<1>6. Newest(flash', wr_sector) /\ flash'[wr_sector][0].sec_id = wr_sector_id
  <2>1. \/ Started(flash) = {}
        \/ /\ Newest(flash, Prev(wr_sector))
           /\ wr_sector_id = (flash[Prev(wr_sector)][0].sec_id + 1) % SecIdMod
    BY <1>1 DEF RInv, Ages, Follows
  <2>2. \A s \in Sector : s # wr_sector => flash'[s][0] = flash[s][0]
    BY <1>5
  <2>3. \A s \in Started(flash) : flash[s][0].sec_id \in SecId
    BY StartIds DEF RInv
  <2>4. PICK w \in {wr_sector}, i \in {wr_sector_id} : TRUE
    OBVIOUS
  <2>5. Newest(flash', w) /\ flash'[w][0].sec_id = i
    <3>1. \/ Started(flash) = {}
          \/ /\ Newest(flash, Prev(w))
             /\ i = (flash[Prev(w)][0].sec_id + 1) % SecIdMod
      BY <2>1, <2>4
    <3>2. w \in Sector /\ i \in SecId /\ ~ IsStart(flash[w])
          /\ flash'[w][0] = StartOf(i)
      BY <1>2, <1>3, <1>5, <2>4
    <3>3. \A s \in Sector : s # w => flash'[s][0] = flash[s][0]
      BY <2>2, <2>4
    <3> QED BY <2>3, <3>1, <3>2, <3>3, NewestNext
  <2> QED BY <2>4, <2>5
<1>7. Ages'
  BY <1>1, <1>6 DEF Ages, Mounted, Follows
<1>8. DataEnds'
  <2> DEFINE d == flash'[wr_sector]
  <2>1. IsLastAteEnd(d, SectorSize - 1, 1)
    BY <1>5, BlankKind DEF IsLastAteEnd, IsAte
  <2>2. \A b \in Block : 1 <= b => d[b] = Blank
    BY <1>5 DEF Block, Slot
  <2>3. 1 \in 1..SectorSize
    BY SizesAssumption
  <2> HIDE DEF d
  <2>4. IsDataEnd(d, SectorSize - 1, 1)
    BY <2>1, <2>2, <2>3 DEF IsDataEnd
  <2> QED BY <1>1, <2>4 DEF DataEnds, d
<1>9. AllCopied'
  BY <1>1, SizesAssumption DEF AllCopied, Copied, Entries, Slot
<1>10. CopiedBeforeErase'
  BY <1>1 DEF CopiedBeforeErase
<1>11. RoomToCopy'
  <2> SUFFICES ASSUME HasCompress, NEW a \in Entries(flash'[NextSector(wr_sector)])
               PROVE  1 <= flash'[NextSector(wr_sector)][a].offset
    BY <1>1, SizesAssumption DEF RoomToCopy
  <2>1. NextSector(wr_sector) \in Sector
    BY <1>2, NextIsSector
  <2>2. flash'[NextSector(wr_sector)][a].offset >= 1
    BY <2>1 DEF IInv, AllSound, SectorSound, Disjoint
  <2>3. flash'[NextSector(wr_sector)][a].offset \in Int
    <3>1. /\ a \in Block /\ flash'[NextSector(wr_sector)][a].kind = "ate"
          /\ flash'[NextSector(wr_sector)] \in [Block -> Cell]
      BY <2>1, SizesAssumption DEF Entries, Slot, Block, IsAte, IInv, TypeOK
    <3> QED BY <3>1, CellKind
  <2> QED BY <2>2, <2>3
<1> QED BY <1>7, <1>8, <1>9, <1>10, <1>11 DEF RInv

(* Power fails at any step.                                                *)
LEMMA PowerLossRInv ==
  ASSUME RInv, PowerLoss, IInv'
  PROVE  RInv'
<1> SUFFICES Recoverable(flash')
  BY DownRInv DEF PowerLoss
<1>0. wr_sector \in Sector /\ flash \in [Sector -> [Block -> Cell]]
      /\ at # "down" /\ 0 \in Block /\ Prev(wr_sector) \in Sector
  BY SizesAssumption, PrevNext DEF PowerLoss, RInv, IInv, TypeOK, Block
<1>1. Recoverable(flash)
  <2>1. CASE Mounted \/ at \in {"erase", "start", "format"}
    BY <1>0, <2>1 DEF Recoverable, RInv, Ages, Follows
  <2> QED BY <1>0, <2>1 DEF RInv, IInv, TypeOK, Mounted
<1>2. ASSUME SameStarts(flash, flash') PROVE Recoverable(flash')
  BY <1>1, <1>2, StartedSame, NewestSame DEF Recoverable
<1>3. CASE UNCHANGED flash
  BY <1>1, <1>3
<1>4. ASSUME Programming, NEW x \in TornCell, Program(Target[1], Target[2], x)
      PROVE  Recoverable(flash')
  <2>1. PICK s \in {Target[1]}, b \in {Target[2]} : TRUE
    OBVIOUS
  <2>2. s \in Sector /\ b \in Block /\ flash[s][b] = Blank /\ Program(s, b, x)
    BY <1>4, <2>1, TargetBlank DEF RInv
  <2>3. flash' = [flash EXCEPT ![s] = [flash[s] EXCEPT ![b] = x]]
    BY <2>2, ProgramBlank
  <2>4. \A t \in Sector : \/ flash'[t][0] = flash[t][0]
                          \/ flash[t][0] = Blank /\ flash'[t][0] = x
    BY <1>0, <2>2, <2>3
  <2>5. SameStarts(flash, flash')
    BY <2>4, BlankKind, TornKind DEF SameStarts, IsStart
  <2> QED BY <1>2, <2>5
<1>5. ASSUME NEW p \in PartialErases, NEW s \in Sector,
             \/ at = "erase" /\ s = wr_sector
             \/ at = "format" /\ s = cur /\ FormatErases(s),
             flash' = [flash EXCEPT ![s] = Erased(@, p)]
      PROVE  Recoverable(flash')
  <2>1. /\ \A t \in Sector : t # s => flash'[t][0] = flash[t][0]
        /\ flash'[s][0] = IF 0 \in p THEN Blank ELSE flash[s][0]
    BY <1>0, <1>5 DEF Erased
  <2>2. CASE 0 \notin p
    <3>1. \A t \in Sector : flash'[t][0] = flash[t][0]
      BY <2>1, <2>2
    <3> QED BY <1>2, <3>1 DEF SameStarts
  <2>3. CASE 0 \in p /\ at = "erase"
    <3>1. ~ IsStart(flash'[s]) /\ s = wr_sector
      BY <1>5, <2>1, <2>3, BlankKind DEF IsStart
    <3>2. PICK g \in {flash'} : TRUE
      OBVIOUS
    <3>3. Started(g) = {} \/ Newest(g, Prev(wr_sector))
      BY <2>1, <2>3, <3>1, <3>2, EraseAges
    <3> QED BY <1>0, <3>2, <3>3 DEF Recoverable
  <2>4. CASE 0 \in p /\ at = "format"
    <3>1. Started(flash) = {}
      BY <2>4 DEF RInv, Ages
    <3>2. ~ IsStart(flash'[s])
      BY <2>1, <2>4, BlankKind DEF IsStart
    <3>3. Started(flash') = {}
      BY <2>1, <3>1, <3>2 DEF Started, IsStart
    <3> QED BY <3>3 DEF Recoverable
  <2> QED BY <1>5, <2>2, <2>3, <2>4
<1> QED BY <1>3, <1>4, <1>5 DEF PowerLoss, ProgramTorn

LEMMA StepRInv ==
  ASSUME IoErrors = {}, AnyFormat = FALSE, CrcLast, RInv, [Next]_vars
  PROVE  RInv'
<1>0. IInv'
  BY StepInv DEF RInv
<1>1. CASE UNCHANGED vars
  <2>1. UNCHANGED <<flash, at, caller, ram, cur>>
    BY <1>1 DEF vars
  <2>2. Ages'
    BY <2>1 DEF RInv, Ages, Mounted, Follows, ram
  <2>3. DataEnds' /\ CopiedBeforeErase'
    BY <2>1 DEF RInv, DataEnds, CopiedBeforeErase, ram
  <2>4. AllCopied'
    BY <2>1 DEF RInv, AllCopied, Copied, ram
  <2>5. RoomToCopy'
    BY <2>1 DEF RInv, RoomToCopy, Source, ram
  <2> QED BY <1>0, <2>2, <2>3, <2>4, <2>5 DEF RInv
<1>2. CASE Client
  BY <1>0, <1>2, MountRInv, UnmountRInv, FormatCallRInv, OpenRInv DEF Client
<1>3. CASE Step
  BY <1>0, <1>3, FormatSectorRInv, FormatDoneRInv, EraseRInv, InitSectorRInv,
     RetryRInv, CompressDoneRInv, CompressNextRInv, CopyBlockRInv,
     CopyCloseRInv, WriteBlockRInv, CloseRInv DEF Step
<1>4. CASE PowerLoss
  BY <1>0, <1>4, PowerLossRInv
<1>5. CASE FlashError
  BY <1>5 DEF FlashError
<1> QED BY <1>1, <1>2, <1>3, <1>4, <1>5 DEF Next

-----------------------------------------------------------------------------
(* Formatting, which needs none of this: neither what the RAM says nor     *)
(* whether the flash driver reports errors matters to it.                  *)

Shape(f) == f = [s \in Sector |-> [b \in Block |-> f[s][b]]]

FormatInv ==
  /\ Shape(flash)
  /\ at = "down" => cur = 0
  /\ at = "format" =>
       /\ cur \in 0..NSectors
       /\ \A s \in Sector : s < cur => Entries(flash[s]) = {}
       /\ cur > 0 => flash[0] = BlankSector

LEMMA ProgramShape ==
  ASSUME Shape(flash), NEW s, NEW b, NEW x, Program(s, b, x)
  PROVE  /\ Shape(flash')
         /\ \A t \in Sector : t # s => flash'[t] = flash[t]
         /\ s \in Sector =>
              \A k \in Block : k # b => flash'[s][k] = flash[s][k]
<1>0. PICK y : flash' = [flash EXCEPT ![s][b] = y]
  BY DEF Program
<1> DEFINE c == [flash[s] EXCEPT ![b] = y]
<1>1. flash' = [flash EXCEPT ![s] = c]
  BY <1>0
<1>2. s \in Sector => c = [k \in Block |-> c[k]]
  <2>1. s \in Sector => flash[s] = [k \in Block |-> flash[s][k]]
    BY DEF Shape
  <2> QED BY <2>1
<1>3. s \in Sector => \A k \in Block : k # b => c[k] = flash[s][k]
  BY <1>2
<1> HIDE DEF c
<1>4. \A t \in Sector : flash'[t] = IF t = s THEN c ELSE flash[t]
  BY <1>1 DEF Shape
<1>5. flash' = [t \in Sector |-> flash'[t]]
  BY <1>1 DEF Shape
<1>6. \A t \in Sector : flash'[t] = [k \in Block |-> flash'[t][k]]
  BY <1>2, <1>4 DEF Shape
<1>7. Shape(flash')
  BY <1>5, <1>6 DEF Shape
<1> QED BY <1>3, <1>4, <1>7

LEMMA EraseShape ==
  ASSUME Shape(flash), NEW s, NEW c, c = [b \in Block |-> c[b]],
         flash' = [flash EXCEPT ![s] = c]
  PROVE  /\ Shape(flash')
         /\ \A t \in Sector : flash'[t] = IF t = s THEN c ELSE flash[t]
<1>1. \A t \in Sector : flash'[t] = IF t = s THEN c ELSE flash[t]
  BY DEF Shape
<1>2. flash' = [t \in Sector |-> flash'[t]]
  BY DEF Shape
<1>3. \A t \in Sector : flash'[t] = [k \in Block |-> flash'[t][k]]
  BY <1>1 DEF Shape
<1> QED BY <1>1, <1>2, <1>3 DEF Shape

(* Most steps leave format alone.                                          *)
LEMMA ElsewhereFormat ==
  ASSUME Shape(flash'), at' # "format", at' = "down" => cur' = 0
  PROVE  FormatInv'
  BY DEF FormatInv

LEMMA FormatSectorFormat ==
  ASSUME FormatInv, FormatSector
  PROVE  FormatInv'
<1>1. /\ at = "format" /\ at' = "format" /\ cur \in 0..NSectors
      /\ cur < NSectors /\ cur' = cur + 1 /\ Shape(flash)
  BY DEF FormatInv, FormatSector
<1>2. cur \in Sector /\ NSectors \in Nat \ {0}
  BY <1>1, SizesAssumption DEF Sector
<1>2a. cur + 1 \in 0..NSectors
  BY <1>1, <1>2
<1>2b. ASSUME Shape(flash'), flash'[0] = BlankSector,
              \A s \in Sector : s < cur + 1 => Entries(flash'[s]) = {}
       PROVE  FormatInv'
  BY <1>1, <1>2a, <1>2b DEF FormatInv
<1>3. CASE FormatErases(cur)
  <2>1. flash' = [flash EXCEPT ![cur] = BlankSector]
    BY <1>3 DEF FormatSector
  <2>2. BlankSector = [b \in Block |-> BlankSector[b]]
    BY DEF BlankSector
  <2>3. /\ Shape(flash')
        /\ \A t \in Sector : flash'[t] = IF t = cur THEN BlankSector ELSE flash[t]
    BY <1>1, <2>1, <2>2, EraseShape
  <2>4. \A s \in Sector : s < cur + 1 => s = cur \/ (s < cur /\ s # cur)
    BY <1>2 DEF Sector
  <2>5. \A s \in Sector : s < cur + 1 => Entries(flash'[s]) = {}
    BY <1>1, <2>3, <2>4, BlankSound DEF FormatInv
  <2>6. flash'[0] = BlankSector
    BY <1>1, <1>2, <2>3 DEF FormatInv, Sector
  <2> QED BY <1>2b, <2>3, <2>5, <2>6
<1>4. CASE ~ FormatErases(cur)
  <2>1. flash' = flash /\ cur # 0 /\ flash[cur][SectorSize - 1] = Blank
    BY <1>4 DEF FormatSector, FormatErases
  <2>2. Entries(flash[cur]) = {}
    BY <2>1, SizesAssumption DEF Entries, Slot
  <2>3. \A s \in Sector : s < cur + 1 => s = cur \/ s < cur
    BY <1>2 DEF Sector
  <2>4. \A s \in Sector : s < cur + 1 => Entries(flash[s]) = {}
    BY <1>1, <2>2, <2>3 DEF FormatInv
  <2>5. flash[0] = BlankSector
    BY <1>1, <1>2, <2>1 DEF FormatInv, Sector
  <2> QED BY <1>1, <1>2b, <2>1, <2>4, <2>5
<1> QED BY <1>3, <1>4

LEMMA PlaceAfterCompress ==
  ASSUME NEW ok \in BOOLEAN, CompressReturns(ok)
  PROVE  at' # "format" /\ (at' = "down" => cur' = 0)
  BY DEF CompressReturns, Idle, Down, Rest

LEMMA StepFormat ==
  ASSUME FormatInv, [Next]_vars
  PROVE  FormatInv'
<1>0. Shape(flash)
  BY DEF FormatInv
<1>1. CASE UNCHANGED vars
  <2>1. flash' = flash /\ at' = at /\ cur' = cur
    BY <1>1 DEF vars
  <2> QED BY <2>1 DEF FormatInv
<1>2. CASE Mount \/ Unmount \/ Retry \/ \E r \in Request : Open(r)
  <2>1. Shape(flash')
    BY <1>0, <1>2 DEF Mount, Unmount, Retry, Open
  <2>2. at' # "format" /\ (at' = "down" => cur' = 0)
    BY <1>2 DEF Mount, Unmount, Retry, Open, GoNewSector, Down, Idle, Rest
  <2> QED BY <2>1, <2>2, ElsewhereFormat
<1>3. CASE FormatCall
  <2>1. flash' = flash /\ at' = "format" /\ cur' = cur /\ cur = 0
    BY <1>3 DEF FormatCall, FormatInv
  <2>2. 0 \in 0..NSectors /\ \A s \in Sector : ~ (s < 0)
    BY SizesAssumption DEF Sector
  <2> QED BY <1>0, <2>1, <2>2 DEF FormatInv
<1>4. CASE FormatSector
  BY <1>4, FormatSectorFormat
<1>5. CASE CompressDone \/ CompressNext
  <2>1. Shape(flash')
    BY <1>0, <1>5 DEF CompressDone, CompressNext
  <2>2. at' # "format" /\ (at' = "down" => cur' = 0)
    BY <1>5, PlaceAfterCompress DEF CompressDone, CompressNext
  <2> QED BY <2>1, <2>2, ElsewhereFormat
<1>6. CASE FormatDone \/ InitSector \/ CopyBlock \/ CopyClose
           \/ WriteBlock \/ Close
  <2>1. PICK s, b, x : Program(s, b, x)
    BY <1>6 DEF FormatDone, InitSector, CopyBlock, CopyClose, WriteBlock,
                Close, CloseAs
  <2>2. Shape(flash')
    BY <1>0, <2>1, ProgramShape
  <2>3. at' # "format" /\ (at' = "down" => cur' = 0)
    BY <1>6 DEF FormatDone, InitSector, CopyBlock, CopyClose, WriteBlock,
                Close, Down, Rest
  <2> QED BY <2>2, <2>3, ElsewhereFormat
<1>7. CASE Erase
  <2>1. BlankSector = [b \in Block |-> BlankSector[b]]
    BY DEF BlankSector
  <2>2. Shape(flash')
    BY <1>0, <1>7, <2>1, EraseShape DEF Erase
  <2> QED BY <1>7, <2>2, ElsewhereFormat DEF Erase
<1>8. CASE PowerLoss
  <2>1. UNCHANGED flash => Shape(flash')
    BY <1>0
  <2>2. ProgramTorn(Target[1], Target[2]) => Shape(flash')
    BY <1>0, ProgramShape DEF ProgramTorn
  <2>3. ASSUME NEW p, NEW s, flash' = [flash EXCEPT ![s] = Erased(@, p)]
        PROVE  Shape(flash')
    <3>1. PICK c \in {Erased(flash[s], p)} : TRUE
      OBVIOUS
    <3>2. c = [b \in Block |-> c[b]] /\ flash' = [flash EXCEPT ![s] = c]
      BY <2>3, <3>1 DEF Erased
    <3> QED BY <1>0, <3>2, EraseShape
  <2>4. Shape(flash')
    BY <1>8, <2>1, <2>2, <2>3 DEF PowerLoss
  <2> QED BY <1>8, <2>4, ElsewhereFormat DEF PowerLoss, Down, Rest
<1>9. CASE FlashError
  <2>1. UNCHANGED flash \/ ProgramTorn(Target[1], Target[2])
    BY <1>9 DEF FlashError
  <2>2. Shape(flash')
    BY <1>0, <2>1, ProgramShape DEF ProgramTorn
  <2>3. at' # "format" /\ (at' = "down" => cur' = 0)
    BY <1>9, PlaceAfterCompress DEF FlashError, Idle, Down, Rest
  <2> QED BY <2>2, <2>3, ElsewhereFormat
<1> QED BY <1>1, <1>2, <1>3, <1>4, <1>5, <1>6, <1>7, <1>8, <1>9
        DEF Next, Client, Step

LEMMA InitFormat == Init => FormatInv
<1> SUFFICES ASSUME Init PROVE FormatInv
  OBVIOUS
<1>1. flash = [s \in Sector |-> BlankSector]
  BY DEF Init
<1>2. Shape(flash)
  BY <1>1 DEF Shape, BlankSector
<1> QED BY <1>2 DEF Init, FormatInv

(* The last step of sfcb_format, done, cut off or failed.                  *)
LEMMA FormatLast ==
  ASSUME FormatInv, Next, at = "format", cur = NSectors
  PROVE  \A s \in Sector : Entries(flash'[s]) = {}
<1>1. /\ Shape(flash) /\ \A s \in Sector : Entries(flash[s]) = {}
      /\ 0 \in Sector /\ flash[0] = BlankSector
  <2>1. NSectors \in Nat \ {0} /\ \A s \in Sector : s < NSectors
    BY SizesAssumption DEF Sector
  <2> QED BY <2>1 DEF FormatInv, Sector
<1>2. \/ UNCHANGED flash
      \/ \E x : Program(0, 0, x)
  <2>1. CASE PowerLoss \/ FlashError
    <3>1. Target[1] = 0 /\ Target[2] = 0
      BY DEF Target
    <3>2. cur \notin Sector
      BY SizesAssumption DEF Sector
    <3> QED BY <2>1, <3>1, <3>2 DEF PowerLoss, FlashError, ProgramTorn
  <2>2. CASE Client
    BY <2>2 DEF Client, Mount, Unmount, FormatCall, Open
  <2>3. CASE Step
    <3>1. FormatDone
      BY <2>3, SizesAssumption
         DEF Step, FormatSector, FormatDone, Erase, InitSector, Retry,
             CompressDone, CompressNext, CopyBlock, CopyClose, WriteBlock,
             Close
    <3> QED BY <3>1 DEF FormatDone
  <2> QED BY <2>1, <2>2, <2>3 DEF Next
<1>3. CASE UNCHANGED flash
  BY <1>1, <1>3
<1>4. ASSUME NEW x, Program(0, 0, x)
      PROVE  \A s \in Sector : Entries(flash'[s]) = {}
  <2>1. /\ \A t \in Sector : t # 0 => flash'[t] = flash[t]
        /\ \A k \in Block : k # 0 => flash'[0][k] = flash[0][k]
    BY <1>1, <1>4, ProgramShape
  <2>2. \A k \in Slot : k \in Block /\ k # 0 /\ BlankSector[k] = Blank
    BY SizesAssumption DEF Slot, Block, BlankSector
  <2>3. Entries(flash'[0]) = {}
    BY <1>1, <2>1, <2>2, BlankKind DEF Entries, IsAte
  <2> QED BY <1>1, <2>1, <2>3
<1> QED BY <1>2, <1>3, <1>4

-----------------------------------------------------------------------------
(* Theorems                                                                *)

THEOREM RecoveryInvariance ==
  ASSUME IoErrors = {}, AnyFormat = FALSE, CrcLast
  PROVE  Spec => []RInv
<1>1. RInv /\ [Next]_vars => RInv'
  BY StepRInv
<1> QED BY InitRInv, <1>1, PTL DEF Spec

LEMMA NewestFound ==
  ASSUME CrcLast, RInv, at = "idle"
  PROVE  Mountable(flash) /\ FsCheck(flash) = wr_sector
<1>1. Newest(flash, wr_sector) /\ wr_sector \in Sector
  BY DEF RInv, Ages, Mounted, Follows, IInv, TypeOK
<1>2. Started(flash) # {} /\ Recoverable(flash)
  BY <1>1 DEF Newest, Recoverable
<1> QED BY <1>1, <1>2, StartIds, NewestStartIs, MountableIs DEF RInv

(* After any number of writes, copies, erases and power failures sfcb_mount*)
(* works the write sector, its next id and both offsets out to be what the *)
(* RAM said: the scan of sfcb_fs_check, ids that wrapped included, ends on *)
(* the sector that was started last.                                       *)
THEOREM MountFindsRam ==
  ASSUME IoErrors = {}, AnyFormat = FALSE, CrcLast
  PROVE  Spec => []MountAgrees
<1>1. RInv => MountAgrees
  <2> SUFFICES ASSUME RInv, at = "idle" PROVE MountAgrees
    BY DEF MountAgrees
  <2>1. Mountable(flash) /\ FsCheck(flash) = wr_sector
    BY NewestFound
  <2>2. wr_sector_id = (flash[wr_sector][0].sec_id + 1) % SecIdMod
    BY DEF RInv, Ages, Mounted, Follows
  <2>3. IsAteEnd(flash[wr_sector], wr_ate_offset)
    BY DEF RInv, IInv, WalkStops
  <2>4. IsDataEnd(flash[wr_sector], wr_ate_offset, wr_data_offset)
    BY DEF RInv, DataEnds
  <2> QED BY <2>1, <2>2, <2>3, <2>4 DEF MountAgrees
<1> QED BY RecoveryInvariance, <1>1, PTL

(* No sector sfcb_open_loc erases holds the last entry of an identifier    *)
(* the compress routine is to keep: there was always room to copy it.      *)
THEOREM NothingErasedUncopied ==
  ASSUME IoErrors = {}, AnyFormat = FALSE, CrcLast
  PROVE  Spec => []CopiedBeforeErase
<1>1. RInv => CopiedBeforeErase
  BY DEF RInv
<1> QED BY RecoveryInvariance, <1>1, PTL

(* Nothing can be read after sfcb_format, whatever was there, wherever     *)
(* power failed and whichever flash operation returned an error.           *)
THEOREM FormatLeavesNothing == Spec => FormatEmpties
<1>1. FormatInv /\ [Next]_vars => FormatInv'
  BY StepFormat
<1>2. FormatInv /\ [Next]_vars =>
        [at = "format" /\ cur = NSectors
           => \A i \in Ids : Recovered'[i] = Missing]_vars
  <2> SUFFICES ASSUME FormatInv, Next, at = "format", cur = NSectors
               PROVE  \A i \in Ids : Recovered'[i] = Missing
    BY DEF vars
  <2>1. \A s \in Sector : Entries(flash'[s]) = {}
    BY FormatLast
  <2>2. \A i \in Ids : Met(flash', i) = {}
    BY <2>1 DEF Met
  <2> QED BY <2>2 DEF Recovered, Read
<1> QED BY InitFormat, <1>1, <1>2, PTL DEF Spec, FormatEmpties

-----------------------------------------------------------------------------
(***************************************************************************)
(* The refinement.                                                         *)
(*                                                                         *)
(* The store is what a mount would find if power failed now.  It follows   *)
(* the last entry of an identifier round the walk of sfcb_next_loc: each   *)
(* lemma XStore says that step X keeps the invariant Promised and is a     *)
(* step of the store, most of them because it leaves the entries that are  *)
(* read as they were (SameEntries), sfcb_close_loc because it adds one at  *)
(* the end (Added), and an erase because what it takes is met again later, *)
(* or is not to be kept (ErasedTo, Lost).                                  *)
(***************************************************************************)
-----------------------------------------------------------------------------
(* The walk when w is the newest sector, and what it is about to lose.     *)

(* A sector without a start has entries only where an erase was cut off.   *)
Gap(f, w) ==
  \A t \in Sector : t \notin Started(f) /\ t # NextSector(w)
                      => Entries(f[t]) = {}

(* The oldest sector may be erased ...                                     *)
AllKept(f, w) ==
  LET cs == NextSector(w)
  IN  \A a \in Entries(f[cs]) :
        f[cs][a].id \in KeepIds => LaterEntry(f, w, cs, a, f[cs][a].id)

(* ... or the newest: it holds nothing but copies of the last entries of   *)
(* the oldest.                                                             *)
IsCopy(f, w, p, a) ==
  LET cs == NextSector(w)
  IN  /\ f[cs][a].id = f[w][p].id
      /\ Content(f[cs], f[cs][a]) = Content(f[w], f[w][p])
      /\ \A t \in Sector : \A b \in Entries(f[t]) :
           t # w /\ f[t][b].id = f[w][p].id => t = cs /\ b >= a

OnlyCopies(f, w) ==
  LET cs == NextSector(w)
  IN  /\ cs \in Started(f) \/ Entries(f[cs]) = {}
      /\ \A p \in Entries(f[w]) : \E a \in Entries(f[cs]) : IsCopy(f, w, p, a)

(* In the sector order of RecoveryInvariance one of the two holds.         *)
Walk(f) ==
  \A w \in Sector :
    Newest(f, w) => Gap(f, w) /\ (AllKept(f, w) \/ OnlyCopies(f, w))

(* sfcb_fs_init starts the newest sector anew when it holds but copies.    *)
Restarted ==
  at = "erase" => \/ caller = "open"
                  \/ caller = "remount" /\ OnlyCopies(flash, wr_sector)

(* The only sector there was has been erased.                              *)
Emptied ==
  at = "start" /\ Started(flash) = {}
    => \A s \in Sector : Entries(flash[s]) = {}

(* sfcb_copy_loc copies a last entry, and has copied pos blocks of it.     *)
Copying ==
  at = "copy" =>
    LET cs == NextSector(wr_sector)
    IN  /\ cur \in Entries(flash[cs]) /\ Source.id \in KeepIds
        /\ ~ LaterEntry(flash, wr_sector, cs, cur, Source.id)
        /\ \A k \in 0..pos - 1 :
             flash[wr_sector][wr_data_offset + k] = flash[cs][Source.offset + k]

(* What sfcb_write_loc has programmed of the location.                     *)
Writing ==
  at = "write" =>
    \A k \in 0..pos - 1 :
      flash[wr_sector][wr_data_offset + k] = Data(req.val)

NoWrite == at \in {"down", "idle"} => req = NoReq

(* What a mount would find, and what the step under way relies on.         *)
Promised ==
  Walk(flash) /\ Restarted /\ Emptied /\ Copying /\ Writing /\ NoWrite

(* The inductive invariant.                                                *)
SInv == RInv /\ FormatInv /\ Promised

-----------------------------------------------------------------------------
(* What a read finds.                                                      *)

LEMMA AgeIs ==
  ASSUME NEW wr \in Sector, NEW s \in Sector
  PROVE  Age(wr, s) = (NSectors - 1) - Behind(wr, s)
<1>1. /\ NSectors \in Nat \ {0} /\ wr \in Int /\ s \in Int
      /\ 0 <= wr /\ wr < NSectors /\ 0 <= s /\ s < NSectors
  BY SizesAssumption DEF Sector
<1>2. CASE s <= wr
  <2>1. PICK n \in {(NSectors - 1) - (wr - s)} : TRUE
    OBVIOUS
  <2>2. n \in 0..NSectors - 1 /\ s - wr - 1 = n - NSectors
    BY <1>1, <1>2, <2>1
  <2>3. (n - NSectors) % NSectors = n
    BY <1>1, <2>2, Modulo
  <2> QED BY <1>2, <2>1, <2>2, <2>3 DEF Age, Behind
<1>3. CASE ~ (s <= wr)
  <2>1. PICK n \in {s - wr - 1} : TRUE
    OBVIOUS
  <2>2. n \in 0..NSectors - 1
    BY <1>1, <1>3, <2>1
  <2>3. n % NSectors = n
    BY <1>1, <2>2, Modulo
  <2>4. (NSectors - 1) - Behind(wr, s) = n
    BY <1>1, <1>3, <2>1 DEF Behind
  <2> QED BY <2>1, <2>3, <2>4 DEF Age
<1> QED BY <1>2, <1>3

LEMMA Younger ==
  ASSUME NEW wr \in Sector, NEW s \in Sector, NEW t \in Sector
  PROVE  Age(wr, s) < Age(wr, t) <=> Behind(wr, t) < Behind(wr, s)
<1>1. /\ Behind(wr, s) \in 0..NSectors - 1 /\ Behind(wr, t) \in 0..NSectors - 1
      /\ NSectors \in Nat
  BY BehindIs, SizesAssumption
<1>2. /\ Age(wr, s) = (NSectors - 1) - Behind(wr, s)
      /\ Age(wr, t) = (NSectors - 1) - Behind(wr, t)
  BY AgeIs
<1> QED BY <1>1, <1>2

(* Entry e is met after entry o.                                           *)
After(wr, e, o) ==
  \/ Behind(wr, e[1]) < Behind(wr, o[1])
  \/ e[1] = o[1] /\ e[2] <= o[2]

(* The last one in the sectors T.                                          *)
Latest(f, wr, i, T, e) ==
  /\ e \in Met(f, i) /\ e[1] \in T
  /\ \A o \in Met(f, i) : o[1] \in T => After(wr, e, o)

LEMMA MetIs ==
  ASSUME NEW f, NEW i, NEW e \in Met(f, i)
  PROVE  /\ e[1] \in Sector /\ e[2] \in Slot /\ e = <<e[1], e[2]>>
         /\ e[2] \in Entries(f[e[1]]) /\ f[e[1]][e[2]].id = i
  BY DEF Met

LEMMA MetHas ==
  ASSUME NEW f, NEW i, NEW s \in Sector, NEW a \in Entries(f[s]),
         f[s][a].id = i
  PROVE  <<s, a>> \in Met(f, i)
  BY DEF Met, Entries

LEMMA LatestExists ==
  ASSUME NEW f, NEW wr \in Sector, NEW i, NEW T,
         NEW x \in Met(f, i), x[1] \in T
  PROVE  \E e : Latest(f, wr, i, T, e)
<1> DEFINE M == {e \in Met(f, i) : e[1] \in T}
           A == {Behind(wr, e[1]) : e \in M}
<1>1. \A e \in M : e[1] \in Sector /\ Behind(wr, e[1]) \in Nat
  BY MetIs, BehindIs, SizesAssumption
<1>2. A \subseteq Nat /\ A # {}
  BY <1>1
<1>3. PICK n \in A : \A m \in A : n <= m
  BY <1>2, Least
<1>4. PICK y \in M : n = Behind(wr, y[1])
  BY <1>3
<1> DEFINE B == {e[2] : e \in {z \in M : z[1] = y[1]}}
<1>5. \A e \in M : e[2] \in Nat
  BY MetIs, SizesAssumption DEF Slot
<1>6. B \subseteq Nat /\ B # {}
  BY <1>4, <1>5
<1>7. PICK k \in B : \A m \in B : k <= m
  BY <1>6, Least
<1>8. PICK e \in M : e[1] = y[1] /\ e[2] = k
  BY <1>7
<1>9. ASSUME NEW o \in M PROVE After(wr, e, o)
  <2>1. CASE o[1] = y[1]
    BY <1>7, <1>8, <1>9, <2>1 DEF After
  <2>2. CASE o[1] # y[1]
    <3>1. Behind(wr, o[1]) # Behind(wr, y[1])
      BY <1>1, <1>4, <1>9, <2>2, BehindIs
    <3>2. n <= Behind(wr, o[1])
      BY <1>3, <1>9
    <3>3. n \in Nat /\ Behind(wr, o[1]) \in Nat
      BY <1>1, <1>2, <1>3, <1>9
    <3> QED BY <1>4, <1>8, <3>1, <3>2, <3>3 DEF After
  <2> QED BY <2>1, <2>2
<1> QED BY <1>8, <1>9 DEF Latest

LEMMA ReadLatest ==
  ASSUME NEW f, NEW wr \in Sector, NEW i, NEW e,
         Latest(f, wr, i, Sector, e)
  PROVE  Read(f, wr, i) = Content(f[e[1]], f[e[1]][e[2]])
<1> DEFINE found == Met(f, i)
           IsLast(x) == \A o \in found :
                          \/ Age(wr, o[1]) < Age(wr, x[1])
                          \/ o[1] = x[1] /\ o[2] >= x[2]
           last == CHOOSE x \in found : IsLast(x)
<1>1. e \in found
  BY DEF Latest
<1>2. IsLast(e)
  <2> SUFFICES ASSUME NEW o \in found
               PROVE  \/ Age(wr, o[1]) < Age(wr, e[1])
                      \/ o[1] = e[1] /\ o[2] >= e[2]
    OBVIOUS
  <2>1. e[1] \in Sector /\ o[1] \in Sector /\ e[2] \in Int /\ o[2] \in Int
    BY <1>1, MetIs, SizesAssumption DEF Slot
  <2>2. After(wr, e, o)
    BY <2>1 DEF Latest
  <2> QED BY <2>1, <2>2, Younger DEF After
<1>3. last \in found /\ IsLast(last)
  BY <1>1, <1>2
<1>4. last = e
  <2> HIDE DEF last
  <2>1. /\ e[1] \in Sector /\ last[1] \in Sector
        /\ e[2] \in Int /\ last[2] \in Int
        /\ e = <<e[1], e[2]>> /\ last = <<last[1], last[2]>>
    BY <1>1, <1>3, MetIs, SizesAssumption DEF Slot
  <2>2. Age(wr, e[1]) \in Int /\ Age(wr, last[1]) \in Int
    BY <2>1, AgeIs, BehindIs, SizesAssumption
  <2>3. \/ Age(wr, last[1]) < Age(wr, e[1])
        \/ last[1] = e[1] /\ last[2] >= e[2]
    BY <1>2, <1>3
  <2>4. \/ Age(wr, e[1]) < Age(wr, last[1])
        \/ last[1] = e[1] /\ e[2] >= last[2]
    BY <1>1, <1>3
  <2>5. e[1] = last[1] /\ e[2] = last[2]
    BY <2>1, <2>2, <2>3, <2>4
  <2> QED BY <2>1, <2>5
<1>5. wr # NSectors /\ found # {}
  BY <1>1, SizesAssumption DEF Sector
<1>6. Read(f, wr, i) = Content(f[last[1]], f[last[1]][last[2]])
  BY <1>5 DEF Read
<1> QED BY <1>4, <1>6

LEMMA ReadNone ==
  ASSUME NEW f, NEW wr, NEW i, Met(f, i) = {}
  PROVE  Read(f, wr, i) = Missing
  BY DEF Read

-----------------------------------------------------------------------------
(* What a step may leave as it was.                                        *)

(* The same entries with the same contents.                                *)
SameSector(c, d) ==
  /\ Entries(d) = Entries(c)
  /\ \A p \in Entries(c) : d[p] = c[p] /\ Content(d, d[p]) = Content(c, c[p])

SameEntries(f, g) == \A s \in Sector : SameSector(f[s], g[s])

LEMMA SameMet ==
  ASSUME NEW f, NEW g, SameEntries(f, g), NEW i
  PROVE  /\ Met(g, i) = Met(f, i)
         /\ \A e \in Met(f, i) :
              Content(g[e[1]], g[e[1]][e[2]]) = Content(f[e[1]], f[e[1]][e[2]])
<1>1. \A e \in Sector \X Slot :
        e[1] \in Sector /\ SameSector(f[e[1]], g[e[1]])
  BY DEF SameEntries
<1>2. \A e \in Sector \X Slot :
        /\ e[2] \in Entries(g[e[1]]) <=> e[2] \in Entries(f[e[1]])
        /\ e[2] \in Entries(f[e[1]]) =>
             /\ g[e[1]][e[2]] = f[e[1]][e[2]]
             /\ Content(g[e[1]], g[e[1]][e[2]])
                  = Content(f[e[1]], f[e[1]][e[2]])
  BY <1>1 DEF SameSector
<1> QED BY <1>2 DEF Met

LEMMA ReadSame ==
  ASSUME NEW f, NEW g, SameEntries(f, g), NEW wr \in Sector, NEW i
  PROVE  Read(g, wr, i) = Read(f, wr, i)
<1>1. CASE Met(f, i) = {}
  BY <1>1, SameMet, ReadNone
<1>2. CASE Met(f, i) # {}
  <2>1. PICK x \in Met(f, i) : x[1] \in Sector
    BY <1>2, MetIs
  <2>2. PICK e : Latest(f, wr, i, Sector, e)
    BY <2>1, LatestExists
  <2>3. Latest(g, wr, i, Sector, e) /\ e \in Met(f, i)
    BY <2>2, SameMet DEF Latest
  <2> QED BY <2>2, <2>3, ReadLatest, SameMet
<1> QED BY <1>1, <1>2

LEMMA LaterSame ==
  ASSUME NEW f, NEW g, SameEntries(f, g), NEW wr, NEW s, NEW a, NEW i
  PROVE  LaterEntry(g, wr, s, a, i) <=> LaterEntry(f, wr, s, a, i)
<1>1. \A t \in Sector : /\ Entries(g[t]) = Entries(f[t])
                        /\ \A b \in Entries(f[t]) : g[t][b].id = f[t][b].id
  BY DEF SameEntries, SameSector
<1> QED BY <1>1 DEF LaterEntry

LEMMA WalkSame ==
  ASSUME NEW f, NEW g, SameEntries(f, g), SameStarts(f, g), Walk(f)
  PROVE  Walk(g)
<1> SUFFICES ASSUME NEW w \in Sector, Newest(g, w)
             PROVE  Gap(g, w) /\ (AllKept(g, w) \/ OnlyCopies(g, w))
  BY DEF Walk
<1>1. Newest(f, w)
  <2>1. SameStarts(g, f)
    BY DEF SameStarts
  <2> QED BY <2>1, NewestSame
<1>2. Gap(f, w) /\ (AllKept(f, w) \/ OnlyCopies(f, w))
  BY <1>1 DEF Walk
<1>3. Started(g) = Started(f)
  BY StartedSame
<1>4. \A t \in Sector :
        /\ Entries(g[t]) = Entries(f[t])
        /\ \A b \in Entries(f[t]) :
             /\ g[t][b] = f[t][b]
             /\ Content(g[t], g[t][b]) = Content(f[t], f[t][b])
  BY DEF SameEntries, SameSector
<1>5. NextSector(w) \in Sector
  BY NextIsSector
<1>6. Gap(g, w)
  BY <1>2, <1>3, <1>4 DEF Gap
<1>7. AllKept(f, w) => AllKept(g, w)
  BY <1>4, <1>5, LaterSame DEF AllKept
<1>8. ASSUME OnlyCopies(f, w) PROVE OnlyCopies(g, w)
  <2>1. NextSector(w) \in Started(g) \/ Entries(g[NextSector(w)]) = {}
    BY <1>3, <1>4, <1>5, <1>8 DEF OnlyCopies
  <2>2. ASSUME NEW p \in Entries(f[w]), NEW a \in Entries(f[NextSector(w)]),
               IsCopy(f, w, p, a)
        PROVE  IsCopy(g, w, p, a)
    BY <2>2, <1>4, <1>5 DEF IsCopy
  <2> QED BY <1>4, <1>5, <1>8, <2>1, <2>2 DEF OnlyCopies
<1> QED BY <1>2, <1>6, <1>7, <1>8

(* A sector w that does not count: it is met first, or it has no entry     *)
(* with this identifier.                                                   *)
(* The step changes sector w alone.                                        *)
Outside(w) == Sector \ {w}

(* With write sector wr, sector w does not decide what a read of i finds.  *)
Hidden(f, wr, w, i) ==
  wr = Prev(w) \/ \A b \in Entries(f[w]) : f[w][b].id # i

LEMMA LatestHidden ==
  ASSUME NEW f, NEW wr \in Sector, NEW w \in Sector, NEW i, NEW e,
         Hidden(f, wr, w, i), Latest(f, wr, i, Outside(w), e)
  PROVE  Latest(f, wr, i, Sector, e)
<1>1. e \in Met(f, i) /\ e[1] \in Sector /\ e[1] # w
  BY DEF Latest, Outside
<1>2. ASSUME NEW o \in Met(f, i) PROVE After(wr, e, o)
  <2>0. o[1] \in Sector
    BY MetIs
  <2>1. CASE o[1] # w
    BY <2>0, <2>1 DEF Latest, Outside
  <2>2. CASE o[1] = w
    <3>1. wr = Prev(w)
      BY <2>2, MetIs DEF Hidden
    <3>2. Behind(wr, w) = NSectors - 1
      BY <3>1, PrevNext
    <3>3. /\ Behind(wr, e[1]) \in 0..NSectors - 1
          /\ Behind(wr, e[1]) # Behind(wr, w)
      BY <1>1, BehindIs
    <3> QED BY <2>2, <3>2, <3>3, SizesAssumption DEF After
  <2> QED BY <2>1, <2>2
<1> QED BY <1>1, <1>2 DEF Latest

LEMMA OrderOutside ==
  ASSUME NEW w \in Sector, NEW wf \in {w, Prev(w)}, NEW wg \in {w, Prev(w)},
         NEW s \in Outside(w), NEW t \in Outside(w)
  PROVE  Behind(wf, s) < Behind(wf, t) <=> Behind(wg, s) < Behind(wg, t)
<1>1. /\ Behind(w, s) = Behind(Prev(w), s) + 1
      /\ Behind(w, t) = Behind(Prev(w), t) + 1
      /\ Prev(w) \in Sector
  BY PrevNext DEF Outside
<1>2. Behind(Prev(w), s) \in Int /\ Behind(Prev(w), t) \in Int
  BY <1>1, BehindIs, SizesAssumption DEF Outside
<1> QED BY <1>1, <1>2

LEMMA LatestOutside ==
  ASSUME NEW f, NEW g, NEW w \in Sector, \A s \in Outside(w) : g[s] = f[s],
         NEW wf \in {w, Prev(w)}, NEW wg \in {w, Prev(w)},
         NEW i, NEW e, Latest(f, wf, i, Outside(w), e)
  PROVE  Latest(g, wg, i, Outside(w), e)
<1>1. \A o : o \in Met(g, i) /\ o[1] \in Outside(w)
              <=> o \in Met(f, i) /\ o[1] \in Outside(w)
  BY DEF Met
<1>2. ASSUME NEW o \in Met(f, i), o[1] \in Outside(w) PROVE After(wg, e, o)
  <2>1. After(wf, e, o) /\ e[1] \in Outside(w)
    BY <1>2 DEF Latest
  <2> QED BY <1>2, <2>1, OrderOutside DEF After
<1> QED BY <1>1, <1>2 DEF Latest

(* Another sector with this identifier.                                    *)
(* There is an entry of i that the loss of sector w leaves.                *)
Elsewhere(f, w, i) == \E o \in Met(f, i) : o[1] \in Outside(w)

LEMMA ReadOutside ==
  ASSUME NEW f, NEW g, NEW w \in Sector, \A s \in Outside(w) : g[s] = f[s],
         NEW wf \in {w, Prev(w)}, NEW wg \in {w, Prev(w)}, NEW i,
         Elsewhere(f, w, i), Hidden(f, wf, w, i), Hidden(g, wg, w, i)
  PROVE  Read(g, wg, i) = Read(f, wf, i)
<1>1. wf \in Sector /\ wg \in Sector
  BY PrevNext
<1>2. PICK e : Latest(f, wf, i, Outside(w), e)
  BY <1>1, LatestExists DEF Elsewhere
<1>3. Latest(g, wg, i, Outside(w), e)
  BY <1>2, LatestOutside
<1>4. Read(f, wf, i) = Content(f[e[1]], f[e[1]][e[2]])
  BY <1>1, <1>2, LatestHidden, ReadLatest
<1>5. Read(g, wg, i) = Content(g[e[1]], g[e[1]][e[2]])
  BY <1>1, <1>3, LatestHidden, ReadLatest
<1>6. g[e[1]] = f[e[1]]
  BY <1>2 DEF Latest
<1> QED BY <1>4, <1>5, <1>6

LEMMA ReadNowhere ==
  ASSUME NEW f, NEW w \in Sector, NEW wr, NEW i, ~ Elsewhere(f, w, i),
         \A b \in Entries(f[w]) : f[w][b].id # i
  PROVE  Read(f, wr, i) = Missing
<1>1. Met(f, i) = {}
  BY MetIs DEF Elsewhere, Outside
<1> QED BY <1>1, ReadNone

(* The newest sector w is erased while it only holds copies: they are read *)
(* from the sector they were copied from.                                  *)
LEMMA ReadCopied ==
  ASSUME NEW f, NEW g, NEW w \in Sector, \A s \in Outside(w) : g[s] = f[s],
         NSectors > 1, OnlyCopies(f, w), NEW wg \in {w, Prev(w)}, NEW i,
         Hidden(g, wg, w, i),
         \A b \in Entries(g[w]) : b \in Entries(f[w]) /\ g[w][b] = f[w][b]
  PROVE  Read(g, wg, i) = Read(f, w, i)
<1> DEFINE cs == NextSector(w)
<1>0. cs \in Outside(w) /\ wg \in Sector
  BY NextIsSector, PrevNext DEF Outside
<1>1. CASE \A b \in Entries(f[w]) : f[w][b].id # i
  <2>1. CASE Elsewhere(f, w, i)
    BY <1>1, <2>1, ReadOutside DEF Hidden
  <2>2. CASE ~ Elsewhere(f, w, i)
    <3>1. ~ Elsewhere(g, w, i)
      BY <2>2 DEF Elsewhere, Met, Outside
    <3>2. \A b \in Entries(g[w]) : g[w][b].id # i
      BY <1>1
    <3> QED BY <1>1, <2>2, <3>1, <3>2, ReadNowhere
  <2> QED BY <2>1, <2>2
<1>2. CASE \E b \in Entries(f[w]) : f[w][b].id = i
  <2>1. PICK b \in Entries(f[w]) : f[w][b].id = i
    BY <1>2
  <2>2. <<w, b>> \in Met(f, i)
    BY <2>1, MetHas
  <2>3. PICK e : Latest(f, w, i, Sector, e)
    BY <2>2, LatestExists
  <2>4. /\ e \in Met(f, i) /\ e[1] \in Sector
        /\ After(w, e, <<w, b>>)
    BY <2>2, <2>3 DEF Latest
  <2>5. e[1] = w
    <3>1. Behind(w, w) = 0 /\ Behind(w, e[1]) \in Nat
      BY <2>4, BehindIs, SizesAssumption
    <3> QED BY <2>4, <3>1 DEF After
  <2>6. e[2] \in Entries(f[w]) /\ f[w][e[2]].id = i
    BY <2>4, <2>5, MetIs
  <2>7. PICK a \in Entries(f[cs]) : IsCopy(f, w, e[2], a)
    BY <2>6 DEF OnlyCopies
  <2>8. /\ f[cs][a].id = i
        /\ Content(f[cs], f[cs][a]) = Content(f[w], f[w][e[2]])
        /\ \A t \in Outside(w) : \A c \in Entries(f[t]) :
             f[t][c].id = i => t = cs /\ c >= a
    BY <2>6, <2>7 DEF IsCopy, Outside
  <2>9. <<cs, a>> \in Met(g, i) /\ g[cs] = f[cs]
    BY <1>0, <2>8, MetHas DEF Outside
  <2>10. ASSUME NEW o \in Met(g, i), o[1] \in Outside(w)
         PROVE  After(wg, <<cs, a>>, o)
    <3>1. o[2] \in Entries(f[o[1]]) /\ f[o[1]][o[2]].id = i
      BY <2>10, MetIs
    <3> QED BY <2>8, <2>10, <3>1 DEF After
  <2>11. Latest(g, wg, i, Outside(w), <<cs, a>>)
    BY <1>0, <2>9, <2>10 DEF Latest
  <2>12. Read(g, wg, i) = Content(g[cs], g[cs][a])
    BY <1>0, <2>11, LatestHidden, ReadLatest
  <2>13. Read(f, w, i) = Content(f[w], f[w][e[2]])
    BY <2>3, <2>5, ReadLatest
  <2> QED BY <2>8, <2>9, <2>12, <2>13
<1> QED BY <1>1, <1>2

-----------------------------------------------------------------------------
(* What programming a block does to the entries.                           *)

LEMMA ContentSame ==
  ASSUME NEW c \in [Block -> Cell], SectorSound(c), NEW p \in Entries(c),
         NEW d, d[p] = c[p],
         \A b \in Block : c[p].offset <= b /\ b < AteEnd(c[p]) => d[b] = c[b]
  PROVE  Content(d, d[p]) = Content(c, c[p])
<1>1. p \in Slot /\ p \in Block /\ c[p].kind = "ate" /\ p \in Int
  BY SizesAssumption DEF Entries, IsAte, Slot, Block
<1>2. c[p].offset \in Int /\ c[p].len \in Nat
  BY <1>1, CellKind
<1>3. c[p].offset >= 1 /\ c[p].offset + c[p].len < p
  BY DEF SectorSound, Disjoint, AteEnd
<1>4. ASSUME NEW k \in 1..c[p].len
      PROVE  d[c[p].offset + k - 1] = c[c[p].offset + k - 1]
  <2>1. /\ c[p].offset + k - 1 \in Block /\ c[p].offset <= c[p].offset + k - 1
        /\ c[p].offset + k - 1 < AteEnd(c[p])
    BY <1>1, <1>2, <1>3, SizesAssumption DEF Block, AteEnd
  <2> QED BY <2>1
<1> QED BY <1>4 DEF Content

LEMMA SameReflexive == ASSUME NEW c PROVE SameSector(c, c)
  BY DEF SameSector

(* The entries of the write sector.                                        *)
LEMMA WriteEntries ==
  ASSUME IInv, at \in {"copy", "write"}
  PROVE  /\ wr_sector \in Sector /\ flash[wr_sector] \in [Block -> Cell]
         /\ SectorSound(flash[wr_sector])
         /\ wr_ate_offset \in Slot /\ wr_ate_offset \in Int
         /\ wr_data_offset \in 1..SectorSize /\ wr_data_offset \in Int
         /\ IsAteEnd(flash[wr_sector], wr_ate_offset)
         /\ flash[wr_sector][wr_ate_offset] = Blank
         /\ \A p \in Entries(flash[wr_sector]) :
              /\ p \in Int /\ wr_ate_offset < p /\ p \in Block
              /\ AteEnd(flash[wr_sector][p]) \in Int
              /\ AteEnd(flash[wr_sector][p]) <= wr_data_offset
<1>1. /\ wr_sector \in Sector /\ flash[wr_sector] \in [Block -> Cell]
      /\ SectorSound(flash[wr_sector])
      /\ wr_ate_offset \in Slot /\ wr_data_offset \in 1..SectorSize
  BY DEF IInv, TypeOK, AllSound
<1>2. /\ IsAteEnd(flash[wr_sector], wr_ate_offset)
      /\ flash[wr_sector][wr_ate_offset] = Blank
  BY DEF IInv, WalkStops
<1>3. Entries(flash[wr_sector])
        = {p \in Slot : p > wr_ate_offset /\ IsAte(flash[wr_sector], p)}
  BY <1>1, <1>2, EntriesAbove
<1>4. \A p \in Entries(flash[wr_sector]) :
        AteEnd(flash[wr_sector][p]) <= wr_data_offset
  BY DEF IInv, EntriesBelow, Mounted
<1>5. ASSUME NEW p \in Entries(flash[wr_sector])
      PROVE  /\ p \in Int /\ wr_ate_offset < p /\ p \in Block
             /\ AteEnd(flash[wr_sector][p]) \in Int
  <2>1. p \in Slot /\ p > wr_ate_offset /\ flash[wr_sector][p].kind = "ate"
    BY <1>3 DEF IsAte
  <2>2. p \in Block /\ p \in Int
    BY <2>1, SizesAssumption DEF Slot, Block
  <2>3. flash[wr_sector][p].offset \in Int /\ flash[wr_sector][p].len \in Nat
    BY <1>1, <2>1, <2>2, CellKind
  <2> QED BY <1>1, <2>1, <2>2, <2>3, SizesAssumption DEF AteEnd, Slot
<1>6. wr_ate_offset \in Int /\ wr_data_offset \in Int
  BY <1>1, SizesAssumption DEF Slot
<1> QED BY <1>1, <1>2, <1>4, <1>5, <1>6

(* A block of data                                                         *)
LEMMA BlockSame ==
  ASSUME IInv, at \in {"copy", "write"}, NEW n \in Nat,
         pos < n, Fits(n), NEW x \in Cell,
         Program(wr_sector, wr_data_offset + pos, x)
  PROVE  /\ SameEntries(flash, flash') /\ SameStarts(flash, flash')
         /\ \A s \in Outside(wr_sector) : flash'[s] = flash[s]
         /\ flash'[wr_sector][wr_data_offset + pos] = x
         /\ \A b \in Block : b # wr_data_offset + pos
                               => flash'[wr_sector][b] = flash[wr_sector][b]
<1> DEFINE c == flash[wr_sector]
           d == flash'[wr_sector]
           k == wr_data_offset + pos
<1>1. /\ \A s \in Sector : s # wr_sector => flash'[s] = flash[s]
      /\ k \in Block /\ c[k] = Blank
      /\ \A b \in Block : b # k => d[b] = c[b]
      /\ Entries(d) = Entries(c)
      /\ \A p \in Entries(c) : d[p] = c[p]
  BY BlockFlash
<1>2. flash' = [flash EXCEPT ![wr_sector] = [c EXCEPT ![k] = x]]
  BY <1>1, ProgramBlank
<1>3. d[k] = x
  BY <1>1, <1>2, WriteEntries DEF IInv, TypeOK
<1>4. SameSector(c, d)
  <2>1. ASSUME NEW p \in Entries(c) PROVE Content(d, d[p]) = Content(c, c[p])
    <3>1. \A b \in Block : c[p].offset <= b /\ b < AteEnd(c[p]) => b # k
      BY WriteEntries, SizesAssumption DEF IInv, TypeOK, Block
    <3> HIDE DEF c, d, k
    <3>2. c \in [Block -> Cell] /\ SectorSound(c)
      BY WriteEntries DEF c
    <3> QED BY <1>1, <3>1, <3>2, ContentSame
  <2> QED BY <1>1, <2>1 DEF SameSector
<1>5. SameEntries(flash, flash')
  BY <1>1, <1>4, SameReflexive DEF SameEntries
<1>6. SameStarts(flash, flash')
  <2>1. Grown
    BY BlockGrown
  <2> QED BY <2>1 DEF Grown, SameStarts
<1> QED BY <1>1, <1>3, <1>5, <1>6 DEF Outside

(* An ATE that is cut off                                                  *)
LEMMA TornAteSame ==
  ASSUME IInv, at \in {"copy", "write"}, NEW n \in Nat, pos = n, Fits(n),
         NEW x \in TornCell, Program(wr_sector, wr_ate_offset, x)
  PROVE  SameEntries(flash, flash') /\ SameStarts(flash, flash')
<1> DEFINE c == flash[wr_sector]
           w == wr_ate_offset
           d == [c EXCEPT ![w] = x]
<1>1. /\ w \in Slot /\ w \in Int /\ c[w] = Blank /\ IsAteEnd(c, w)
      /\ c \in [Block -> Cell] /\ SectorSound(c) /\ wr_sector \in Sector
  BY WriteEntries
<1>2. w \in Block /\ w - 1 \in Slot /\ w - 1 \in Block /\ c[w - 1] = Blank
  <2>1. wr_data_offset + pos <= w - 1 /\ wr_data_offset + pos \in Int
        /\ wr_data_offset >= 1
    BY WriteEntries, SizesAssumption DEF Fits
  <2>2. w \in Block /\ w - 1 \in Slot /\ w - 1 \in Block
    BY <1>1, <2>1, WriteEntries, SizesAssumption DEF Slot, Block
  <2> QED BY <1>1, <2>1, <2>2 DEF IInv, FreeSpace
<1>3. flash' = [flash EXCEPT ![wr_sector] = d]
  BY <1>1, ProgramBlank
<1>4. d[w] = x /\ \A b \in Block : b # w => d[b] = c[b]
  BY <1>1, <1>2
<1> HIDE DEF d
<1>5. d[w - 1] = Blank
  BY <1>1, <1>2, <1>4
<1>6. IsAteEnd(d, w - 1)
  <2>1. \A b \in Slot : b > w - 1 => b = w \/ (b > w /\ b \in Block /\ b # w)
    BY <1>1, SizesAssumption DEF Slot, Block
  <2>2. \A b \in Slot : b > w => c[b] # Blank
    BY <1>1 DEF IsAteEnd
  <2> QED BY <1>4, <1>5, <2>1, <2>2, TornKind, BlankKind DEF IsAteEnd
<1>7. Entries(d) = {p \in Slot : p > w - 1 /\ IsAte(d, p)}
  BY <1>2, <1>5, <1>6, EntriesAbove
<1>8. Entries(c) = {p \in Slot : p > w /\ IsAte(c, p)}
  BY <1>1, EntriesAbove
<1>9. Entries(d) = Entries(c)
  <2>1. ~ IsAte(d, w)
    BY <1>4, TornKind, BlankKind DEF IsAte
  <2>2. \A p \in Slot : p > w => IsAte(d, p) <=> IsAte(c, p)
    BY <1>1, <1>4, SizesAssumption DEF IsAte, Slot, Block
  <2>3. \A p \in Slot : p > w - 1 <=> p = w \/ p > w
    BY <1>1, SizesAssumption DEF Slot
  <2> QED BY <1>7, <1>8, <2>1, <2>2, <2>3
<1>10. ASSUME NEW p \in Entries(c)
       PROVE  d[p] = c[p] /\ Content(d, d[p]) = Content(c, c[p])
  <2>1. p \in Block /\ p # w /\ AteEnd(c[p]) <= wr_data_offset
        /\ AteEnd(c[p]) \in Int
    BY WriteEntries
  <2>2. wr_data_offset < w
    BY WriteEntries, SizesAssumption DEF Fits
  <2>3. \A b \in Block : b < AteEnd(c[p]) => b # w
    BY <2>1, <2>2, WriteEntries, SizesAssumption DEF Block
  <2>4. d[p] = c[p] /\ \A b \in Block : b < AteEnd(c[p]) => d[b] = c[b]
    BY <1>4, <2>1, <2>3
  <2> QED BY <1>1, <2>4, ContentSame
<1>11. /\ flash'[wr_sector] = d
       /\ \A s \in Sector : s # wr_sector => flash'[s] = flash[s]
  BY <1>1, <1>3 DEF IInv, TypeOK
<1>12. SameEntries(flash, flash')
  BY <1>9, <1>10, <1>11, SameReflexive DEF SameEntries, SameSector
<1>13. 0 \in Block /\ w # 0
  BY <1>1, SizesAssumption DEF Block, Slot
<1>14. SameStarts(flash, flash')
  BY <1>4, <1>11, <1>13 DEF SameStarts
<1> QED BY <1>12, <1>14

(* Block 0 of a blank sector                                               *)
LEMMA StartSame ==
  ASSUME IInv, NEW s \in Sector, flash[s] = BlankSector, NEW x \in Cell,
         Program(s, 0, x)
  PROVE  /\ SameEntries(flash, flash')
         /\ \A t \in Outside(s) : flash'[t] = flash[t]
         /\ flash'[s][0] = x
         /\ Entries(flash'[s]) = {}
<1>1. flash[s][0] = Blank /\ 0 \in Block
  BY SizesAssumption DEF BlankSector, Block
<1>2. flash' = [flash EXCEPT ![s] = [flash[s] EXCEPT ![0] = x]]
  BY <1>1, ProgramBlank
<1>3. flash'[s][0] = x /\ \A t \in Outside(s) : flash'[t] = flash[t]
  BY <1>1, <1>2 DEF IInv, TypeOK, Outside
<1>4. Entries(flash'[s]) = {} /\ Entries(flash[s]) = {}
  BY StartFlash, BlankSound
<1>5. SameSector(flash[s], flash'[s])
  BY <1>4 DEF SameSector
<1> QED BY <1>3, <1>4, <1>5, SameReflexive DEF SameEntries, Outside

(* sfcb_close_loc adds an entry, met after all the others.                 *)
(* The write sector has got an entry in slot k, below all others.          *)
Added(k, i, content) ==
  /\ \A s \in Outside(wr_sector) : flash'[s] = flash[s]
  /\ Entries(flash'[wr_sector]) = Entries(flash[wr_sector]) \cup {k}
  /\ k \in Int /\ k \notin Entries(flash[wr_sector])
  /\ \A p \in Entries(flash[wr_sector]) :
       /\ k < p /\ p \in Int
       /\ flash'[wr_sector][p] = flash[wr_sector][p]
       /\ Content(flash'[wr_sector], flash'[wr_sector][p])
            = Content(flash[wr_sector], flash[wr_sector][p])
  /\ flash'[wr_sector][k].id = i
  /\ Content(flash'[wr_sector], flash'[wr_sector][k]) = content

LEMMA CloseAdds ==
  ASSUME IInv, at \in {"copy", "write"},
         NEW i \in Ids, NEW n \in Lens, pos = n, Fits(n), CloseAs(i, n)
  PROVE  /\ Added(wr_ate_offset, i,
                  [k \in 1..n |-> flash[wr_sector][wr_data_offset + k - 1]])
         /\ SameStarts(flash, flash')
<1> DEFINE c == flash[wr_sector]
           w == wr_ate_offset
           o == wr_data_offset
           d == [c EXCEPT ![w] = Ate(i, o, n)]
<1>1. /\ w \in Slot /\ w \in Int /\ c[w] = Blank /\ IsAteEnd(c, w)
      /\ c \in [Block -> Cell] /\ SectorSound(c) /\ wr_sector \in Sector
      /\ o \in Int /\ o >= 1 /\ n \in Nat
  BY WriteEntries, SizesAssumption
<1>2. /\ w \in Block /\ w - 1 \in Slot /\ w - 1 \in Block /\ o + n < w
      /\ c[w - 1] = Blank
  <2>1. o + n <= w - 1
    BY <1>1 DEF Fits
  <2>2. w \in Block /\ w - 1 \in Slot /\ w - 1 \in Block
    BY <1>1, <2>1, SizesAssumption DEF Slot, Block
  <2> QED BY <1>1, <2>1, <2>2 DEF IInv, FreeSpace
<1>3. flash' = [flash EXCEPT ![wr_sector] = d]
  BY <1>1, ProgramBlank DEF CloseAs
<1>4. d[w] = Ate(i, o, n) /\ \A b \in Block : b # w => d[b] = c[b]
  BY <1>1, <1>2
<1> HIDE DEF d
<1>5. /\ d[w].id = i /\ d[w].offset = o /\ d[w].len = n
      /\ IsAte(d, w) /\ d[w] # Blank /\ d[w - 1] = Blank
  BY <1>1, <1>2, <1>4 DEF Ate, IsAte, Blank
<1>6. IsAteEnd(d, w - 1)
  <2>1. \A b \in Slot : b > w - 1 => b = w \/ (b > w /\ b \in Block /\ b # w)
    BY <1>1, SizesAssumption DEF Slot, Block
  <2>2. \A b \in Slot : b > w => c[b] # Blank
    BY <1>1 DEF IsAteEnd
  <2> QED BY <1>4, <1>5, <2>1, <2>2 DEF IsAteEnd
<1>7. Entries(d) = {p \in Slot : p > w - 1 /\ IsAte(d, p)}
  BY <1>2, <1>5, <1>6, EntriesAbove
<1>8. Entries(c) = {p \in Slot : p > w /\ IsAte(c, p)}
  BY <1>1, EntriesAbove
<1>9. Entries(d) = Entries(c) \cup {w} /\ w \notin Entries(c)
  <2>1. \A p \in Slot : p > w => IsAte(d, p) <=> IsAte(c, p)
    BY <1>1, <1>4, SizesAssumption DEF IsAte, Slot, Block
  <2>2. \A p \in Slot : p > w - 1 <=> p = w \/ p > w
    BY <1>1, SizesAssumption DEF Slot
  <2>3. ~ (w > w)
    BY <1>1
  <2> QED BY <1>1, <1>5, <1>7, <1>8, <2>1, <2>2, <2>3
<1>10. ASSUME NEW p \in Entries(c)
       PROVE  /\ w < p /\ p \in Int /\ d[p] = c[p]
              /\ Content(d, d[p]) = Content(c, c[p])
  <2>1. p \in Block /\ w < p /\ p \in Int /\ AteEnd(c[p]) <= o
        /\ AteEnd(c[p]) \in Int
    BY WriteEntries
  <2>2. \A b \in Block : b < AteEnd(c[p]) => b # w
    BY <1>1, <1>2, <2>1, SizesAssumption DEF Block
  <2>3. p # w
    BY <1>1, <2>1
  <2>4. d[p] = c[p] /\ \A b \in Block : b < AteEnd(c[p]) => d[b] = c[b]
    BY <1>4, <2>1, <2>2, <2>3
  <2> QED BY <1>1, <2>1, <2>4, ContentSame
<1>11. /\ flash'[wr_sector] = d
       /\ \A s \in Outside(wr_sector) : flash'[s] = flash[s]
  BY <1>1, <1>3 DEF IInv, TypeOK, Outside
<1>12. Content(d, d[w]) = [k \in 1..n |-> c[o + k - 1]]
  <2>1. ASSUME NEW k \in 1..n PROVE d[o + k - 1] = c[o + k - 1]
    <3>1. o + k - 1 \in Block /\ o + k - 1 # w
      BY <1>1, <1>2, SizesAssumption DEF Block
    <3> QED BY <1>4, <3>1
  <2> QED BY <1>5, <2>1 DEF Content
<1>13. SameStarts(flash, flash')
  <2>1. Grown
    BY CloseGrown
  <2> QED BY <2>1 DEF Grown, SameStarts
<1>14. Added(w, i, [k \in 1..n |-> c[o + k - 1]])
  BY <1>1, <1>5, <1>9, <1>10, <1>11, <1>12 DEF Added
<1> QED BY <1>13, <1>14

-----------------------------------------------------------------------------
(* What is recovered from a flash.                                         *)

Rec(f) ==
  [i \in Ids |-> IF Started(f) = {} THEN Missing
                 ELSE Read(f, NewestStart(f), i)]

(* It is what a mount finds, when no cut-off block reads as an error.      *)
Found(f) == [i \in Ids |-> IF Mountable(f) THEN Read(f, FsCheck(f), i)
                           ELSE Missing]

LEMMA FoundIs ==
  ASSUME CrcLast, NEW f \in [Sector -> [Block -> Cell]],
         Recoverable(f), RightIds(f)
  PROVE  Found(f) = Rec(f)
  BY FlashMountable DEF Found, Rec

(* The store read that way.                                                *)
RecStore == INSTANCE KeyStore WITH
              Contents <- {Written(n, v) : n \in Lens, v \in Values},
              store <- Rec(flash),
              request <- Pending

LEMMA RecNewest ==
  ASSUME NEW f, NEW w \in Sector, Newest(f, w), RightIds(f)
  PROVE  Rec(f) = [i \in Ids |-> Read(f, w, i)]
  BY NewestStartIs DEF Rec, RightIds, Newest

LEMMA RecNone ==
  ASSUME NEW f, Started(f) = {}
  PROVE  Rec(f) = [i \in Ids |-> Missing]
  BY DEF Rec

LEMMA RecSame ==
  ASSUME NEW f, NEW g, SameEntries(f, g), SameStarts(f, g),
         Recoverable(f), RightIds(f)
  PROVE  Rec(g) = Rec(f)
<1>1. Started(g) = Started(f) /\ \A s \in Started(f) : g[s][0] = f[s][0]
  BY StartedSame
<1>2. RightIds(g)
  BY <1>1 DEF RightIds
<1>3. CASE Started(f) = {}
  BY <1>1, <1>3, RecNone
<1>4. CASE \E w \in Sector : Newest(f, w)
  <2>1. PICK w \in Sector : Newest(f, w)
    BY <1>4
  <2>2. Newest(g, w)
    BY <2>1, NewestSame
  <2>3. \A i \in Ids : Read(g, w, i) = Read(f, w, i)
    BY ReadSame
  <2> QED BY <1>2, <2>1, <2>2, <2>3, RecNewest
<1> QED BY <1>3, <1>4 DEF Recoverable

LEMMA NewestIsOne ==
  ASSUME NEW f, RightIds(f), NEW v \in Sector, NEW w \in Sector,
         Newest(f, v), Newest(f, w)
  PROVE  v = w
  BY NewestStartIs DEF RightIds

LEMMA NowRecoverable ==
  ASSUME RInv
  PROVE  Recoverable(flash) /\ RightIds(flash)
<1>1. RightIds(flash)
  BY StartIds DEF RInv, RightIds
<1>2. wr_sector \in Sector /\ Prev(wr_sector) \in Sector
  BY PrevNext DEF RInv, IInv, TypeOK
<1>3. Ages
  BY DEF RInv
<1>4. CASE Mounted
  BY <1>1, <1>2, <1>3, <1>4 DEF Recoverable, Ages, Follows
<1>5. CASE at = "erase"
  BY <1>1, <1>2, <1>3, <1>5 DEF Recoverable, Ages, Follows
<1>6. CASE at = "start"
  BY <1>1, <1>2, <1>3, <1>6 DEF Recoverable, Ages, Follows
<1>7. CASE at \in {"down", "format"}
  BY <1>1, <1>3, <1>7 DEF Recoverable, Ages
<1>8. \/ Mounted
      \/ at = "erase"
      \/ at = "start"
      \/ at \in {"down", "format"}
  BY DEF RInv, IInv, TypeOK, Mounted
<1> QED BY <1>4, <1>5, <1>6, <1>7, <1>8

Leads == Recoverable(flash) /\ RightIds(flash)

-----------------------------------------------------------------------------
(* Steps of the store.                                                     *)

(* A step of the store, or none.                                           *)
StoreStep == RecStore!Next \/ UNCHANGED RecStore!vars

LEMMA Quiet ==
  ASSUME Rec(flash') = Rec(flash), UNCHANGED req
  PROVE  StoreStep
<1>1. Rec(flash') = Rec(flash)
  BY DEF Rec
<1>2. Pending' = Pending
  BY DEF Pending
<1> QED BY <1>1, <1>2 DEF StoreStep, RecStore!vars

LEMMA Fails ==
  ASSUME NEW ids \in SUBSET (Ids \ KeepIds), req' = NoReq,
         Rec(flash') = [i \in Ids |-> IF i \in ids THEN Missing ELSE Rec(flash)[i]]
  PROVE  StoreStep
<1>1. Rec(flash') = [i \in Ids |-> IF i \in ids THEN Missing ELSE Rec(flash)[i]]
  BY DEF Rec
<1>2. Pending' = NoReq
  BY DEF Pending
<1>3. RecStore!Abort
  BY <1>1, <1>2 DEF RecStore!Abort, RecStore!Without
<1> QED BY <1>3 DEF StoreStep, RecStore!Next

LEMMA FailsSame ==
  ASSUME Rec(flash') = Rec(flash), req' = NoReq
  PROVE  StoreStep
<1>1. {} \in SUBSET (Ids \ KeepIds)
  OBVIOUS
<1>2. Rec(flash') = [i \in Ids |-> IF i \in {} THEN Missing ELSE Rec(flash)[i]]
  BY DEF Rec
<1> QED BY <1>1, <1>2, Fails

LEMMA Forgets ==
  ASSUME NEW ids \in SUBSET (Ids \ KeepIds), UNCHANGED req,
         Rec(flash') = [i \in Ids |-> IF i \in ids THEN Missing ELSE Rec(flash)[i]]
  PROVE  StoreStep
<1>1. Rec(flash') = [i \in Ids |-> IF i \in ids THEN Missing ELSE Rec(flash)[i]]
  BY DEF Rec
<1>2. Pending' = Pending
  BY DEF Pending
<1>3. RecStore!Forget
  BY <1>1, <1>2 DEF RecStore!Forget, RecStore!Without
<1> QED BY <1>3 DEF StoreStep, RecStore!Next

-----------------------------------------------------------------------------
(* Steps that leave the flash alone.                                       *)

LEMMA ElsewherePromised ==
  ASSUME Walk(flash'), at' \notin {"erase", "start", "copy", "write"},
         at' \in {"down", "idle"} => req' = NoReq
  PROVE  Promised'
  BY DEF Promised, Restarted, Emptied, Copying, Writing, NoWrite

LEMMA SameFlash == ASSUME UNCHANGED flash PROVE Rec(flash') = Rec(flash)
  OBVIOUS

LEMMA MountStore ==
  ASSUME Promised, Mount
  PROVE  Promised' /\ StoreStep
<1>1. /\ at = "down" /\ UNCHANGED <<flash, req>>
      /\ at' \in {"compress", "idle"}
  BY DEF Mount
<1>2. Promised'
  BY <1>1, ElsewherePromised DEF Promised, NoWrite
<1> QED BY <1>1, <1>2, Quiet

LEMMA UnmountStore ==
  ASSUME Promised, Unmount
  PROVE  Promised' /\ StoreStep
<1>1. UNCHANGED flash /\ at' = "down" /\ req' = NoReq
  BY DEF Unmount, Down, Rest
<1> QED BY <1>1, ElsewherePromised, FailsSame DEF Promised

LEMMA FormatCallStore ==
  ASSUME Promised, FormatCall
  PROVE  Promised' /\ StoreStep
<1>1. UNCHANGED <<flash, req>> /\ at' = "format"
  BY DEF FormatCall
<1> QED BY <1>1, ElsewherePromised, Quiet DEF Promised

(* To an open location nothing is written to, or to an erase.              *)
LEMMA WritePromised ==
  ASSUME Promised, UNCHANGED flash,
         (at' = "write" /\ pos' = 0) \/ (at' = "erase" /\ caller' = "open")
  PROVE  Promised'
<1>1. Writing'
  BY DEF Writing
<1> QED BY <1>1 DEF Promised, Restarted, Emptied, Copying, NoWrite

LEMMA OpenStore ==
  ASSUME IInv, Promised, NEW r \in Request, Open(r)
  PROVE  Promised' /\ StoreStep
<1>1. /\ at = "idle" /\ req' = r /\ UNCHANGED <<flash, pos>>
      /\ at' = "write" \/ (at' = "erase" /\ caller' = "open")
      /\ pos = 0
  BY DEF Open, GoNewSector, IInv, Control
<1>2. req = NoReq /\ r # NoReq
  BY <1>1, NoReqAssumption DEF Promised, NoWrite, Request
<1>3. /\ Pending = NoReq /\ Rec(flash') = Rec(flash)
      /\ Pending' = [id |-> r.id, content |-> Written(r.len, r.val)]
  BY <1>1, <1>2 DEF Pending, Rec
<1>4. /\ r.id \in Ids
      /\ Written(r.len, r.val) \in {Written(n, v) : n \in Lens, v \in Values}
  BY DEF Request
<1>5. PICK i \in {r.id}, c \in {Written(r.len, r.val)} : TRUE
  OBVIOUS
<1>6. RecStore!Begin([id |-> i, content |-> c])
  BY <1>3, <1>5 DEF RecStore!Begin
<1>7. StoreStep
  <2>1. i \in Ids /\ c \in {Written(n, v) : n \in Lens, v \in Values}
    BY <1>4, <1>5
  <2>2. RecStore!Next
    BY <1>6, <2>1 DEF RecStore!Next
  <2> QED BY <2>2 DEF StoreStep
<1> QED BY <1>1, <1>7, WritePromised

LEMMA RetryStore ==
  ASSUME IInv, Promised, Retry
  PROVE  Promised' /\ StoreStep
<1>1. at = "retry" /\ pos = 0 /\ UNCHANGED flash
  BY DEF Retry, IInv, Control
<1>2. CASE Idle
  <2>1. at' = "idle" /\ req' = NoReq
    BY <1>2 DEF Idle, Rest
  <2> QED BY <1>1, <2>1, ElsewherePromised, FailsSame DEF Promised
<1>3. CASE ~ Idle
  <2>1. /\ UNCHANGED <<req, pos>>
        /\ at' = "write" \/ (at' = "erase" /\ caller' = "open")
    BY <1>3 DEF Retry, GoNewSector
  <2> QED BY <1>1, <2>1, WritePromised, Quiet
<1> QED BY <1>2, <1>3

LEMMA CompressReturnsStore ==
  ASSUME Promised, NEW ok \in BOOLEAN, CompressReturns(ok), UNCHANGED flash,
         ~ ok => OnlyCopies(flash, wr_sector)
  PROVE  Promised' /\ StoreStep
<1>1. CASE caller = "open" /\ at' = "retry" /\ UNCHANGED req
  BY <1>1, ElsewherePromised, Quiet DEF Promised
<1>2. CASE Idle \/ Down
  <2>1. at' \in {"idle", "down"} /\ req' = NoReq
    BY <1>2 DEF Idle, Down, Rest
  <2> QED BY <2>1, ElsewherePromised, FailsSame DEF Promised
<1>3. CASE /\ ~ ok /\ at' = "erase" /\ caller' = "remount"
           /\ UNCHANGED <<wr_sector, req>>
  <2>1. Restarted'
    BY <1>3 DEF Restarted
  <2>2. Promised'
    BY <1>3, <2>1 DEF Promised, Emptied, Copying, Writing, NoWrite
  <2> QED BY <1>3, <2>2, Quiet
<1> QED BY <1>1, <1>2, <1>3 DEF CompressReturns

LEMMA CompressDoneStore ==
  ASSUME Promised, CompressDone
  PROVE  Promised' /\ StoreStep
  BY CompressReturnsStore DEF CompressDone

LEMMA CompressNextStore ==
  ASSUME RInv, Promised, CompressNext
  PROVE  Promised' /\ StoreStep
<1> DEFINE cs == NextSector(wr_sector)
<1>1. at = "compress" /\ UNCHANGED flash /\ wr_sector \in Sector
  BY DEF CompressNext, RInv, IInv, TypeOK
<1>2. PICK e \in ToCopy(cur) :
        IF Fits(flash[cs][e].len)
          THEN /\ at' = "copy" /\ cur' = e /\ pos' = 0
               /\ UNCHANGED <<caller, ram, req, nscnt>>
          ELSE CompressReturns(FALSE)
  BY DEF CompressNext
<1>3. /\ e \in Entries(flash[cs]) /\ flash[cs][e].id \in KeepIds
      /\ ~ LaterEntry(flash, wr_sector, cs, e, flash[cs][e].id)
  BY <1>2 DEF ToCopy
<1>4. OnlyCopies(flash, wr_sector)
  <2>1. Newest(flash, wr_sector)
    BY <1>1 DEF RInv, Ages, Mounted, Follows
  <2>2. ~ AllKept(flash, wr_sector)
    BY <1>3 DEF AllKept
  <2> QED BY <1>1, <2>1, <2>2 DEF Promised, Walk
<1>5. CASE /\ at' = "copy" /\ cur' = e /\ pos' = 0
           /\ UNCHANGED <<ram, req>>
  <2>1. wr_sector' = wr_sector
    BY <1>5 DEF ram
  <2>2. Copying'
    BY <1>1, <1>3, <1>5, <2>1 DEF Copying, Source
  <2>3. Promised'
    BY <1>1, <1>5, <2>2 DEF Promised, Restarted, Emptied, Writing, NoWrite
  <2> QED BY <1>1, <1>5, <2>3, Quiet
<1>6. CASE CompressReturns(FALSE)
  BY <1>1, <1>4, <1>6, CompressReturnsStore
<1> QED BY <1>2, <1>5, <1>6

-----------------------------------------------------------------------------
(* Steps that program a block.                                             *)

LEMMA SameStore ==
  ASSUME RInv, Promised, SameEntries(flash, flash'), SameStarts(flash, flash')
  PROVE  Rec(flash') = Rec(flash) /\ Walk(flash')
<1>1. PICK g \in {flash'} : TRUE
  OBVIOUS
<1>2. SameEntries(flash, g) /\ SameStarts(flash, g)
  BY <1>1
<1>3. Rec(g) = Rec(flash) /\ Walk(g)
  BY <1>2, RecSame, WalkSame, NowRecoverable DEF Promised
<1> QED BY <1>1, <1>3

LEMMA CopyBlockStore ==
  ASSUME RInv, Promised, CopyBlock
  PROVE  Promised' /\ StoreStep
<1> DEFINE cs == NextSector(wr_sector)
<1>1. /\ at = "copy" /\ pos < Source.len /\ Source.len \in Nat
      /\ Fits(Source.len)
      /\ UNCHANGED <<at, caller, ram, req, nscnt, cur>> /\ pos' = pos + 1
      /\ Program(wr_sector, wr_data_offset + pos,
                 flash[cs][Source.offset + pos])
      /\ flash[cs][Source.offset + pos] \in Cell
      /\ cs \in Outside(wr_sector)
  BY SourceFacts, SizesAssumption DEF CopyBlock, RInv, Outside
<1>2. /\ SameEntries(flash, flash') /\ SameStarts(flash, flash')
      /\ \A s \in Outside(wr_sector) : flash'[s] = flash[s]
      /\ flash'[wr_sector][wr_data_offset + pos] = flash[cs][Source.offset + pos]
      /\ \A b \in Block : b # wr_data_offset + pos
                            => flash'[wr_sector][b] = flash[wr_sector][b]
  BY <1>1, BlockSame DEF RInv
<1>3. Rec(flash') = Rec(flash) /\ Walk(flash')
  BY <1>2, SameStore
<1>4. /\ wr_sector' = wr_sector /\ wr_data_offset' = wr_data_offset
      /\ flash'[cs] = flash[cs] /\ cur' = cur /\ Source' = Source
  BY <1>1, <1>2 DEF ram, Source
<1>5. Copying'
  <2>1. /\ cur \in Entries(flash[cs]) /\ Source.id \in KeepIds
        /\ ~ LaterEntry(flash, wr_sector, cs, cur, Source.id)
        /\ \A k \in 0..pos - 1 :
             flash[wr_sector][wr_data_offset + k] = flash[cs][Source.offset + k]
    BY <1>1 DEF Promised, Copying
  <2>2. PICK g \in {flash'} : TRUE
    OBVIOUS
  <2>3. ~ LaterEntry(g, wr_sector, cs, cur, Source.id)
    BY <1>2, <2>1, <2>2, LaterSame
  <2>4. ASSUME NEW k \in 0..pos
        PROVE  flash'[wr_sector][wr_data_offset + k] = flash[cs][Source.offset + k]
    <3>0. pos \in Nat /\ wr_data_offset \in Int /\ k \in Int
      BY <1>1, WriteEntries DEF RInv, IInv, TypeOK
    <3>1. CASE k = pos
      BY <1>2, <3>1
    <3>2. CASE k # pos
      <4>1. k \in 0..pos - 1 /\ wr_data_offset + k # wr_data_offset + pos
        BY <3>0, <3>2
      <4>2. wr_data_offset + k \in Block
        BY <1>1, <3>0, <3>2, WriteEntries, SizesAssumption
           DEF RInv, Fits, Block, Slot
      <4> QED BY <1>2, <2>1, <4>1, <4>2
    <3> QED BY <3>1, <3>2
  <2>5. pos' - 1 = pos
    BY <1>1 DEF RInv, IInv, TypeOK
  <2>6. \A k \in 0..pos' - 1 :
          flash'[wr_sector][wr_data_offset + k] = flash[cs][Source.offset + k]
    BY <2>4, <2>5
  <2>7. ~ LaterEntry(flash', wr_sector, cs, cur, Source.id)
    BY <2>2, <2>3
  <2> HIDE DEF cs
  <2>8. cs = NextSector(wr_sector)
    BY DEF cs
  <2> QED BY <1>4, <2>1, <2>6, <2>7, <2>8 DEF Copying
<1>6. Promised'
  BY <1>1, <1>3, <1>5
     DEF Promised, Restarted, Emptied, Writing, NoWrite
<1> QED BY <1>1, <1>3, <1>6, Quiet

LEMMA WriteBlockStore ==
  ASSUME RInv, Promised, WriteBlock
  PROVE  Promised' /\ StoreStep
<1>1. /\ at = "write" /\ pos < req.len /\ req.len \in Nat
      /\ Fits(req.len)
      /\ UNCHANGED <<at, caller, ram, req, nscnt, cur>> /\ pos' = pos + 1
      /\ Program(wr_sector, wr_data_offset + pos, Data(req.val))
      /\ Data(req.val) \in Cell
  BY WriteFacts DEF WriteBlock, RInv
<1>2. /\ SameEntries(flash, flash') /\ SameStarts(flash, flash')
      /\ flash'[wr_sector][wr_data_offset + pos] = Data(req.val)
      /\ \A b \in Block : b # wr_data_offset + pos
                            => flash'[wr_sector][b] = flash[wr_sector][b]
  BY <1>1, BlockSame DEF RInv
<1>3. Rec(flash') = Rec(flash) /\ Walk(flash')
  BY <1>2, SameStore
<1>4. wr_sector' = wr_sector /\ wr_data_offset' = wr_data_offset /\ req' = req
  BY <1>1 DEF ram
<1>5. Writing'
  <2>1. \A k \in 0..pos - 1 :
          flash[wr_sector][wr_data_offset + k] = Data(req.val)
    BY <1>1 DEF Promised, Writing
  <2>2. ASSUME NEW k \in 0..pos
        PROVE  flash'[wr_sector][wr_data_offset + k] = Data(req.val)
    <3>0. pos \in Nat /\ wr_data_offset \in Int /\ k \in Int
      BY <1>1, WriteEntries DEF RInv, IInv, TypeOK
    <3>1. CASE k = pos
      BY <1>2, <3>1
    <3>2. CASE k # pos
      <4>1. k \in 0..pos - 1 /\ wr_data_offset + k # wr_data_offset + pos
        BY <3>0, <3>2
      <4>2. wr_data_offset + k \in Block
        BY <1>1, <3>0, <3>2, WriteEntries, SizesAssumption
           DEF RInv, Fits, Block, Slot
      <4> QED BY <1>2, <2>1, <4>1, <4>2
    <3> QED BY <3>1, <3>2
  <2>3. pos' - 1 = pos
    BY <1>1 DEF RInv, IInv, TypeOK
  <2>4. \A k \in 0..pos' - 1 :
          flash'[wr_sector][wr_data_offset + k] = Data(req.val)
    BY <2>2, <2>3
  <2> QED BY <1>4, <2>4 DEF Writing
<1>6. Promised'
  BY <1>1, <1>3, <1>5
     DEF Promised, Restarted, Emptied, Copying, NoWrite
<1> QED BY <1>1, <1>3, <1>6, Quiet

-----------------------------------------------------------------------------
(* Steps that close a location.                                            *)

LEMMA AddedReads ==
  ASSUME wr_sector \in Sector, NEW k, NEW i, NEW content, Added(k, i, content),
         NEW j
  PROVE  Read(flash', wr_sector, j)
           = IF j = i THEN content ELSE Read(flash, wr_sector, j)
<1>1. PICK g \in {flash'}, w \in {wr_sector} : TRUE
  OBVIOUS
<1>2. /\ \A s \in Sector : s # w => g[s] = flash[s]
      /\ Entries(g[w]) = Entries(flash[w]) \cup {k}
      /\ k \in Int /\ k \notin Entries(flash[w])
      /\ \A p \in Entries(flash[w]) :
           /\ k < p /\ p \in Int /\ g[w][p] = flash[w][p]
           /\ Content(g[w], g[w][p]) = Content(flash[w], flash[w][p])
      /\ g[w][k].id = i /\ Content(g[w], g[w][k]) = content
      /\ w \in Sector
  BY <1>1 DEF Added, Outside
<1>3. CASE j = i
  <2>1. <<w, k>> \in Met(g, i)
    BY <1>2, MetHas
  <2>2. ASSUME NEW o \in Met(g, i) PROVE After(w, <<w, k>>, o)
    <3>1. o[1] \in Sector /\ o[2] \in Entries(g[o[1]])
      BY MetIs
    <3>2. CASE o[1] = w
      <4>1. o[2] = k \/ o[2] \in Entries(flash[w])
        BY <1>2, <3>1, <3>2
      <4>2. k <= o[2]
        BY <1>2, <4>1
      <4> QED BY <3>2, <4>2 DEF After
    <3>3. CASE o[1] # w
      <4>1. Behind(w, w) = 0 /\ Behind(w, o[1]) \in Nat /\ Behind(w, o[1]) # 0
        BY <1>2, <3>1, <3>3, BehindIs, SizesAssumption
      <4> QED BY <4>1 DEF After
    <3> QED BY <3>2, <3>3
  <2>3. Latest(g, w, i, Sector, <<w, k>>)
    BY <1>2, <2>1, <2>2 DEF Latest
  <2>4. Read(g, w, i) = Content(g[w], g[w][k])
    BY <1>2, <2>3, ReadLatest
  <2> QED BY <1>1, <1>2, <1>3, <2>4
<1>4. CASE j # i
  <2>1. \A e \in Sector \X Slot :
          e[2] \in Entries(g[e[1]]) /\ g[e[1]][e[2]].id = j
            <=> e[2] \in Entries(flash[e[1]]) /\ flash[e[1]][e[2]].id = j
    <3> TAKE e \in Sector \X Slot
    <3>1. CASE e[1] = w
      BY <1>2, <1>4, <3>1
    <3>2. CASE e[1] # w
      BY <1>2, <3>2
    <3> QED BY <3>1, <3>2
  <2>2. Met(g, j) = Met(flash, j)
    BY <2>1 DEF Met
  <2>3. ASSUME NEW e \in Met(flash, j)
        PROVE  Content(g[e[1]], g[e[1]][e[2]])
                 = Content(flash[e[1]], flash[e[1]][e[2]])
    <3>1. e[1] \in Sector /\ e[2] \in Entries(flash[e[1]])
      BY MetIs
    <3> QED BY <1>2, <3>1
  <2>4. CASE Met(flash, j) = {}
    BY <1>1, <1>4, <2>2, <2>4, ReadNone
  <2>5. CASE Met(flash, j) # {}
    <3>1. PICK x \in Met(flash, j) : x[1] \in Sector
      BY <2>5, MetIs
    <3>2. PICK e : Latest(flash, w, j, Sector, e)
      BY <1>2, <3>1, LatestExists
    <3>3. Latest(g, w, j, Sector, e) /\ e \in Met(flash, j)
      BY <2>2, <3>2 DEF Latest
    <3>4. Read(g, w, j) = Read(flash, w, j)
      BY <1>2, <2>3, <3>2, <3>3, ReadLatest
    <3> QED BY <1>1, <1>4, <3>4
  <2> QED BY <2>4, <2>5
<1> QED BY <1>3, <1>4

LEMMA AddedRec ==
  ASSUME RInv, RInv', Mounted, NEW k, NEW i, NEW content, Added(k, i, content),
         SameStarts(flash, flash')
  PROVE  /\ Rec(flash') = [j \in Ids |-> IF j = i THEN content ELSE Rec(flash)[j]]
         /\ Rec(flash) = [j \in Ids |-> Read(flash, wr_sector, j)]
         /\ Newest(flash', wr_sector) /\ Newest(flash, wr_sector)
<1>1. wr_sector \in Sector /\ Newest(flash, wr_sector) /\ RightIds(flash)
  BY NowRecoverable DEF RInv, IInv, TypeOK, Ages, Follows
<1>2. PICK g \in {flash'}, w \in {wr_sector} : TRUE
  OBVIOUS
<1>3. Newest(g, w) /\ Started(g) = Started(flash)
      /\ \A s \in Started(flash) : g[s][0] = flash[s][0]
  BY <1>1, <1>2, NewestSame, StartedSame
<1>4. RightIds(g)
  BY <1>1, <1>3 DEF RightIds
<1>5. Rec(g) = [j \in Ids |-> Read(g, w, j)]
  BY <1>1, <1>2, <1>3, <1>4, RecNewest
<1>6. Rec(flash) = [j \in Ids |-> Read(flash, w, j)]
  BY <1>1, <1>2, RecNewest
<1>7. \A j : Read(g, w, j) = IF j = i THEN content ELSE Read(flash, w, j)
  BY <1>1, <1>2, AddedReads
<1>8. Rec(g) = [j \in Ids |-> IF j = i THEN content ELSE Rec(flash)[j]]
  BY <1>5, <1>6, <1>7
<1> QED BY <1>1, <1>2, <1>3, <1>6, <1>8

(* All that a mounted sector needs but for the state of its entries.       *)
LEMMA AddedGap ==
  ASSUME NEW k, NEW i, NEW content, Added(k, i, content),
         SameStarts(flash, flash'),
         Newest(flash, wr_sector), Gap(flash, wr_sector)
  PROVE  Gap(flash', wr_sector)
<1>1. Started(flash') = Started(flash) /\ wr_sector \in Started(flash)
  <2>1. PICK g \in {flash'} : TRUE
    OBVIOUS
  <2>2. Started(g) = Started(flash)
    BY <2>1, StartedSame
  <2> QED BY <2>1, <2>2 DEF Newest
<1> QED BY <1>1 DEF Gap, Added, Outside

LEMMA CloseStore ==
  ASSUME HasCompress \/ KeepIds = {}, RInv, RInv', Promised, Close
  PROVE  Promised' /\ StoreStep
<1>1. /\ at = "write" /\ at' = "idle" /\ pos = req.len /\ req' = NoReq
      /\ CloseAs(req.id, req.len) /\ wr_sector' = wr_sector
      /\ req \in Request /\ req # NoReq
      /\ req.id \in Ids /\ req.len \in Lens /\ req.len \in Nat /\ Fits(req.len)
  BY WriteFacts, NoReqAssumption
     DEF Close, CloseAs, Rest, RInv, IInv, Control, Request
<1> DEFINE content ==
             [k \in 1..req.len |-> flash[wr_sector][wr_data_offset + k - 1]]
<1>2. /\ Added(wr_ate_offset, req.id, content)
      /\ SameStarts(flash, flash')
  BY <1>1, CloseAdds DEF RInv
<1>3. content = Written(req.len, req.val)
  <2>1. ASSUME NEW k \in 1..req.len
        PROVE  flash[wr_sector][wr_data_offset + k - 1] = Data(req.val)
    <3>1. PICK m \in 0..pos - 1 : m = k - 1
      BY <1>1
    <3>2. flash[wr_sector][wr_data_offset + m] = Data(req.val)
      BY <1>1 DEF Promised, Writing
    <3>3. wr_data_offset + m = wr_data_offset + k - 1
      BY <1>1, <3>1, WriteEntries DEF RInv
    <3> QED BY <3>2, <3>3
  <2> QED BY <2>1 DEF Written
<1> HIDE DEF content
<1>4. /\ Rec(flash') = [j \in Ids |-> IF j = req.id THEN content ELSE Rec(flash)[j]]
      /\ Newest(flash', wr_sector) /\ Newest(flash, wr_sector)
      /\ wr_sector \in Sector
  BY <1>1, <1>2, AddedRec DEF Mounted, RInv, IInv, TypeOK
<1>5. Gap(flash', wr_sector)
  BY <1>2, <1>4, AddedGap DEF Promised, Walk
<1>6. AllKept(flash', wr_sector)
  <2>1. CASE KeepIds = {}
    BY <2>1 DEF AllKept
  <2>2. CASE HasCompress
    <3>1. Copied(0)'
      BY <1>1, <2>2 DEF RInv, AllCopied
    <3>2. \A a \in Entries(flash'[NextSector(wr_sector)]) : a >= 0
      BY SizesAssumption DEF Entries, Slot
    <3> QED BY <1>1, <3>1, <3>2 DEF Copied, AllKept
  <2> QED BY <2>1, <2>2
<1>7. Walk(flash')
  <2>1. RightIds(flash')
    <3>1. PICK g \in {flash'} : TRUE
      OBVIOUS
    <3>2. Started(g) = Started(flash)
          /\ \A s \in Started(flash) : g[s][0] = flash[s][0]
      BY <1>2, <3>1, StartedSame
    <3> QED BY <3>1, <3>2, NowRecoverable DEF RightIds
  <2>2. \A w \in Sector : Newest(flash', w) => w = wr_sector
    BY <1>4, <2>1, NewestIsOne
  <2> QED BY <1>5, <1>6, <2>2 DEF Walk
<1>8. Promised'
  BY <1>1, <1>7, ElsewherePromised
<1>9. RecStore!Commit
  <2>1. Rec(flash') = [j \in Ids |-> IF j = req.id THEN content ELSE Rec(flash)[j]]
    BY <1>4 DEF Rec
  <2>2. Rec(flash') = [Rec(flash) EXCEPT ![req.id] = content]
    BY <2>1 DEF Rec
  <2>3. /\ Pending' = NoReq
        /\ Pending = [id |-> req.id, content |-> content]
    BY <1>1, <1>3 DEF Pending
  <2>4. Pending # NoReq /\ Pending.id = req.id /\ Pending.content = content
    BY <1>1, <1>3, <2>3, PendingAssumption DEF Request
  <2> QED BY <2>2, <2>3, <2>4 DEF RecStore!Commit
<1> QED BY <1>8, <1>9 DEF StoreStep, RecStore!Next

LEMMA NotLater ==
  ASSUME NEW f, NEW w \in Sector, NEW a, NEW i,
         ~ LaterEntry(f, w, NextSector(w), a, i), NSectors > 1
  PROVE  \A t \in Sector : \A b \in Entries(f[t]) :
           f[t][b].id = i => t = NextSector(w) /\ ~ (b < a)
<1> DEFINE cs == NextSector(w)
<1>1. ASSUME NEW t \in Sector, t # cs PROVE Age(w, t) > Age(w, cs)
  <2>1. cs \in Sector /\ Prev(cs) = w
    BY PrevNext
  <2>2. Behind(w, cs) = NSectors - 1
    BY <2>1, PrevNext
  <2>3. Behind(w, t) \in 0..NSectors - 1 /\ Behind(w, t) # Behind(w, cs)
    BY <1>1, <2>1, BehindIs
  <2>4. Behind(w, t) < Behind(w, cs)
    BY <2>2, <2>3, SizesAssumption
  <2>5. Age(w, cs) < Age(w, t)
    BY <2>1, <2>4, Younger
  <2>6. Age(w, cs) \in Int /\ Age(w, t) \in Int
    BY <2>1, AgeIs, BehindIs, SizesAssumption
  <2> QED BY <2>5, <2>6
<1> HIDE DEF cs
<1>2. cs = NextSector(w)
  BY DEF cs
<1> QED BY <1>1, <1>2 DEF LaterEntry

LEMMA CopyCloseStore ==
  ASSUME RInv, RInv', Promised, CopyClose
  PROVE  Promised' /\ StoreStep
<1> DEFINE cs == NextSector(wr_sector)
           k == wr_ate_offset
           content == [m \in 1..Source.len |-> flash[wr_sector][wr_data_offset + m - 1]]
<1>1. /\ at = "copy" /\ at' = "compress" /\ pos = Source.len
      /\ req' = req /\ CloseAs(Source.id, Source.len) /\ wr_sector' = wr_sector
      /\ Source.id \in Ids /\ Source.len \in Lens /\ Source.len \in Nat
      /\ Fits(Source.len) /\ cs \in Sector /\ cs # wr_sector
      /\ wr_sector \in Sector /\ NSectors > 1
  <2>1. /\ at = "copy" /\ at' = "compress" /\ pos = Source.len
        /\ req' = req /\ CloseAs(Source.id, Source.len) /\ wr_sector' = wr_sector
    BY DEF CopyClose, CloseAs
  <2>2. HasCompress
    BY <2>1 DEF RInv, IInv, Control
  <2> QED BY <2>1, <2>2, SourceFacts, CompressSector, SizesAssumption DEF RInv
<1>2. /\ Added(k, Source.id, content)
      /\ SameStarts(flash, flash')
  BY <1>1, CloseAdds DEF RInv
<1>3. /\ cur \in Entries(flash[cs]) /\ Source.id \in KeepIds
      /\ ~ LaterEntry(flash, wr_sector, cs, cur, Source.id)
      /\ \A m \in 0..pos - 1 :
           flash[wr_sector][wr_data_offset + m] = flash[cs][Source.offset + m]
  BY <1>1 DEF Promised, Copying
<1>4. content = Content(flash[cs], flash[cs][cur])
  <2>1. Source.offset \in Int
    <3>1. cur \in Block /\ flash[cs][cur].kind = "ate"
      BY <1>3, SizesAssumption DEF Entries, IsAte, Slot, Block
    <3>2. flash[cs] \in [Block -> Cell]
      BY <1>1 DEF RInv, IInv, TypeOK
    <3> QED BY <3>1, <3>2, CellKind DEF Source
  <2>2. ASSUME NEW m \in 1..Source.len
        PROVE  flash[wr_sector][wr_data_offset + m - 1]
                 = flash[cs][Source.offset + m - 1]
    <3>1. PICK n \in 0..pos - 1 : n = m - 1
      BY <1>1
    <3>2. flash[wr_sector][wr_data_offset + n] = flash[cs][Source.offset + n]
      BY <1>3
    <3>3. /\ wr_data_offset + n = wr_data_offset + m - 1
          /\ Source.offset + n = Source.offset + m - 1
      BY <1>1, <2>1, <3>1, WriteEntries DEF RInv
    <3> QED BY <3>2, <3>3
  <2> QED BY <2>2 DEF Content, Source
<1> HIDE DEF content, cs
<1>5. /\ Rec(flash') = [j \in Ids |-> IF j = Source.id THEN content
                                      ELSE Rec(flash)[j]]
      /\ Rec(flash) = [j \in Ids |-> Read(flash, wr_sector, j)]
      /\ Newest(flash', wr_sector) /\ Newest(flash, wr_sector)
  BY <1>1, <1>2, AddedRec DEF Mounted
<1>6. \A t \in Sector : \A b \in Entries(flash[t]) :
        flash[t][b].id = Source.id => t = cs /\ b >= cur
  <2>1. \A t \in Sector : \A b \in Entries(flash[t]) :
          flash[t][b].id = Source.id => t = cs /\ ~ (b < cur)
    BY <1>1, <1>3, NotLater DEF cs
  <2>2. \A t \in Sector : \A b \in Entries(flash[t]) : b \in Int
    BY SizesAssumption DEF Entries, Slot
  <2>3. cur \in Int
    BY <1>3, SizesAssumption DEF Entries, Slot
  <2> QED BY <2>1, <2>2, <2>3
<1>7. flash[cs][cur].id = Source.id
  BY DEF Source, cs
<1>8. Read(flash, wr_sector, Source.id) = content
  <2>1. <<cs, cur>> \in Met(flash, Source.id)
    BY <1>1, <1>3, <1>7, MetHas
  <2>2. ASSUME NEW o \in Met(flash, Source.id)
        PROVE  After(wr_sector, <<cs, cur>>, o)
    BY <1>6, MetIs DEF After
  <2>3. Latest(flash, wr_sector, Source.id, Sector, <<cs, cur>>)
    BY <1>1, <2>1, <2>2 DEF Latest
  <2> QED BY <1>1, <1>4, <2>3, ReadLatest
<1>9. Rec(flash') = Rec(flash)
  BY <1>5, <1>8
<1>10. Gap(flash', wr_sector)
  BY <1>1, <1>2, <1>5, AddedGap DEF Promised, Walk
<1>11. OnlyCopies(flash, wr_sector)
  <2>1. ~ AllKept(flash, wr_sector)
    BY <1>3, <1>7 DEF AllKept, cs
  <2> QED BY <1>1, <1>5, <2>1 DEF Promised, Walk
<1>12. OnlyCopies(flash', wr_sector)
  <2>1. PICK g \in {flash'}, w \in {wr_sector} : TRUE
    OBVIOUS
  <2>2. /\ \A s \in Sector : s # w => g[s] = flash[s]
        /\ Entries(g[w]) = Entries(flash[w]) \cup {k}
        /\ \A p \in Entries(flash[w]) :
             /\ g[w][p] = flash[w][p]
             /\ Content(g[w], g[w][p]) = Content(flash[w], flash[w][p])
        /\ g[w][k].id = Source.id /\ Content(g[w], g[w][k]) = content
    BY <1>2, <2>1 DEF Added, Outside
  <2>3. g[cs] = flash[cs] /\ cs = NextSector(w)
    BY <1>1, <2>1, <2>2 DEF cs
  <2>4. /\ cs \in Started(flash) \/ Entries(flash[cs]) = {}
        /\ \A p \in Entries(flash[w]) :
             \E a \in Entries(flash[cs]) : IsCopy(flash, w, p, a)
    BY <1>11, <2>1 DEF OnlyCopies, cs
  <2>5. Started(g) = Started(flash)
    BY <1>2, <2>1, StartedSame
  <2>6. ASSUME NEW p \in Entries(flash[w]), NEW a \in Entries(flash[cs]),
               IsCopy(flash, w, p, a)
        PROVE  IsCopy(g, w, p, a)
    <3>1. g[w][p] = flash[w][p]
          /\ Content(g[w], g[w][p]) = Content(flash[w], flash[w][p])
      BY <2>2
    <3> QED BY <2>2, <2>3, <2>6, <3>1 DEF IsCopy
  <2>7. IsCopy(g, w, k, cur)
    <3>1. ASSUME NEW t \in Sector, NEW b \in Entries(g[t]),
                 t # w, g[t][b].id = g[w][k].id
          PROVE  t = cs /\ b >= cur
      BY <1>6, <2>2, <3>1
    <3> QED BY <1>4, <1>7, <2>2, <2>3, <3>1 DEF IsCopy
  <2>8. \A p \in Entries(g[w]) : \E a \in Entries(g[cs]) : IsCopy(g, w, p, a)
    <3> TAKE p \in Entries(g[w])
    <3>1. CASE p = k
      BY <1>3, <2>3, <2>7, <3>1
    <3>2. CASE p \in Entries(flash[w])
      BY <2>3, <2>4, <2>6, <3>2
    <3> QED BY <2>2, <3>1, <3>2
  <2>9. OnlyCopies(g, w)
    BY <2>3, <2>4, <2>5, <2>8 DEF OnlyCopies
  <2> QED BY <2>1, <2>9
<1>13. Walk(flash')
  <2>1. RightIds(flash')
    <3>1. PICK g \in {flash'} : TRUE
      OBVIOUS
    <3>2. Started(g) = Started(flash)
          /\ \A s \in Started(flash) : g[s][0] = flash[s][0]
      BY <1>2, <3>1, StartedSame
    <3> QED BY <3>1, <3>2, NowRecoverable DEF RightIds
  <2>2. \A w \in Sector : Newest(flash', w) => w = wr_sector
    BY <1>1, <1>5, <2>1, NewestIsOne
  <2> QED BY <1>10, <1>12, <2>2 DEF Walk
<1>14. Promised'
  BY <1>1, <1>13, ElsewherePromised
<1> QED BY <1>1, <1>9, <1>14, Quiet

-----------------------------------------------------------------------------
(* Formatting: there was nothing to read.                                  *)

LEMMA UnstartedWalk ==
  ASSUME NEW f, Started(f) = {}
  PROVE  Walk(f)
  BY DEF Walk, Newest

LEMMA FormatSectorStore ==
  ASSUME RInv, RInv', Promised, FormatSector
  PROVE  Promised' /\ StoreStep
<1>1. at = "format" /\ at' = "format" /\ UNCHANGED req
  BY DEF FormatSector
<1>2. Started(flash) = {} /\ Started(flash') = {}
  BY <1>1 DEF RInv, Ages
<1>3. Rec(flash') = Rec(flash)
  BY <1>2, RecNone
<1> QED BY <1>1, <1>2, <1>3, Quiet, UnstartedWalk, ElsewherePromised

LEMMA FormatDoneStore ==
  ASSUME RInv, FormatInv, Promised, FormatDone
  PROVE  Promised' /\ StoreStep
<1>1. /\ at = "format" /\ cur = NSectors /\ at' = "down" /\ req' = NoReq
  BY DEF FormatDone, Down, Rest
<1>2. \A s \in Sector : Entries(flash'[s]) = {}
  BY <1>1, FormatLast DEF Next, Step
<1>3. Started(flash) = {}
  BY <1>1 DEF RInv, Ages
<1>4. Rec(flash') = Rec(flash)
  <2>1. \A i : Met(flash', i) = {}
    BY <1>2 DEF Met
  <2>2. Rec(flash') = [i \in Ids |-> Missing]
    BY <2>1, ReadNone DEF Rec
  <2> QED BY <1>3, <2>2, RecNone
<1>5. Walk(flash')
  <2>1. \A w \in Sector : NextSector(w) \in Sector
    BY NextIsSector
  <2>2. \A w \in Sector : Gap(flash', w) /\ AllKept(flash', w)
    BY <1>2, <2>1 DEF Gap, AllKept
  <2> QED BY <2>2 DEF Walk
<1> QED BY <1>1, <1>4, <1>5, FailsSame, ElsewherePromised

-----------------------------------------------------------------------------
(* Erasing, in whole or in part.                                           *)

LEMMA ErasedEntries ==
  ASSUME NEW c \in [Block -> Cell], NEW P
  PROVE  LET d == Erased(c, P)
         IN  /\ \A p \in Entries(d) : p \in Entries(c) /\ d[p] = c[p]
             /\ SectorSize - 1 \in P => Entries(d) = {}
             /\ d[0] = IF 0 \in P THEN Blank ELSE c[0]
<1> DEFINE d == Erased(c, P)
<1>1. \A b \in Block : d[b] = c[b] \/ d[b] = Blank
  BY DEF Erased
<1>2. \A p \in Entries(d) : p \in Entries(c) /\ d[p] = c[p]
  BY <1>1, BlankKind, SizesAssumption DEF Entries, IsAte, Slot, Block
<1>3. 0 \in Block /\ SectorSize - 1 \in Block
  BY SizesAssumption DEF Block
<1>4. d[0] = IF 0 \in P THEN Blank ELSE c[0]
  BY <1>3 DEF Erased
<1>5. ASSUME SectorSize - 1 \in P PROVE Entries(d) = {}
  <2>1. d[SectorSize - 1] = Blank
    BY <1>3, <1>5 DEF Erased
  <2>2. \A p \in Slot : SectorSize - 1 \in p..SectorSize - 1
    BY SizesAssumption DEF Slot
  <2> QED BY <2>1, <2>2 DEF Entries
<1> QED BY <1>2, <1>4, <1>5

(* What may be lost                                                        *)
(* From flash to g an identifier reads as before, or is not kept and gone. *)
Lost(g) ==
  \A i \in Ids : \/ Rec(g)[i] = Rec(flash)[i]
                 \/ i \notin KeepIds /\ Rec(g)[i] = Missing

LEMMA LostIds ==
  ASSUME NEW g, Lost(g)
  PROVE  \E ids \in SUBSET (Ids \ KeepIds) :
           Rec(g) = [i \in Ids |-> IF i \in ids THEN Missing ELSE Rec(flash)[i]]
<1> DEFINE ids == {i \in Ids \ KeepIds : Rec(g)[i] = Missing}
<1>1. ids \in SUBSET (Ids \ KeepIds)
  OBVIOUS
<1>2. \A i \in Ids : Rec(g)[i] = IF i \in ids THEN Missing ELSE Rec(flash)[i]
  BY DEF Lost
<1>3. Rec(g) = [i \in Ids |-> Rec(g)[i]]
  BY DEF Rec
<1>4. Rec(g) = [i \in Ids |-> IF i \in ids THEN Missing ELSE Rec(flash)[i]]
  BY <1>2, <1>3
<1> QED BY <1>1, <1>4

(* An entry to keep of the sector that is erased is met again elsewhere.   *)
LEMMA KeptElsewhere ==
  ASSUME RInv, at = "erase", caller = "open", HasCompress \/ KeepIds = {},
         NEW i \in KeepIds, NEW x \in Entries(flash[wr_sector]),
         flash[wr_sector][x].id = i
  PROVE  Elsewhere(flash, wr_sector, i)
<1>1. wr_sector \in Sector /\ HasCompress
  BY DEF RInv, IInv, TypeOK
<1> DEFINE T == {a \in Entries(flash[wr_sector]) : flash[wr_sector][a].id = i}
<1>2. T \subseteq Nat /\ T # {}
  BY SizesAssumption DEF Entries, Slot
<1>3. PICK a \in T : \A m \in T : a <= m
  BY <1>2, Least
<1>4. LaterEntry(flash, (wr_sector - 1) % NSectors, wr_sector, a, i)
  BY <1>1, <1>3 DEF RInv, CopiedBeforeErase
<1>5. PICK v \in {(wr_sector - 1) % NSectors} : TRUE
  OBVIOUS
<1>6. PICK t \in Sector : \E b \in Entries(flash[t]) :
        /\ flash[t][b].id = i
        /\ Age(v, t) > Age(v, wr_sector) \/ (t = wr_sector /\ b < a)
  BY <1>4, <1>5 DEF LaterEntry
<1>7. PICK b \in Entries(flash[t]) :
        /\ flash[t][b].id = i
        /\ Age(v, t) > Age(v, wr_sector) \/ (t = wr_sector /\ b < a)
  BY <1>6
<1>8. t # wr_sector
  <2>1. SUFFICES ASSUME t = wr_sector PROVE FALSE
    OBVIOUS
  <2>2. ~ (b < a)
    BY <1>2, <1>3, <1>7, <2>1
  <2>3. v \in Sector
    <3>1. \A n \in Int : n % NSectors \in 0..NSectors - 1
      BY SizesAssumption
    <3> QED BY <1>1, <1>5, <3>1 DEF Sector
  <2>4. Age(v, wr_sector) \in Int
    BY <1>1, <2>3, AgeIs, BehindIs, SizesAssumption
  <2> QED BY <1>7, <2>1, <2>2, <2>4
<1>9. <<t, b>> \in Met(flash, i)
  BY <1>7, MetHas
<1> QED BY <1>8, <1>9 DEF Elsewhere, Outside

(* g is the flash while or after sector w is erased.                       *)
(* Sector w was erased, wholly or in part.                                 *)
ErasedTo(g, w) ==
  /\ \A s \in Outside(w) : g[s] = flash[s]
  /\ \A b \in Entries(g[w]) : b \in Entries(flash[w]) /\ g[w][b] = flash[w][b]
  /\ \/ ~ IsStart(g[w])
     \/ g[w][0] = flash[w][0] /\ Entries(g[w]) = {}

LEMMA ErasedElsewhere ==
  ASSUME NEW g, NEW w, ErasedTo(g, w), NEW i
  PROVE  Elsewhere(g, w, i) <=> Elsewhere(flash, w, i)
  BY DEF ErasedTo, Elsewhere, Met, Outside

LEMMA ErasedStarts ==
  ASSUME NEW g, NEW w \in Sector, ErasedTo(g, w), RightIds(flash)
  PROVE  /\ RightIds(g)
         /\ \A s \in Outside(w) : s \in Started(g) <=> s \in Started(flash)
         /\ Started(g) \subseteq Started(flash)
<1>1. \A s \in Sector :
        s \in Started(g) => s \in Started(flash) /\ g[s][0] = flash[s][0]
  BY DEF ErasedTo, Started, IsStart, Outside
<1>2. \A s \in Outside(w) : s \in Started(g) <=> s \in Started(flash)
  BY DEF ErasedTo, Started, Outside
<1>3. Started(g) \subseteq Sector
  BY DEF Started
<1> QED BY <1>1, <1>2, <1>3 DEF RightIds

(* The entries that are left of those to keep are met again.               *)
LEMMA ErasedKept ==
  ASSUME NEW g, NEW w \in Sector, ErasedTo(g, w), NSectors > 1,
         \A x \in Entries(g[w]) :
           flash[w][x].id \in KeepIds => Elsewhere(flash, w, flash[w][x].id)
  PROVE  AllKept(g, Prev(w))
<1>1. NextSector(Prev(w)) = w /\ Prev(w) \in Sector
  BY PrevNext
<1>2. ASSUME NEW x \in Entries(g[w]), g[w][x].id \in KeepIds
      PROVE  LaterEntry(g, Prev(w), w, x, g[w][x].id)
  <2>1. PICK i \in {g[w][x].id} : TRUE
    OBVIOUS
  <2>2. Elsewhere(g, w, i)
    BY <1>2, <2>1, ErasedElsewhere DEF ErasedTo
  <2>3. PICK o \in Met(g, i) : o[1] \in Outside(w)
    BY <2>2 DEF Elsewhere
  <2>4. /\ o[1] \in Sector /\ o[1] # w /\ o[2] \in Entries(g[o[1]])
        /\ g[o[1]][o[2]].id = i
    BY <2>3, MetIs DEF Outside
  <2>5. Behind(Prev(w), w) = NSectors - 1
    BY PrevNext
  <2>6. /\ Behind(Prev(w), o[1]) \in 0..NSectors - 1
        /\ Behind(Prev(w), o[1]) # Behind(Prev(w), w)
    BY <1>1, <2>4, BehindIs
  <2>7. Age(Prev(w), w) < Age(Prev(w), o[1])
    BY <1>1, <2>4, <2>5, <2>6, Younger, SizesAssumption
  <2>8. Age(Prev(w), w) \in Int /\ Age(Prev(w), o[1]) \in Int
    BY <1>1, <2>4, AgeIs, BehindIs, SizesAssumption
  <2>9. LaterEntry(g, Prev(w), w, x, i)
    BY <2>4, <2>7, <2>8 DEF LaterEntry
  <2> QED BY <2>1, <2>9
<1> QED BY <1>1, <1>2 DEF AllKept

LEMMA OpenErased ==
  ASSUME RInv, Promised, at = "erase", caller = "open",
         HasCompress \/ KeepIds = {}, NEW g, ErasedTo(g, wr_sector),
         Entries(g[wr_sector]) = {} \/ KeepIds = Ids
  PROVE  /\ Lost(g) /\ Walk(g)
         /\ Started(g) = {} /\ Entries(g[wr_sector]) = {}
              => \A s \in Sector : Entries(g[s]) = {}
<1>0. PICK w \in {wr_sector} : TRUE
  OBVIOUS
<1>1. /\ w \in Sector /\ Prev(w) \in Sector /\ RightIds(flash)
      /\ Newest(flash, Prev(w)) /\ NextSector(Prev(w)) = w
      /\ ErasedTo(g, w) /\ (Entries(g[w]) = {} \/ KeepIds = Ids)
  BY <1>0, NowRecoverable, PrevNext DEF RInv, IInv, TypeOK, Ages, Follows
<1>2. RightIds(g)
  BY <1>1, ErasedStarts
<1>3. CASE NSectors > 1
  <2>1. Prev(w) \in Outside(w)
    BY <1>1, <1>3, PrevNext DEF Outside
  <2>2. Newest(g, Prev(w))
    <3>1. \A s \in Sector : s # w => g[s][0] = flash[s][0]
      BY <1>1 DEF ErasedTo, Outside
    <3>2. CASE ~ IsStart(g[w])
      BY <1>1, <1>3, <3>1, <3>2, NewestDrop
    <3>3. CASE g[w][0] = flash[w][0]
      <4>1. SameStarts(flash, g)
        BY <3>1, <3>3 DEF SameStarts
      <4> QED BY <1>1, <4>1, NewestSame
    <3> QED BY <1>1, <3>2, <3>3 DEF ErasedTo
  <2>3. /\ Rec(g) = [i \in Ids |-> Read(g, Prev(w), i)]
        /\ Rec(flash) = [i \in Ids |-> Read(flash, Prev(w), i)]
    BY <1>1, <1>2, <2>2, RecNewest
  <2>4. ASSUME NEW x \in Entries(flash[w]), flash[w][x].id \in KeepIds
        PROVE  Elsewhere(flash, w, flash[w][x].id)
    BY <1>0, <2>4, KeptElsewhere
  <2>5. ASSUME NEW i \in Ids
        PROVE  \/ Read(g, Prev(w), i) = Read(flash, Prev(w), i)
               \/ i \notin KeepIds /\ Read(g, Prev(w), i) = Missing
    <3>1. CASE Elsewhere(flash, w, i)
      BY <1>1, <3>1, ReadOutside DEF ErasedTo, Hidden
    <3>2. CASE /\ ~ Elsewhere(flash, w, i)
               /\ \A b \in Entries(flash[w]) : flash[w][b].id # i
      <4>1. ~ Elsewhere(g, w, i)
        BY <1>1, <3>2, ErasedElsewhere
      <4>2. \A b \in Entries(g[w]) : g[w][b].id # i
        BY <1>1, <3>2 DEF ErasedTo
      <4> QED BY <1>1, <3>2, <4>1, <4>2, ReadNowhere
    <3>3. CASE /\ ~ Elsewhere(flash, w, i)
               /\ \E b \in Entries(flash[w]) : flash[w][b].id = i
      <4>1. i \notin KeepIds
        BY <2>4, <3>3
      <4>2. ~ Elsewhere(g, w, i) /\ Entries(g[w]) = {}
        BY <1>1, <3>3, <4>1, ErasedElsewhere
      <4>3. Read(g, Prev(w), i) = Missing
        BY <1>1, <4>2, ReadNowhere
      <4> QED BY <4>1, <4>3
    <3> QED BY <3>1, <3>2, <3>3
  <2>6. Lost(g)
    BY <2>3, <2>5 DEF Lost
  <2>7. Gap(g, Prev(w))
    <3>1. Gap(flash, Prev(w))
      BY <1>1 DEF Promised, Walk
    <3>2. \A t \in Outside(w) :
            g[t] = flash[t] /\ (t \in Started(g) <=> t \in Started(flash))
      BY <1>1, ErasedStarts DEF ErasedTo
    <3> QED BY <1>1, <3>1, <3>2 DEF Gap, Outside
  <2>8. AllKept(g, Prev(w))
    <3>1. \A x \in Entries(g[w]) : x \in Entries(flash[w])
      BY <1>1 DEF ErasedTo
    <3> QED BY <1>1, <1>3, <2>4, <3>1, ErasedKept
  <2>9. Walk(g)
    <3>1. \A v \in Sector : Newest(g, v) => v = Prev(w)
      BY <1>1, <1>2, <2>2, NewestIsOne
    <3> QED BY <2>7, <2>8, <3>1 DEF Walk
  <2> QED BY <2>2, <2>6, <2>9 DEF Newest
<1>4. CASE ~ (NSectors > 1)
  <2>1. Sector = {w} /\ KeepIds = {}
    BY <1>1, <1>4, SizesAssumption DEF Sector
  <2>2. \A i \in Ids : Met(g, i) = {}
    BY <1>1, <2>1 DEF Met
  <2>3. \A i \in Ids : Rec(g)[i] = Missing
    BY <2>2, ReadNone DEF Rec
  <2>4. Lost(g)
    BY <2>1, <2>3 DEF Lost
  <2>5. Walk(g)
    <3>1. NextSector(w) = w
      BY <1>1, <2>1, NextIsSector
    <3> QED BY <2>1, <3>1 DEF Walk, Gap, AllKept
  <2> QED BY <1>0, <2>1, <2>4, <2>5
<1> QED BY <1>3, <1>4

LEMMA CopyElsewhere ==
  ASSUME NEW w \in Sector, NSectors > 1, OnlyCopies(flash, w),
         NEW x \in Entries(flash[w])
  PROVE  /\ Elsewhere(flash, w, flash[w][x].id)
         /\ NextSector(w) \in Started(flash)
<1>1. NextSector(w) \in Outside(w) /\ NextSector(w) \in Sector
  BY NextIsSector DEF Outside
<1>2. PICK a \in Entries(flash[NextSector(w)]) :
        flash[NextSector(w)][a].id = flash[w][x].id
  BY DEF OnlyCopies, IsCopy
<1>3. PICK i \in {flash[w][x].id} : TRUE
  OBVIOUS
<1>4. <<NextSector(w), a>> \in Met(flash, i)
  BY <1>1, <1>2, <1>3, MetHas
<1>5. Elsewhere(flash, w, i)
  BY <1>1, <1>4 DEF Elsewhere
<1> QED BY <1>2, <1>3, <1>5 DEF OnlyCopies

LEMMA RemountErased ==
  ASSUME RInv, Promised, at = "erase", caller = "remount",
         NEW g, ErasedTo(g, wr_sector)
  PROVE  /\ Rec(g) = Rec(flash) /\ Walk(g)
         /\ Started(g) = {} => \A s \in Sector : Entries(g[s]) = {}
<1>0. PICK w \in {wr_sector} : TRUE
  OBVIOUS
<1>1. /\ w \in Sector /\ Prev(w) \in Sector /\ RightIds(flash)
      /\ Newest(flash, w) /\ NextSector(Prev(w)) = w
      /\ ErasedTo(g, w) /\ OnlyCopies(flash, w)
      /\ NSectors > 1
  <2>1. HasCompress
    BY DEF RInv, IInv, Control
  <2> QED BY <1>0, <2>1, NowRecoverable, PrevNext, SizesAssumption
          DEF RInv, IInv, TypeOK, Ages, Promised, Restarted
<1>2. RightIds(g)
  BY <1>1, ErasedStarts
<1>3. Rec(flash) = [i \in Ids |-> Read(flash, w, i)]
  BY <1>1, RecNewest
<1>4. Gap(flash, w)
  BY <1>1 DEF Promised, Walk
<1>5. /\ \A t \in Outside(w) :
           g[t] = flash[t] /\ (t \in Started(g) <=> t \in Started(flash))
      /\ Started(g) \subseteq Started(flash)
  BY <1>1, ErasedStarts DEF ErasedTo
<1>6. \A t \in Outside(w) : t \notin Started(g) => Entries(g[t]) = {}
  <2> TAKE t \in Outside(w)
  <2>1. CASE t = NextSector(w)
    BY <1>1, <1>5, <2>1 DEF OnlyCopies
  <2>2. CASE t # NextSector(w)
    BY <1>4, <1>5, <2>2 DEF Gap, Outside
  <2> QED BY <2>1, <2>2
<1>7. CASE Started(g) = {}
  <2>1. NextSector(w) \notin Started(flash)
    BY <1>1, <1>5, <1>7, NextIsSector DEF Outside
  <2>2. Entries(flash[w]) = {}
    BY <1>1, <2>1, CopyElsewhere
  <2>3. \A s \in Sector : Entries(flash[s]) = {} /\ Entries(g[s]) = {}
    <3> TAKE s \in Sector
    <3>1. CASE s = w
      BY <1>1, <2>2, <3>1 DEF ErasedTo
    <3>2. CASE s # w
      BY <1>5, <1>6, <1>7, <3>2 DEF Outside
    <3> QED BY <3>1, <3>2
  <2>4. \A i : Met(flash, i) = {}
    BY <2>3 DEF Met
  <2>5. Rec(flash) = [i \in Ids |-> Missing]
    BY <1>3, <2>4, ReadNone
  <2> QED BY <1>7, <2>3, <2>5, RecNone, UnstartedWalk
<1>8. CASE Started(g) # {} /\ ~ IsStart(g[w])
  <2>1. Newest(g, Prev(w))
    <3>1. \A s \in Sector : s # w => g[s][0] = flash[s][0]
      BY <1>1 DEF ErasedTo, Outside
    <3>2. \A s \in Started(flash) : flash[s][0].sec_id \in SecId
      BY <1>1 DEF RightIds
    <3> QED BY <1>1, <1>8, <3>1, <3>2, NewestBack
  <2>2. Rec(g) = [i \in Ids |-> Read(g, Prev(w), i)]
    BY <1>1, <1>2, <2>1, RecNewest
  <2>3. \A i : Read(g, Prev(w), i) = Read(flash, w, i)
    BY <1>1, ReadCopied DEF ErasedTo, Hidden
  <2>4. Rec(g) = Rec(flash)
    BY <1>3, <2>2, <2>3
  <2>5. Gap(g, Prev(w))
    BY <1>1, <1>6 DEF Gap, Outside
  <2>6. AllKept(g, Prev(w))
    <3>1. \A x \in Entries(g[w]) : Elsewhere(flash, w, flash[w][x].id)
      BY <1>1, CopyElsewhere DEF ErasedTo
    <3> QED BY <1>1, <3>1, ErasedKept
  <2>7. Walk(g)
    <3>1. \A v \in Sector : Newest(g, v) => v = Prev(w)
      BY <1>1, <1>2, <2>1, NewestIsOne
    <3> QED BY <2>5, <2>6, <3>1 DEF Walk
  <2> QED BY <1>8, <2>4, <2>7
<1>9. CASE g[w][0] = flash[w][0] /\ Entries(g[w]) = {}
  <2>1. SameStarts(flash, g)
    BY <1>1, <1>9 DEF SameStarts, ErasedTo, Outside
  <2>2. Newest(g, w) /\ Started(g) = Started(flash)
    BY <1>1, <2>1, NewestSame, StartedSame
  <2>3. Rec(g) = [i \in Ids |-> Read(g, w, i)]
    BY <1>1, <1>2, <2>2, RecNewest
  <2>4. \A i : Read(g, w, i) = Read(flash, w, i)
    BY <1>1, <1>9, ReadCopied DEF ErasedTo, Hidden
  <2>5. Rec(g) = Rec(flash)
    BY <1>3, <2>3, <2>4
  <2>6. Gap(g, w) /\ OnlyCopies(g, w)
    <3>1. NextSector(w) \in Outside(w)
      BY <1>1, NextIsSector DEF Outside
    <3>2. w \in Started(g)
      BY <2>2 DEF Newest
    <3>3. Gap(g, w)
      BY <1>6, <3>2 DEF Gap, Outside
    <3>4. NextSector(w) \in Started(g) \/ Entries(g[NextSector(w)]) = {}
      BY <1>6, <3>1
    <3> QED BY <1>9, <3>3, <3>4 DEF OnlyCopies
  <2>7. Walk(g)
    <3>1. \A v \in Sector : Newest(g, v) => v = w
      BY <1>1, <1>2, <2>2, NewestIsOne
    <3> QED BY <2>6, <3>1 DEF Walk
  <2>8. Started(g) # {}
    BY <2>2 DEF Newest
  <2> QED BY <2>5, <2>7, <2>8
<1> QED BY <1>1, <1>7, <1>8, <1>9 DEF ErasedTo

LEMMA EraseStore ==
  ASSUME HasCompress \/ KeepIds = {}, RInv, Promised, Erase
  PROVE  Promised' /\ StoreStep
<1>1. /\ at = "erase" /\ at' = "start" /\ UNCHANGED req
      /\ flash' = [flash EXCEPT ![wr_sector] = BlankSector]
  BY DEF Erase
<1>2. wr_sector \in Sector /\ flash \in [Sector -> [Block -> Cell]]
  BY DEF RInv, IInv, TypeOK
<1>3. PICK g \in {flash'} : TRUE
  OBVIOUS
<1>4. /\ g[wr_sector] = BlankSector
      /\ \A s \in Outside(wr_sector) : g[s] = flash[s]
  BY <1>1, <1>2, <1>3 DEF Outside
<1>5. ErasedTo(g, wr_sector) /\ Entries(g[wr_sector]) = {}
  <2>1. ~ IsStart(BlankSector)
    BY SizesAssumption DEF IsStart, BlankSector, Block, Blank
  <2> QED BY <1>4, <2>1, BlankSound DEF ErasedTo
<1>6. \/ caller = "open"
      \/ caller = "remount"
  BY <1>1 DEF Promised, Restarted
<1>7. CASE caller = "open"
  <2>1. /\ Lost(g) /\ Walk(g)
        /\ Started(g) = {} => \A s \in Sector : Entries(g[s]) = {}
    BY <1>1, <1>5, <1>7, OpenErased
  <2>2. PICK ids \in SUBSET (Ids \ KeepIds) :
          Rec(g) = [i \in Ids |-> IF i \in ids THEN Missing ELSE Rec(flash)[i]]
    BY <2>1, LostIds
  <2>3. StoreStep
    BY <1>1, <1>3, <2>2, Forgets
  <2>4. Promised'
    BY <1>1, <1>3, <2>1
       DEF Promised, Restarted, Emptied, Copying, Writing, NoWrite
  <2> QED BY <2>3, <2>4
<1>8. CASE caller = "remount"
  <2>1. /\ Rec(g) = Rec(flash) /\ Walk(g)
        /\ Started(g) = {} => \A s \in Sector : Entries(g[s]) = {}
    BY <1>1, <1>5, <1>8, RemountErased
  <2>2. StoreStep
    BY <1>1, <1>3, <2>1, Quiet
  <2>3. Promised'
    BY <1>1, <1>3, <2>1
       DEF Promised, Restarted, Emptied, Copying, Writing, NoWrite
  <2> QED BY <2>2, <2>3
<1> QED BY <1>6, <1>7, <1>8

LEMMA InitSectorStore ==
  ASSUME RInv, RInv', Promised, InitSector
  PROVE  Promised' /\ StoreStep
<1>1. /\ at = "start" /\ at' \in {"compress", "retry"}
      /\ wr_sector' = wr_sector /\ UNCHANGED req
      /\ Program(wr_sector, 0, StartOf(wr_sector_id))
  BY DEF InitSector
<1>2. /\ wr_sector \in Sector /\ flash[wr_sector] = BlankSector
      /\ StartOf(wr_sector_id) \in Cell /\ IInv
  BY <1>1 DEF RInv, IInv, Control, TypeOK, StartOf, Cell, StartCell
<1>3. PICK g \in {flash'}, w \in {wr_sector} : TRUE
  OBVIOUS
<1>4. /\ SameEntries(flash, g) /\ w \in Sector
      /\ \A s \in Outside(w) : g[s] = flash[s]
      /\ Entries(g[w]) = {} /\ Entries(flash[w]) = {}
  BY <1>1, <1>2, <1>3, StartSame, BlankSound
<1>5. Newest(g, w)
  BY <1>1, <1>3 DEF RInv, Ages, Mounted, Follows
<1>6. RightIds(flash) /\ RightIds(g)
  <2>1. RightIds(flash)
    BY NowRecoverable
  <2>2. g[w][0] = StartOf(wr_sector_id) /\ wr_sector_id \in SecId
    BY <1>1, <1>2, <1>3, StartSame DEF IInv, TypeOK
  <2>3. \A s \in Sector : s # w => g[s] = flash[s]
    BY <1>4 DEF Outside
  <2>4. g[w][0].sec_id \in SecId
    BY <2>2 DEF StartOf
  <2> QED BY <2>1, <2>3, <2>4 DEF RightIds, Started
<1>7. Rec(g) = [i \in Ids |-> Read(g, w, i)]
  BY <1>4, <1>5, <1>6, RecNewest
<1>8. \A v \in Sector : Newest(g, v) => v = w
  BY <1>4, <1>5, <1>6, NewestIsOne
<1>9. CASE Started(flash) = {}
  <2>1. \A s \in Sector : Entries(g[s]) = {}
    BY <1>1, <1>4, <1>9 DEF Promised, Emptied, SameEntries, SameSector
  <2>2. \A i : Met(g, i) = {}
    BY <2>1 DEF Met
  <2>3. Rec(g) = Rec(flash)
    BY <1>7, <1>9, <2>2, ReadNone, RecNone
  <2>4. Walk(g)
    BY <2>1, <1>8, NextIsSector DEF Walk, Gap, AllKept
  <2> QED BY <1>1, <1>3, <2>3, <2>4, Quiet, ElsewherePromised
<1>10. CASE Newest(flash, Prev(w))
  <2>1. Prev(w) \in Sector /\ NextSector(Prev(w)) = w /\ NextSector(w) \in Sector
    BY <1>4, PrevNext
  <2>2. Rec(flash) = [i \in Ids |-> Read(flash, Prev(w), i)]
    BY <1>6, <1>10, <2>1, RecNewest
  <2>3. ASSUME NEW i \in Ids PROVE Read(g, w, i) = Read(flash, Prev(w), i)
    <3>1. Read(g, w, i) = Read(flash, w, i)
      BY <1>4, ReadSame
    <3>2. CASE Elsewhere(flash, w, i)
      BY <1>4, <3>1, <3>2, ReadOutside DEF Hidden
    <3>3. CASE ~ Elsewhere(flash, w, i)
      BY <1>4, <3>1, <3>3, ReadNowhere
    <3> QED BY <3>2, <3>3
  <2>4. Rec(g) = Rec(flash)
    BY <1>7, <2>2, <2>3
  <2>5. Gap(flash, Prev(w))
    BY <1>10, <2>1 DEF Promised, Walk
  <2>6. \A t \in Sector : t \notin Started(g) => Entries(g[t]) = {}
    <3> TAKE t \in Sector
    <3>1. CASE t = w
      BY <1>4, <3>1
    <3>2. CASE t # w
      BY <1>4, <2>1, <2>5, <3>2 DEF Gap, Outside, Started
    <3> QED BY <3>1, <3>2
  <2>7. Gap(g, w) /\ OnlyCopies(g, w)
    BY <1>4, <2>1, <2>6 DEF Gap, OnlyCopies
  <2>8. Walk(g)
    BY <1>8, <2>7 DEF Walk
  <2> QED BY <1>1, <1>3, <2>4, <2>8, Quiet, ElsewherePromised
<1> QED
  <2>1. Started(flash) = {} \/ Newest(flash, Prev(wr_sector))
    BY <1>1 DEF RInv, Ages, Follows
  <2> QED BY <1>3, <1>9, <1>10, <2>1

(* Power fails while a block is programmed.                                *)
LEMMA TornSame ==
  ASSUME IInv, Programming, NEW x \in TornCell,
         Program(Target[1], Target[2], x)
  PROVE  SameEntries(flash, flash') /\ SameStarts(flash, flash')
<1>1. ASSUME NEW s \in Sector, flash[s] = BlankSector, Program(s, 0, x)
      PROVE  SameEntries(flash, flash') /\ SameStarts(flash, flash')
  <2>1. /\ SameEntries(flash, flash') /\ flash'[s][0] = x
        /\ \A t \in Outside(s) : flash'[t] = flash[t]
    BY <1>1, StartSame, TornKind, BlankKind
  <2>2. ~ IsStart(flash[s]) /\ ~ IsStart(flash'[s])
    BY <1>1, <2>1, TornKind, SizesAssumption DEF IsStart, BlankSector, Block, Blank
  <2> QED BY <2>1, <2>2 DEF SameStarts, Outside
<1>2. CASE at = "start"
  <2>1. Target[1] = wr_sector /\ Target[2] = 0
    BY <1>2 DEF Target
  <2>2. flash[wr_sector] = BlankSector /\ wr_sector \in Sector
    BY <1>2 DEF IInv, Control, TypeOK
  <2> QED BY <1>1, <2>1, <2>2
<1>3. CASE at = "format"
  <2>1. Target[1] = 0 /\ Target[2] = 0 /\ cur = NSectors
    BY <1>3 DEF Target, Programming
  <2>2. flash[0] = BlankSector /\ 0 \in Sector
    BY <1>3, <2>1, SizesAssumption DEF IInv, Control, Sector
  <2> QED BY <1>1, <2>1, <2>2
<1>4. CASE at \in {"copy", "write"}
  <2>1. PICK n \in {IF at = "copy" THEN Source.len ELSE req.len} : TRUE
    OBVIOUS
  <2>2. n \in Nat /\ pos \in Nat /\ pos <= n /\ Fits(n)
    BY <1>4, <2>1, SourceFacts, WriteFacts, SizesAssumption DEF IInv, TypeOK
  <2>3. CASE pos < n
    <3>1. Target = <<wr_sector, wr_data_offset + pos>>
      BY <1>4, <2>1, <2>3 DEF Target
    <3>2. Program(wr_sector, wr_data_offset + pos, x)
      BY <3>1
    <3> QED BY <1>4, <2>2, <2>3, <3>2, BlockSame, TornKind, BlankKind
  <2>4. CASE pos = n
    <3>1. Target = <<wr_sector, wr_ate_offset>>
      BY <1>4, <2>1, <2>2, <2>4 DEF Target
    <3>2. Program(wr_sector, wr_ate_offset, x)
      BY <3>1
    <3> QED BY <1>4, <2>2, <2>4, <3>2, TornAteSame
  <2> QED BY <2>2, <2>3, <2>4
<1> QED BY <1>2, <1>3, <1>4 DEF Programming

(* The erase of sector w, cut off, has blanked the blocks p.               *)
LEMMA CutErase ==
  ASSUME IInv, NEW p, NEW g, NEW w \in Sector,
         g = [flash EXCEPT ![w] = Erased(@, p)],
         SectorSize - 1 \in p \/ 0 \in p
  PROVE  /\ ErasedTo(g, w)
         /\ SectorSize - 1 \in p => Entries(g[w]) = {}
<1>1. flash[w] \in [Block -> Cell] /\ flash \in [Sector -> [Block -> Cell]]
  BY DEF IInv, TypeOK
<1>2. g[w] = Erased(flash[w], p) /\ \A s \in Outside(w) : g[s] = flash[s]
  BY <1>1 DEF Outside
<1>3. /\ \A b \in Entries(g[w]) : b \in Entries(flash[w]) /\ g[w][b] = flash[w][b]
      /\ SectorSize - 1 \in p => Entries(g[w]) = {}
      /\ g[w][0] = IF 0 \in p THEN Blank ELSE flash[w][0]
  BY <1>1, <1>2, ErasedEntries
<1>4. \/ ~ IsStart(g[w])
      \/ g[w][0] = flash[w][0] /\ Entries(g[w]) = {}
  <2>1. CASE 0 \in p
    BY <1>3, <2>1 DEF IsStart, Blank
  <2>2. CASE 0 \notin p
    BY <1>3, <2>2
  <2> QED BY <2>1, <2>2
<1> QED BY <1>2, <1>3, <1>4 DEF ErasedTo

LEMMA PowerLossStore ==
  ASSUME HasCompress \/ KeepIds = {},
         \A p \in PartialErases :
           SectorSize - 1 \in p \/ (0 \in p /\ KeepIds = Ids),
         RInv, Promised, PowerLoss
  PROVE  Promised' /\ StoreStep
<1>1. at' = "down" /\ req' = NoReq
  BY DEF PowerLoss, Down, Rest
<1>2. IInv
  BY DEF RInv
<1>3. CASE UNCHANGED flash
  <2>1. Walk(flash')
    BY <1>3 DEF Promised
  <2> QED BY <1>1, <1>3, <2>1, FailsSame, SameFlash, ElsewherePromised
<1>4. ASSUME Programming, NEW x \in TornCell, Program(Target[1], Target[2], x)
      PROVE  Promised' /\ StoreStep
  BY <1>1, <1>2, <1>4, TornSame, SameStore, FailsSame, ElsewherePromised
<1>5. ASSUME NEW p \in PartialErases, at = "erase",
             flash' = [flash EXCEPT ![wr_sector] = Erased(@, p)]
      PROVE  Promised' /\ StoreStep
  <2>1. PICK g \in {flash'} : TRUE
    OBVIOUS
  <2>2. wr_sector \in Sector
    BY <1>2 DEF IInv, TypeOK
  <2>3. /\ ErasedTo(g, wr_sector)
        /\ Entries(g[wr_sector]) = {} \/ KeepIds = Ids
    BY <1>2, <1>5, <2>1, <2>2, CutErase
  <2>4. caller = "open" \/ caller = "remount"
    BY <1>5 DEF Promised, Restarted
  <2>5. CASE caller = "open"
    <3>1. Lost(g) /\ Walk(g)
      BY <1>5, <2>3, <2>5, OpenErased
    <3>2. PICK ids \in SUBSET (Ids \ KeepIds) :
            Rec(g) = [i \in Ids |-> IF i \in ids THEN Missing ELSE Rec(flash)[i]]
      BY <3>1, LostIds
    <3> QED BY <1>1, <2>1, <3>1, <3>2, Fails, ElsewherePromised
  <2>6. CASE caller = "remount"
    <3>1. Rec(g) = Rec(flash) /\ Walk(g)
      BY <1>5, <2>3, <2>6, RemountErased
    <3> QED BY <1>1, <2>1, <3>1, FailsSame, ElsewherePromised
  <2> QED BY <2>4, <2>5, <2>6
<1>6. ASSUME NEW p \in PartialErases, NEW s \in Sector, at = "format",
             flash' = [flash EXCEPT ![s] = Erased(@, p)]
      PROVE  Promised' /\ StoreStep
  <2>1. Started(flash) = {}
    BY <1>6 DEF RInv, Ages
  <2>2. flash[s] \in [Block -> Cell] /\ flash \in [Sector -> [Block -> Cell]]
    BY <1>2 DEF IInv, TypeOK
  <2>3. \A t \in Sector : flash'[t][0] = flash[t][0] \/ flash'[t][0] = Blank
    BY <1>6, <2>2, SizesAssumption DEF Erased, Block
  <2>4. Started(flash') = {}
    BY <2>1, <2>3 DEF Started, Blank
  <2>5. Rec(flash') = Rec(flash)
    BY <2>1, <2>4, RecNone
  <2>6. Walk(flash')
    BY <2>4, UnstartedWalk
  <2> QED BY <1>1, <2>5, <2>6, FailsSame, ElsewherePromised
<1> QED BY <1>3, <1>4, <1>5, <1>6 DEF PowerLoss, ProgramTorn

LEMMA InitPromised == Init => Promised
<1> SUFFICES ASSUME Init PROVE Promised
  OBVIOUS
<1>1. at = "down" /\ req = NoReq /\ flash = [s \in Sector |-> BlankSector]
  BY DEF Init
<1>2. Started(flash) = {}
  <2>1. 0 \in Block
    BY SizesAssumption DEF Block
  <2> QED BY <1>1, <2>1 DEF Started, BlankSector, Blank
<1>3. Walk(flash)
  BY <1>2, UnstartedWalk
<1> QED BY <1>1, <1>3 DEF Promised, Restarted, Emptied, Copying, Writing, NoWrite

(* An erase that is cut off leaves no entry with half of its data: it has  *)
(* blanked the last slot, where every walk down the sector begins, or, if  *)
(* compress keeps everything, the sector start at least.                   *)
ErasesEnds ==
  \A p \in PartialErases : SectorSize - 1 \in p \/ (0 \in p /\ KeepIds = Ids)

LEMMA StepStore ==
  ASSUME IoErrors = {}, AnyFormat = FALSE, HasCompress \/ KeepIds = {},
         ErasesEnds, RInv, RInv', FormatInv, Promised, [Next]_vars
  PROVE  Promised' /\ StoreStep
<1>0. IInv
  BY DEF RInv
<1>1. CASE UNCHANGED vars
  <2>1. UNCHANGED <<flash, at, caller, wr_sector, wr_data_offset, req, cur, pos>>
    BY <1>1 DEF vars, ram
  <2>2. Promised'
    BY <2>1 DEF Promised, Restarted, Emptied, Copying, Writing, NoWrite, Source
  <2> QED BY <2>1, <2>2, Quiet, SameFlash
<1>2. CASE Mount \/ Unmount \/ FormatCall
  BY <1>2, MountStore, UnmountStore, FormatCallStore
<1>3. ASSUME NEW r \in Request, Open(r) PROVE Promised' /\ StoreStep
  BY <1>0, <1>3, OpenStore
<1>4. CASE FormatSector \/ FormatDone
  BY <1>4, FormatSectorStore, FormatDoneStore
<1>5. CASE Erase \/ InitSector
  BY <1>5, EraseStore, InitSectorStore
<1>6. CASE Retry \/ CompressDone \/ CompressNext
  BY <1>0, <1>6, RetryStore, CompressDoneStore, CompressNextStore
<1>7. CASE CopyBlock \/ CopyClose
  BY <1>7, CopyBlockStore, CopyCloseStore
<1>8. CASE WriteBlock \/ Close
  BY <1>8, WriteBlockStore, CloseStore
<1>9. CASE PowerLoss
  BY <1>9, PowerLossStore DEF ErasesEnds
<1>10. CASE FlashError
  BY <1>10 DEF FlashError
<1> QED
  BY <1>1, <1>2, <1>3, <1>4, <1>5, <1>6, <1>7, <1>8, <1>9, <1>10
     DEF Next, Client, Step

-----------------------------------------------------------------------------
(* The refinement: to whoever reads the variables after a power failure,   *)
(* at whatever moment it came, a write has happened altogether when        *)
(* sfcb_close_loc has written its ATE and not at all before; erasing a     *)
(* sector never brings an older content back, and takes away nothing the   *)
(* compress routine keeps.                                                 *)
THEOREM ImplementsKeyStore ==
  ASSUME IoErrors = {}, AnyFormat = FALSE, CrcLast,
         HasCompress \/ KeepIds = {}, ErasesEnds
  PROVE  Spec => PowerFailSafe
<1>0. RInv' => Recoverable(flash') /\ RightIds(flash')
  <2>1. RInv => Leads
    BY NowRecoverable DEF Leads
  <2>2. RInv' => Leads'
    BY <2>1, PTL
  <2> QED BY <2>2 DEF Leads
<1>1. Init => SInv
  BY InitRInv, InitFormat, InitPromised DEF SInv
<1>2. SInv /\ [Next]_vars => SInv' /\ [Store!Next]_(Store!vars)
  <2> SUFFICES ASSUME RInv, FormatInv, Promised, [Next]_vars
               PROVE  /\ RInv' /\ FormatInv' /\ Promised'
                      /\ [Store!Next]_(Store!vars)
    BY DEF SInv
  <2>1. RInv'
    BY StepRInv
  <2>2. FormatInv'
    BY StepFormat
  <2>3. Promised' /\ StoreStep
    BY <2>1, StepStore
  <2>4. RecStore!Next \/ UNCHANGED RecStore!vars
    BY <2>3 DEF StoreStep
  <2>5. Recovered = Rec(flash)
    <3>1. Found(flash) = Rec(flash)
      BY FoundIs, NowRecoverable DEF RInv, IInv, TypeOK
    <3> QED BY <3>1 DEF Found, Recovered
  <2>6. Recovered' = Rec(flash')
    <3>1. Recoverable(flash') /\ RightIds(flash')
      BY <1>0, <2>1
    <3>2. flash' \in [Sector -> [Block -> Cell]]
      BY <2>1 DEF RInv, IInv, TypeOK
    <3>3. Found(flash') = Rec(flash')
      BY <3>1, <3>2, FoundIs
    <3> QED BY <3>3 DEF Found, Recovered
  <2>7. [Store!Next]_(Store!vars)
    BY <2>4, <2>5, <2>6
       DEF Store!Next, Store!Begin, Store!Commit, Store!Abort, Store!Forget,
           Store!Without, Store!vars, RecStore!Next, RecStore!Begin,
           RecStore!Commit, RecStore!Abort, RecStore!Forget, RecStore!Without,
           RecStore!vars
  <2> QED BY <2>1, <2>2, <2>3, <2>7
<1>3. Init => Store!Init
  <2> SUFFICES ASSUME Init PROVE Store!Init
    OBVIOUS
  <2>1. Started(flash) = {} /\ req = NoReq
    <3>1. 0 \in Block
      BY SizesAssumption DEF Block
    <3> QED BY <3>1 DEF Init, Started, BlankSector, Blank
  <2>2. Recovered = [i \in Ids |-> Missing]
    BY <2>1 DEF Recovered, Mountable
  <2> QED BY <2>1, <2>2 DEF Store!Init, Pending
<1> QED BY <1>1, <1>2, <1>3, PTL DEF Spec, PowerFailSafe, Store!Spec
-----------------------------------------------------------------------------
(* The flash stays mountable.                                              *)

(* A start of the write sector that sfcb_fs_init does anew is preceded by  *)
(* a compress that met an entry to keep in the next sector.                *)
BackedUp ==
  at = "erase" /\ caller = "remount" => NextSector(wr_sector) \in Started(flash)

LEMMA StepBacked ==
  ASSUME IoErrors = {}, RInv, Promised, BackedUp, [Next]_vars
  PROVE  BackedUp'
<1>1. CASE UNCHANGED vars
  BY <1>1 DEF vars, ram, BackedUp
<1>2. CASE at' = "erase" => caller' = "open"
  BY <1>2 DEF BackedUp
<1>3. CASE CompressNext
  <2> SUFFICES ASSUME at' = "erase", caller' = "remount"
               PROVE  NextSector(wr_sector') \in Started(flash')
    BY DEF BackedUp
  <2> DEFINE cs == NextSector(wr_sector)
  <2>1. at = "compress" /\ UNCHANGED flash /\ wr_sector \in Sector
    BY <1>3 DEF CompressNext, RInv, IInv, TypeOK
  <2>2. PICK e \in ToCopy(cur) :
          IF Fits(flash[cs][e].len)
            THEN at' = "copy" ELSE CompressReturns(FALSE)
    BY <1>3 DEF CompressNext
  <2>3. /\ e \in Entries(flash[cs]) /\ flash[cs][e].id \in KeepIds
        /\ ~ LaterEntry(flash, wr_sector, cs, e, flash[cs][e].id)
    BY <2>2 DEF ToCopy
  <2>4. OnlyCopies(flash, wr_sector)
    <3>1. Newest(flash, wr_sector)
      BY <2>1 DEF RInv, Ages, Mounted, Follows
    <3>2. ~ AllKept(flash, wr_sector)
      BY <2>3 DEF AllKept
    <3> QED BY <2>1, <3>1, <3>2 DEF Promised, Walk
  <2>5. cs \in Started(flash)
    BY <2>3, <2>4 DEF OnlyCopies
  <2>6. wr_sector' = wr_sector
    BY <2>2 DEF CompressReturns, Idle, Down, Rest
  <2> QED BY <2>1, <2>5, <2>6
<1>4. CASE Client \/ PowerLoss
  <2>1. at' = "erase" => caller' = "open"
    BY <1>4 DEF Client, Mount, Unmount, FormatCall, Open, GoNewSector,
                PowerLoss, Down, Rest
  <2> QED BY <1>2, <2>1
<1>5. CASE FormatSector \/ FormatDone \/ Erase \/ InitSector
  <2>1. at' # "erase"
    BY <1>5 DEF FormatSector, FormatDone, Erase, InitSector, Down, Rest
  <2> QED BY <1>2, <2>1
<1>6. CASE Retry \/ CopyBlock \/ CopyClose \/ WriteBlock \/ Close
  <2>1. at' = "erase" => caller' = "open"
    BY <1>6 DEF Retry, GoNewSector, CopyBlock, CopyClose, WriteBlock, Close,
                Idle, Rest
  <2> QED BY <1>2, <2>1
<1>7. CASE CompressDone
  <2>1. at' = "erase" => caller' = "open"
    BY <1>7 DEF CompressDone, CompressReturns, Idle, Rest
  <2> QED BY <1>2, <2>1
<1>8. CASE FlashError
  BY <1>8 DEF FlashError
<1> QED BY <1>1, <1>3, <1>4, <1>5, <1>6, <1>7, <1>8 DEF Next, Step

(* The sector that is erased is not the only one with a start.             *)
LEMMA OtherStarted ==
  ASSUME NSectors > 1, RInv, Promised, BackedUp, at = "erase"
  PROVE  \E s \in Outside(wr_sector) : IsStart(flash[s])
<1>1. wr_sector \in Sector
  BY DEF RInv, IInv, TypeOK
<1>2. CASE caller # "remount"
  <2>1. Prev(wr_sector) \in Started(flash)
    BY <1>2 DEF RInv, Ages, Follows, Newest
  <2>2. Prev(wr_sector) # wr_sector
    BY <1>1, SizesAssumption DEF Prev, Sector
  <2> QED BY <2>1, <2>2 DEF Started, IsStart, Outside
<1>3. CASE caller = "remount"
  <2>1. NextSector(wr_sector) \in Started(flash)
    BY <1>3 DEF BackedUp
  <2>2. NextSector(wr_sector) # wr_sector
    BY <1>1, SizesAssumption DEF NextSector, Sector
  <2> QED BY <2>1, <2>2 DEF Started, IsStart, Outside
<1> QED BY <1>2, <1>3

LEMMA StaysStarted ==
  ASSUME NSectors > 1, IoErrors = {}, RInv, RInv', Promised, BackedUp,
         [Next]_vars, FormatDone \/ Started(flash) # {}
  PROVE  Started(flash') # {}
<1>1. CASE at' \notin {"down", "format", "start"}
  <2>1. Mounted' \/ at' = "erase"
    BY <1>1 DEF RInv, IInv, TypeOK, Mounted
  <2>2. \E w : Newest(flash', w)
    BY <2>1 DEF RInv, Ages, Follows
  <2> QED BY <2>2 DEF Newest
<1>2. CASE UNCHANGED flash /\ ~ FormatDone
  BY <1>2
<1>3. CASE FormatDone
  <2>1. Program(0, 0, StartOf(0)) /\ flash[0] = BlankSector /\ 0 \in Sector
    BY <1>3, SizesAssumption DEF FormatDone, RInv, IInv, Control, Sector
  <2>2. flash'[0][0] = StartOf(0)
    <3>1. flash[0][0] = Blank /\ 0 \in Block
      BY <2>1, SizesAssumption DEF BlankSector, Block
    <3>2. flash' = [flash EXCEPT ![0] = [flash[0] EXCEPT ![0] = StartOf(0)]]
      BY <2>1, <3>1, ProgramBlank
    <3> QED BY <2>1, <3>1, <3>2 DEF RInv, IInv, TypeOK
  <2> QED BY <2>1, <2>2 DEF Started, StartOf
<1>4. CASE FormatSector
  <2>1. at = "format" /\ cur # NSectors /\ cur \in Int
    BY <1>4, SizesAssumption DEF FormatSector, RInv, IInv, TypeOK
  <2>2. ~ FormatDone /\ Started(flash) = {}
    BY <2>1 DEF FormatDone, RInv, Ages
  <2> QED BY <2>2
<1>5. ASSUME at = "erase", NEW g, g = flash',
             \A s \in Outside(wr_sector) : g[s] = flash[s]
      PROVE  Started(flash') # {}
  <2>1. PICK s \in Outside(wr_sector) : IsStart(flash[s])
    BY <1>5, OtherStarted
  <2>2. s \in Started(g)
    BY <1>5, <2>1 DEF Started, IsStart, Outside
  <2> QED BY <1>5, <2>2
<1>6. CASE Erase
  <2>1. PICK g \in {flash'} : TRUE
    OBVIOUS
  <2>2. at = "erase" /\ \A s \in Outside(wr_sector) : g[s] = flash[s]
    BY <1>6, <2>1 DEF Erase, Outside, RInv, IInv, TypeOK
  <2> QED BY <1>5, <2>1, <2>2
<1>7. CASE PowerLoss
  <2>1. CASE UNCHANGED flash
    BY <1>2, <1>3, <2>1
  <2>2. ASSUME Programming, NEW x \in TornCell, Program(Target[1], Target[2], x)
        PROVE  Started(flash') # {}
    <3>1. SameStarts(flash, flash')
      BY <2>2, TornSame DEF RInv
    <3> QED BY <1>3, <3>1, StartedSame
  <2>3. ASSUME NEW p \in PartialErases, at = "erase",
               flash' = [flash EXCEPT ![wr_sector] = Erased(@, p)]
        PROVE  Started(flash') # {}
    <3>1. PICK g \in {flash'} : TRUE
      OBVIOUS
    <3>2. \A s \in Outside(wr_sector) : g[s] = flash[s]
      BY <2>3, <3>1 DEF Outside, RInv, IInv, TypeOK
    <3> QED BY <1>5, <2>3, <3>1, <3>2
  <2>4. CASE at = "format" /\ ~ FormatDone
    BY <2>4 DEF RInv, Ages
  <2> QED BY <1>3, <1>7, <2>1, <2>2, <2>3, <2>4 DEF PowerLoss, ProgramTorn
<1>8. CASE /\ ~ FormatDone
           /\ \/ Mount \/ Unmount \/ FormatCall
              \/ Retry \/ CompressDone \/ CompressNext
  BY <1>2, <1>8 DEF Mount, Unmount, FormatCall, Retry, CompressDone, CompressNext
<1>9. CASE \/ \E r \in Request : Open(r)
           \/ InitSector \/ CopyBlock \/ CopyClose \/ WriteBlock \/ Close
  <2>1. at' \notin {"down", "format", "start"}
    BY <1>9 DEF Open, GoNewSector, InitSector, CopyBlock, CopyClose,
                WriteBlock, Close, Rest
  <2> QED BY <1>1, <2>1
<1>10. CASE UNCHANGED vars
  BY <1>2, <1>3, <1>10 DEF vars
<1>11. CASE FlashError
  BY <1>11 DEF FlashError
<1> QED BY <1>3, <1>4, <1>6, <1>7, <1>8, <1>9, <1>10, <1>11
     DEF Next, Client, Step

(* The client never has to format what it stored: a file system that can   *)
(* be mounted can be mounted after every step and every power failure, as  *)
(* long as the CRC byte of a block is the last of it to be programmed, the *)
(* flash driver reports no error and there is a second sector.             *)
THEOREM MountsForEver ==
  ASSUME NSectors > 1, IoErrors = {}, AnyFormat = FALSE, CrcLast,
         HasCompress \/ KeepIds = {}, ErasesEnds
  PROVE  Spec => StaysMountable
<1> DEFINE KInv == SInv /\ BackedUp
<1>0. RInv' => Recoverable(flash') /\ RightIds(flash')
  <2>1. RInv => Leads
    BY NowRecoverable DEF Leads
  <2>2. RInv' => Leads'
    BY <2>1, PTL
  <2> QED BY <2>2 DEF Leads
<1>1. Init => KInv
  BY InitRInv, InitFormat, InitPromised DEF SInv, BackedUp, Init
<1>2. KInv /\ [Next]_vars
        => KInv' /\ [FormatDone \/ Mountable(flash) => Mountable(flash')]_vars
  <2> SUFFICES ASSUME RInv, FormatInv, Promised, BackedUp, [Next]_vars
               PROVE  /\ RInv' /\ FormatInv' /\ Promised' /\ BackedUp'
                      /\ FormatDone \/ Mountable(flash) => Mountable(flash')
    BY DEF SInv
  <2>1. RInv'
    BY StepRInv
  <2>2. FormatInv' /\ Promised' /\ BackedUp'
    BY <2>1, StepFormat, StepStore, StepBacked
  <2>3. ASSUME FormatDone \/ Mountable(flash) PROVE Mountable(flash')
    <3>1. FormatDone \/ Started(flash) # {}
      BY <2>3 DEF Mountable
    <3>2. Started(flash') # {}
      BY <2>1, <3>1, StaysStarted
    <3>3. Recoverable(flash') /\ RightIds(flash')
      BY <1>0, <2>1
    <3>4. flash' \in [Sector -> [Block -> Cell]]
      BY <2>1 DEF RInv, IInv, TypeOK
    <3> QED BY <3>2, <3>3, <3>4, FlashMountable
  <2> QED BY <2>1, <2>2, <2>3
<1> QED BY <1>1, <1>2, PTL DEF Spec, StaysMountable
=============================================================================
