------------------------- MODULE SettingsSfcbProofs -------------------------
(***************************************************************************)
(* Proofs about the settings backend, for every number of sectors and of   *)
(* locations in a sector, and every set of names and values.               *)
(*                                                                         *)
(* A flash area is here a function r from sectors to sequences of entries  *)
(* and w the newest sector; in the order of a walk, the last entry  *)
(* of a name is its value.                                                 *)
(***************************************************************************)
EXTENDS SettingsSfcb, TLAPS, WellFoundedInduction

Area  == [Sector -> UNION {[1..k -> Entry] : k \in 0..PerSector}]

Found(r) ==
  {e \in Sector \X (1..PerSector) :
     e[2] <= Len(r[e[1]]) /\ r[e[1]][e[2]] # Unreadable}

Named(r, n) == {e \in Found(r) : r[e[1]][e[2]].name = n}

IsLast(r, w, n, e) ==
  e \in Named(r, n) /\ \A d \in Named(r, n) : ~ Later(w, e, d)

StoredIn(r, w, n) ==
  LET named == Named(r, n)
      last  == CHOOSE e \in named : \A d \in named : ~ Later(w, e, d)
  IN  IF named = {} THEN Missing ELSE r[last[1]][last[2]].content

LEMMA StoredAs ==
  ASSUME NEW n
  PROVE  /\ Stored(n) = StoredIn(ring, newest, n)
         /\ Readable = Found(ring)
<1>1. Readable = Found(ring)
  BY DEF Readable, Found, EntryAt
<1>2. Stored(n) = StoredIn(ring, newest, n)
  BY DEF Stored, StoredIn, Readable, NameOf, EntryAt, Named, Found
<1> QED BY <1>1, <1>2

-----------------------------------------------------------------------------
(* Sectors and their order.                                                *)

LEMMA Modulo ==
  ASSUME NEW M \in Nat \ {0}, NEW n \in 0..M - 1
  PROVE  n % M = n /\ (n + M) % M = n /\ (n - M) % M = n
  OBVIOUS

LEMMA AgeIs ==
  ASSUME NEW w \in Sector, NEW s \in Sector
  PROVE  /\ Age(w, s) = IF s > w THEN s - w - 1 ELSE (s - w - 1) + NSectors
         /\ Age(w, s) \in 0..NSectors - 1
<1>1. /\ NSectors \in Nat \ {0} /\ w \in Int /\ s \in Int
      /\ 0 <= w /\ w < NSectors /\ 0 <= s /\ s < NSectors
  BY SettingsAssumption DEF Sector
<1> DEFINE m == IF s > w THEN s - w - 1 ELSE (s - w - 1) + NSectors
<1>2. m \in 0..NSectors - 1
  BY <1>1
<1>3. s - w - 1 = m \/ s - w - 1 = m - NSectors
  BY <1>1
<1> HIDE DEF m
<1>4. m % NSectors = m /\ (m - NSectors) % NSectors = m
  BY <1>1, <1>2, Modulo
<1>5. (s - w - 1) % NSectors = m
  BY <1>3, <1>4
<1> QED BY <1>2, <1>5 DEF Age, m

LEMMA NextIs ==
  ASSUME NEW s \in Sector
  PROVE  /\ NextSector(s) = IF s + 1 = NSectors THEN 0 ELSE s + 1
         /\ NextSector(s) \in Sector /\ NextSector(s) # s
<1>1. /\ NSectors \in Nat \ {0} /\ NSectors > 1
      /\ s \in Int /\ 0 <= s /\ s < NSectors
  BY SettingsAssumption DEF Sector
<1> DEFINE m == IF s + 1 = NSectors THEN 0 ELSE s + 1
<1>2. m \in 0..NSectors - 1 /\ (s + 1 = m \/ s + 1 = m + NSectors)
  BY <1>1
<1> HIDE DEF m
<1>3. m % NSectors = m /\ (m + NSectors) % NSectors = m
  BY <1>1, <1>2, Modulo
<1>4. (s + 1) % NSectors = m
  BY <1>2, <1>3
<1> QED BY <1>1, <1>2, <1>4 DEF NextSector, Sector, m

LEMMA AgeOrder ==
  ASSUME NEW w \in Sector, NEW s \in Sector
  PROVE  /\ Age(w, w) = NSectors - 1
         /\ Age(w, NextSector(w)) = 0
         /\ s # w => Age(w, NextSector(s)) = Age(w, s) + 1
         /\ s # NextSector(w) => Age(NextSector(w), s) = Age(w, s) - 1
         /\ \A t \in Sector : Age(w, s) = Age(w, t) => s = t
<1>1. \A v, t \in Sector :
        /\ Age(v, t) = IF t > v THEN t - v - 1 ELSE (t - v - 1) + NSectors
        /\ t \in Int /\ v \in Int /\ 0 <= t /\ t < NSectors
  BY AgeIs, SettingsAssumption DEF Sector
<1>2. \A t \in Sector :
        /\ NextSector(t) = IF t + 1 = NSectors THEN 0 ELSE t + 1
        /\ NextSector(t) \in Sector
  BY NextIs
<1>3. NSectors \in Int /\ NSectors > 1
  BY SettingsAssumption
<1>4. PICK x \in {NextSector(w)}, y \in {NextSector(s)} : TRUE
  OBVIOUS
<1>5. /\ x = (IF w + 1 = NSectors THEN 0 ELSE w + 1) /\ x \in Sector
      /\ y = (IF s + 1 = NSectors THEN 0 ELSE s + 1) /\ y \in Sector
  BY <1>2, <1>4
<1>6. Age(w, w) = NSectors - 1
  <2>1. Age(w, w) = IF w > w THEN w - w - 1 ELSE (w - w - 1) + NSectors
    BY <1>1
  <2> QED BY <1>1, <1>3, <2>1
<1>7. Age(w, x) = 0
  BY <1>1, <1>3, <1>5
<1>8. s # w => Age(w, y) = Age(w, s) + 1
  BY <1>1, <1>3, <1>5
<1>9. s # x => Age(x, s) = Age(w, s) - 1
  BY <1>1, <1>3, <1>5
<1>10. \A t \in Sector : Age(w, s) = Age(w, t) => s = t
  BY <1>1, <1>3
<1> QED BY <1>4, <1>6, <1>7, <1>8, <1>9, <1>10

(* Later is a strict order, and total.                                     *)
LEMMA LaterOrder ==
  ASSUME NEW w \in Sector, NEW d \in Sector \X (1..PerSector),
         NEW e \in Sector \X (1..PerSector)
  PROVE  /\ ~ (Later(w, e, d) /\ Later(w, d, e))
         /\ ~ Later(w, e, d) /\ ~ Later(w, d, e) => e = d
<1>1. /\ d[1] \in Sector /\ e[1] \in Sector /\ d[2] \in Int /\ e[2] \in Int
      /\ d = <<d[1], d[2]>> /\ e = <<e[1], e[2]>>
  BY SettingsAssumption
<1>2. Age(w, d[1]) \in Int /\ Age(w, e[1]) \in Int
  BY <1>1, AgeIs, SettingsAssumption
<1>3. Age(w, d[1]) = Age(w, e[1]) => d[1] = e[1]
  BY <1>1, AgeOrder
<1>4. ~ (Later(w, e, d) /\ Later(w, d, e))
  BY <1>1, <1>2 DEF Later
<1>5. ASSUME ~ Later(w, e, d), ~ Later(w, d, e) PROVE e = d
  <2>1. Age(w, d[1]) = Age(w, e[1])
    BY <1>2, <1>5 DEF Later
  <2>2. d[1] = e[1]
    BY <1>3, <2>1
  <2>3. d[2] = e[2]
    BY <1>1, <1>5, <2>2 DEF Later
  <2> QED BY <1>1, <2>2, <2>3
<1> QED BY <1>4, <1>5

-----------------------------------------------------------------------------
(* The last entry of a name.                                               *)

LEMMA Least ==
  ASSUME NEW T, T \subseteq Nat, T # {}
  PROVE  \E n \in T : \A m \in T : n <= m
<1>1. IsWellFoundedOn(OpToRel(<, Nat), Nat)
  BY NatLessThanWellFounded
<1>2. \E x \in T : \A y \in T : ~ (<<y, x>> \in OpToRel(<, Nat))
  BY <1>1, WFMin
<1>3. PICK x \in T : \A y \in T : ~ (<<y, x>> \in OpToRel(<, Nat))
  BY <1>2
<1>4. \A y \in T : ~ (y < x)
  BY <1>3 DEF OpToRel
<1> QED BY <1>4

LEMMA HasLast ==
  ASSUME NEW r, NEW w \in Sector, NEW n, Named(r, n) # {}
  PROVE  \E e \in Named(r, n) : IsLast(r, w, n, e)
<1> DEFINE N == Named(r, n)
<1>1. \A e \in N : /\ e \in Sector \X (1..PerSector) /\ e[1] \in Sector
                   /\ e[2] \in 1..PerSector
                   /\ Age(w, e[1]) \in 0..NSectors - 1
  BY AgeIs DEF Named, Found
<1> HIDE DEF N
<1> DEFINE A == {NSectors - Age(w, e[1]) : e \in N}
<1>2. A \subseteq Nat /\ A # {}
  BY <1>1, SettingsAssumption DEF N
<1>3. PICK a \in A : \A b \in A : a <= b
  <2> HIDE DEF A
  <2> QED BY <1>2, Least
<1>4. PICK o \in N : a = NSectors - Age(w, o[1])
  BY <1>3
<1>5. \A d \in N : ~ (Age(w, d[1]) > Age(w, o[1]))
  <2> TAKE d \in N
  <2>1. a <= NSectors - Age(w, d[1])
    BY <1>3
  <2> QED BY <1>1, <1>4, <2>1, SettingsAssumption
<1> DEFINE B == {PerSector - e[2] : e \in {d \in N : d[1] = o[1]}}
<1>6. B \subseteq Nat /\ B # {}
  BY <1>1, <1>4, SettingsAssumption
<1>7. PICK b \in B : \A c \in B : b <= c
  <2> HIDE DEF B
  <2> QED BY <1>6, Least
<1>8. PICK e \in N : e[1] = o[1] /\ b = PerSector - e[2]
  BY <1>7
<1>9. \A d \in N : d[1] = e[1] => ~ (d[2] > e[2])
  <2> TAKE d \in N
  <2>1. d[1] = o[1] => b <= PerSector - d[2]
    BY <1>7
  <2> QED BY <1>1, <1>8, <2>1, SettingsAssumption
<1>10. \A d \in N : ~ Later(w, e, d)
  BY <1>5, <1>8, <1>9 DEF Later
<1> QED BY <1>8, <1>10 DEF IsLast, N

LEMMA LastOne ==
  ASSUME NEW r, NEW w \in Sector, NEW n, NEW d, NEW e,
         IsLast(r, w, n, d), IsLast(r, w, n, e)
  PROVE  d = e
<1>1. d \in Sector \X (1..PerSector) /\ e \in Sector \X (1..PerSector)
  BY DEF IsLast, Named, Found
<1>2. ~ Later(w, d, e) /\ ~ Later(w, e, d)
  BY DEF IsLast
<1> QED BY <1>1, <1>2, LaterOrder

LEMMA StoredIs ==
  ASSUME NEW r, NEW w, NEW n
  PROVE  /\ Named(r, n) = {} => StoredIn(r, w, n) = Missing
         /\ w \in Sector => \A e : IsLast(r, w, n, e)
              => StoredIn(r, w, n) = r[e[1]][e[2]].content
<1>1. Named(r, n) = {} => StoredIn(r, w, n) = Missing
  BY DEF StoredIn
<1>2. ASSUME NEW e, IsLast(r, w, n, e), w \in Sector
      PROVE  StoredIn(r, w, n) = r[e[1]][e[2]].content
  <2> DEFINE last == CHOOSE x \in Named(r, n) :
                       \A d \in Named(r, n) : ~ Later(w, x, d)
  <2>1. e \in Named(r, n) /\ \A d \in Named(r, n) : ~ Later(w, e, d)
    BY <1>2 DEF IsLast
  <2>2. last \in Named(r, n) /\ \A d \in Named(r, n) : ~ Later(w, last, d)
    BY <2>1
  <2>3. IsLast(r, w, n, last)
    BY <2>2 DEF IsLast
  <2>4. last = e
    BY <1>2, <2>3, LastOne
  <2>5. StoredIn(r, w, n) = r[last[1]][last[2]].content
    BY <2>1 DEF StoredIn
  <2> QED BY <2>4, <2>5
<1> QED BY <1>1, <1>2

(* Entries go missing in the order of the walk.                            *)
Dropped(r, g, w) ==
  /\ \A e \in Found(g) : e \in Found(r) /\ g[e[1]][e[2]] = r[e[1]][e[2]]
  /\ \A e \in Found(g), d \in Found(r) : Later(w, e, d) => d \in Found(g)

LEMMA DropStored ==
  ASSUME NEW r, NEW g, NEW w \in Sector, Dropped(r, g, w), NEW n
  PROVE  StoredIn(g, w, n) \in {StoredIn(r, w, n), Missing}
<1>1. CASE Named(g, n) = {}
  BY <1>1, StoredIs
<1>2. CASE Named(g, n) # {}
  <2>1. PICK e \in Named(g, n) : IsLast(g, w, n, e)
    BY <1>2, HasLast
  <2>2. \A d \in Named(g, n) : d \in Named(r, n)
                               /\ g[d[1]][d[2]] = r[d[1]][d[2]]
    BY DEF Dropped, Named
  <2>3. ASSUME NEW d \in Named(r, n), Later(w, e, d) PROVE FALSE
    <3>1. d \in Found(g) /\ g[d[1]][d[2]] = r[d[1]][d[2]]
      BY <2>3 DEF Dropped, Named
    <3>2. d \in Named(g, n)
      BY <3>1 DEF Named
    <3> QED BY <2>1, <2>3, <3>2 DEF IsLast
  <2>4. IsLast(r, w, n, e)
    BY <2>2, <2>3 DEF IsLast
  <2>5. StoredIn(g, w, n) = g[e[1]][e[2]].content
    BY <2>1, StoredIs
  <2>6. StoredIn(r, w, n) = r[e[1]][e[2]].content
    BY <2>4, StoredIs
  <2> QED BY <2>2, <2>5, <2>6
<1> QED BY <1>1, <1>2

(* The same entries in the same order.                                     *)
LEMMA SameStored ==
  ASSUME NEW r, NEW g, NEW v \in Sector, NEW w \in Sector, NEW n,
         Named(g, n) = Named(r, n),
         \A e \in Named(r, n) : g[e[1]][e[2]] = r[e[1]][e[2]],
         \A e \in Named(r, n), d \in Named(r, n) :
           Later(v, e, d) <=> Later(w, e, d)
  PROVE  /\ StoredIn(g, w, n) = StoredIn(r, v, n)
         /\ \A e : IsLast(g, w, n, e) <=> IsLast(r, v, n, e)
<1>1. \A e : IsLast(g, w, n, e) <=> IsLast(r, v, n, e)
  BY DEF IsLast
<1>2. CASE Named(r, n) = {}
  BY <1>1, <1>2, StoredIs
<1>3. CASE Named(r, n) # {}
  <2>1. PICK e \in Named(r, n) : IsLast(r, v, n, e)
    BY <1>3, HasLast
  <2>2. IsLast(g, w, n, e)
    BY <1>1, <2>1
  <2>3. StoredIn(g, w, n) = g[e[1]][e[2]].content
    BY <2>2, StoredIs
  <2>4. StoredIn(r, v, n) = r[e[1]][e[2]].content
    BY <2>1, StoredIs
  <2> QED BY <1>1, <2>1, <2>3, <2>4
<1> QED BY <1>2, <1>3

-----------------------------------------------------------------------------
(* The inductive invariant.                                                *)

Saving == at \in {"erase", "start", "write"}

(* What each place in the code relies on.                                  *)
Control ==
  /\ at \in {"idle", "write", "load", "handler", "loaded"}
       => newest = wr_sector
  /\ at \in {"erase", "start"}
       => newest \in Sector /\ wr_sector = NextSector(newest)
  /\ at = "start" => ring[wr_sector] = <<>>
  /\ at = "write" => Len(ring[wr_sector]) < PerSector
  /\ newest = NSectors => Found(ring) = {}
  /\ IF Saving THEN req \in Setting ELSE req = NoReq
  /\ loading => Saving
  /\ at \in {"off", "idle"} \/ (Saving /\ ~ loading)
       => \A n \in Names : handed[n] = Missing
  /\ at = "loaded"
       => loc.sector = wr_sector /\ loc.n = Len(ring[wr_sector])

(* The walk of settings_sfcb_load has met e.                               *)
Met(e) == ~ Later(wr_sector, <<loc.sector, loc.n>>, e)

(* The handler of n has been given the value of n when the walk has met    *)
(* it; the handler of a setting that does not exist has been given nothing *)
Right(n) ==
  /\ loc.n <= Len(ring[loc.sector])
  /\ Named(ring, n) = {} => handed[n] = Missing
  /\ \A e \in Named(ring, n) :
       /\ IsLast(ring, wr_sector, n, e)
       /\ Met(e) \/ ring[e[1]][e[2]].content = Missing
       => handed[n] = ring[e[1]][e[2]].content

Walking == at \in {"load", "handler", "loaded"} \/ (at = "write" /\ loading)

Told == Walking => \A n \in Names \ excused : Right(n)

IInv == TypeOK /\ Control /\ Told

-----------------------------------------------------------------------------
(* Sectors as sequences.                                                   *)

LEMMA AreaIs ==
  ASSUME NEW r \in Area, NEW s \in Sector
  PROVE  /\ r[s] \in Seq(Entry) /\ Len(r[s]) \in 0..PerSector
         /\ r[s] \in [1..Len(r[s]) -> Entry]
<1>1. PICK k \in 0..PerSector : r[s] \in [1..k -> Entry]
  BY DEF Area
<1>2. k \in Nat
  BY <1>1, SettingsAssumption
<1>3. r[s] \in Seq(Entry) /\ Len(r[s]) = k
  BY <1>1, <1>2
<1> QED BY <1>1, <1>3

LEMMA AreaSet ==
  ASSUME NEW r \in Area, NEW s \in Sector, NEW q \in Seq(Entry),
         Len(q) <= PerSector, NEW g, g = [r EXCEPT ![s] = q]
  PROVE  /\ g \in Area /\ g[s] = q
         /\ \A t \in Sector : t # s => g[t] = r[t]
<1>1. Len(q) \in 0..PerSector /\ q \in [1..Len(q) -> Entry]
  BY SettingsAssumption
<1> QED BY <1>1 DEF Area

LEMMA FoundIs ==
  ASSUME NEW r \in Area, NEW e \in Found(r)
  PROVE  /\ e[1] \in Sector /\ e[2] \in 1..PerSector /\ e[2] \in Int
         /\ e[2] <= Len(r[e[1]]) /\ e = <<e[1], e[2]>>
         /\ r[e[1]][e[2]].name \in Names
         /\ r[e[1]][e[2]].content \in Content \cup {Garbage}
<1>1. /\ e[1] \in Sector /\ e[2] \in 1..PerSector /\ e[2] \in Int /\ e[2] >= 1
      /\ e[2] <= Len(r[e[1]]) /\ e = <<e[1], e[2]>>
      /\ r[e[1]][e[2]] # Unreadable
  BY SettingsAssumption DEF Found
<1>2. r[e[1]] \in [1..Len(r[e[1]]) -> Entry] /\ Len(r[e[1]]) \in Int
  BY <1>1, AreaIs
<1>3. r[e[1]][e[2]] \in [name: Names, content: Content \cup {Garbage}]
  BY <1>1, <1>2 DEF Entry
<1> QED BY <1>1, <1>3

(* An entry is added at the end of sector w.                               *)
Appended(r, g, w, x) ==
  Len(r[w]) < PerSector /\ g = [r EXCEPT ![w] = Append(@, x)]

LEMMA AppendFound ==
  ASSUME NEW r \in Area, NEW w \in Sector, NEW x \in Entry,
         NEW g, Appended(r, g, w, x),
         NEW o, o = <<w, Len(r[w]) + 1>>
  PROVE  /\ g \in Area
         /\ Len(g[w]) = Len(r[w]) + 1
         /\ \A s \in Sector : s # w => g[s] = r[s]
         /\ \A e \in Found(r) : /\ e \in Found(g)
                                 /\ g[e[1]][e[2]] = r[e[1]][e[2]]
                                 /\ Later(w, e, o) /\ ~ Later(w, o, e)
         /\ \A e \in Found(g) : e \in Found(r) \/ e = o
         /\ x = Unreadable => Found(g) = Found(r)
         /\ x # Unreadable => o \in Found(g) /\ o \notin Found(r)
         /\ g[o[1]][o[2]] = x
<1> DEFINE q == Append(r[w], x)
           l == Len(r[w])
<1>1. /\ r[w] \in Seq(Entry) /\ l \in Nat /\ l < PerSector /\ l + 1 \in 1..PerSector
  BY AreaIs, SettingsAssumption DEF Appended
<1>2. /\ q \in Seq(Entry) /\ Len(q) = l + 1 /\ q[l + 1] = x
      /\ \A k \in 1..l : q[k] = r[w][k]
  BY <1>1
<1> HIDE DEF q
<1>3. g = [r EXCEPT ![w] = q]
  BY DEF q, Appended
<1>4. Len(q) <= PerSector
  BY <1>1, <1>2
<1>5. /\ g \in Area /\ g[w] = q
      /\ \A s \in Sector : s # w => g[s] = r[s]
  <2>1. PICK y \in Seq(Entry) : y = q
    BY <1>2
  <2>2. Len(y) <= PerSector /\ g = [r EXCEPT ![w] = y]
    BY <1>3, <1>4, <2>1
  <2>3. g \in Area
    BY <2>2, AreaSet
  <2>4. g[w] = y
    BY <2>2 DEF Area
  <2>5. \A s \in Sector : s # w => g[s] = r[s]
    BY <2>2, AreaSet
  <2> QED BY <2>1, <2>3, <2>4, <2>5
<1>6. o \in Sector \X (1..PerSector) /\ o[1] = w /\ o[2] = l + 1
  BY <1>1
<1> HIDE DEF l
<1>7. g[o[1]][o[2]] = x
  BY <1>2, <1>5, <1>6
<1>8. ASSUME NEW e \in Found(r)
      PROVE  /\ e \in Found(g) /\ g[e[1]][e[2]] = r[e[1]][e[2]]
             /\ Later(w, e, o) /\ ~ Later(w, o, e) /\ e # o
  <2>1. /\ e[1] \in Sector /\ e[2] \in 1..PerSector /\ e[2] \in Int
        /\ e[2] <= Len(r[e[1]]) /\ e = <<e[1], e[2]>>
    BY FoundIs
  <2>2. r[e[1]][e[2]] # Unreadable /\ e \in Sector \X (1..PerSector)
    BY DEF Found
  <2>3. g[e[1]][e[2]] = r[e[1]][e[2]] /\ e[2] <= Len(g[e[1]])
    <3>1. CASE e[1] # w
      BY <1>5, <2>1, <3>1
    <3>2. CASE e[1] = w
      <4>1. e[2] \in 1..l /\ e[2] <= l + 1
        BY <1>1, <2>1, <3>2, SettingsAssumption DEF l
      <4> QED BY <1>2, <1>5, <3>2, <4>1
    <3> QED BY <3>1, <3>2
  <2>4. e \in Found(g)
    BY <2>2, <2>3 DEF Found
  <2>5. Later(w, e, o)
    <3>1. CASE e[1] = w
      <4>1. o[2] > e[2] /\ o[1] = e[1]
        BY <1>1, <1>6, <2>1, <3>1 DEF l
      <4> QED BY <4>1 DEF Later
    <3>2. CASE e[1] # w
      <4>1. Age(w, e[1]) \in 0..NSectors - 1 /\ Age(w, w) = NSectors - 1
        BY <2>1, AgeIs, AgeOrder
      <4>2. Age(w, e[1]) # Age(w, w)
        BY <2>1, <3>2, AgeOrder
      <4>3. Age(w, o[1]) > Age(w, e[1])
        BY <1>6, <4>1, <4>2, SettingsAssumption
      <4> QED BY <4>3 DEF Later
    <3> QED BY <3>1, <3>2
  <2>6. ~ Later(w, o, e)
    BY <1>6, <2>2, <2>5, LaterOrder
  <2> QED BY <2>3, <2>4, <2>5, <2>6
<1>9. ASSUME NEW e \in Found(g), e # o PROVE e \in Found(r)
  <2>1. /\ e[1] \in Sector /\ e[2] \in 1..PerSector /\ e[2] \in Int
        /\ e[2] <= Len(g[e[1]]) /\ e = <<e[1], e[2]>>
    BY <1>5, FoundIs
  <2>2. g[e[1]][e[2]] # Unreadable /\ e \in Sector \X (1..PerSector)
    BY DEF Found
  <2>3. g[e[1]][e[2]] = r[e[1]][e[2]] /\ e[2] <= Len(r[e[1]])
    <3>1. CASE e[1] # w
      BY <1>5, <2>1, <3>1
    <3>2. CASE e[1] = w
      <4>1. e[2] # l + 1
        BY <1>6, <1>9, <2>1, <3>2 DEF l
      <4>2. e[2] \in 1..l /\ e[2] <= l
        BY <1>1, <1>2, <1>5, <2>1, <3>2, <4>1, SettingsAssumption
      <4> QED BY <1>2, <1>5, <3>2, <4>2 DEF l
    <3> QED BY <3>1, <3>2
  <2> QED BY <2>2, <2>3 DEF Found
<1>10. x = Unreadable => o \notin Found(g)
  BY <1>7 DEF Found
<1>11. x # Unreadable => o \in Found(g)
  <2>1. o[2] <= Len(g[o[1]])
    BY <1>1, <1>2, <1>5, <1>6
  <2> QED BY <1>6, <1>7, <2>1 DEF Found
<1>12. x = Unreadable => Found(g) = Found(r)
  BY <1>8, <1>9, <1>10
<1> QED BY <1>2, <1>5, <1>7, <1>8, <1>9, <1>11, <1>12 DEF l

LEMMA AppendLast ==
  ASSUME NEW r \in Area, NEW w \in Sector, NEW x \in Entry,
         NEW g, Appended(r, g, w, x),
         NEW n
  PROVE  \/ /\ x # Unreadable /\ n = x.name
            /\ IsLast(g, w, n, <<w, Len(r[w]) + 1>>)
            /\ StoredIn(g, w, n) = x.content
         \/ /\ x # Unreadable => n # x.name
            /\ Named(g, n) = Named(r, n)
            /\ \A e \in Named(r, n) : g[e[1]][e[2]] = r[e[1]][e[2]]
            /\ \A e : IsLast(g, w, n, e) <=> IsLast(r, w, n, e)
            /\ StoredIn(g, w, n) = StoredIn(r, w, n)
<1>1. PICK o : o = <<w, Len(r[w]) + 1>>
  OBVIOUS
<1>2. /\ \A e \in Found(r) : /\ e \in Found(g)
                              /\ g[e[1]][e[2]] = r[e[1]][e[2]]
                              /\ Later(w, e, o) /\ ~ Later(w, o, e)
      /\ \A e \in Found(g) : e \in Found(r) \/ e = o
      /\ x = Unreadable => Found(g) = Found(r)
      /\ x # Unreadable => o \in Found(g) /\ o \notin Found(r)
      /\ g[o[1]][o[2]] = x
  BY <1>1, AppendFound
<1>3. ASSUME x # Unreadable, n = x.name
      PROVE  IsLast(g, w, n, o) /\ StoredIn(g, w, n) = x.content
  <2>1. o \in Named(g, n)
    BY <1>2, <1>3 DEF Named
  <2>2. ~ Later(w, o, o)
    BY <1>2, <1>3, LaterOrder DEF Found
  <2>3. \A d \in Named(g, n) : ~ Later(w, o, d)
    BY <1>2, <2>2 DEF Named
  <2>4. IsLast(g, w, n, o)
    BY <2>1, <2>3 DEF IsLast
  <2> QED BY <1>2, <2>4, StoredIs
<1>4. ASSUME x # Unreadable => n # x.name
      PROVE  /\ Named(g, n) = Named(r, n)
             /\ \A e \in Named(r, n) : g[e[1]][e[2]] = r[e[1]][e[2]]
             /\ \A e : IsLast(g, w, n, e) <=> IsLast(r, w, n, e)
             /\ StoredIn(g, w, n) = StoredIn(r, w, n)
  <2>1. \A e \in Named(r, n) : g[e[1]][e[2]] = r[e[1]][e[2]]
    BY <1>2 DEF Named
  <2>2. Named(g, n) = Named(r, n)
    BY <1>2, <1>4 DEF Named
  <2> QED BY <2>1, <2>2, SameStored
<1> QED BY <1>1, <1>3, <1>4

-----------------------------------------------------------------------------
(* Steps of the invariant.                                                 *)

LEMMA TypeArea == TypeOK <=> /\ ring \in Area
                             /\ newest \in 0..NSectors /\ wr_sector \in Sector
                             /\ at \in {"off", "idle", "erase", "start", "write",
                                       "load", "handler", "loaded"}
                             /\ req \in Setting \cup {NoReq}
                             /\ loading \in BOOLEAN
                             /\ loc \in Loc
                             /\ handed \in [Names -> Content \cup {Garbage}]
                             /\ excused \subseteq Names
  BY DEF TypeOK, Area, Entry

(* Nothing that the load has given out is touched.                         *)
LEMMA RightStays ==
  ASSUME NEW n, Right(n), UNCHANGED <<ring, wr_sector, loc, handed>>
  PROVE  Right(n)'
  BY DEF Right, Met

LEMMA InitInv == Init => IInv
<1> SUFFICES ASSUME Init PROVE IInv
  OBVIOUS
<1>1. /\ ring = [s \in Sector |-> <<>>] /\ newest = NSectors /\ at = "off"
      /\ wr_sector = 0 /\ req = NoReq /\ loading = FALSE
      /\ loc = [sector |-> 0, n |-> 0]
      /\ handed = [n \in Names |-> Missing] /\ excused = {}
  BY DEF Init
<1>2. ring \in Area
  <2>1. 0 \in 0..PerSector /\ <<>> \in [1..0 -> Entry]
    BY SettingsAssumption
  <2> QED BY <1>1, <2>1 DEF Area
<1>3. 0 \in Sector /\ NSectors \in 0..NSectors /\ loc \in Loc
  BY <1>1, SettingsAssumption DEF Sector, Loc
<1>4. TypeOK
  BY <1>1, <1>2, <1>3, TypeArea DEF Content
<1>5. Found(ring) = {}
  BY <1>1 DEF Found
<1>6. wr_sector # NSectors
  BY <1>1, SettingsAssumption
<1> QED BY <1>1, <1>4, <1>5 DEF IInv, Control, Told, Walking, Saving

LEMMA BackendInitInv ==
  ASSUME IInv, BackendInit
  PROVE  IInv'
<1>1. /\ at = "off" /\ at' = "idle" /\ UNCHANGED <<ring, req, loading, load>>
      /\ newest' = wr_sector' /\ wr_sector' \in Sector
  BY SettingsAssumption DEF BackendInit, IInv, TypeOK, Sector
<1>2. UNCHANGED <<loc, handed, excused>>
  BY <1>1 DEF load
<1>3. newest' # NSectors /\ newest' \in 0..NSectors
  BY <1>1, SettingsAssumption DEF Sector
<1>4. TypeOK'
  BY <1>1, <1>2, <1>3 DEF IInv, TypeOK
<1>5. Control'
  BY <1>1, <1>2, <1>3 DEF IInv, Control, Saving
<1>6. Told'
  BY <1>1 DEF IInv, Control, Saving, Told, Walking
<1> QED BY <1>4, <1>5, <1>6 DEF IInv

LEMMA SaveInv ==
  ASSUME IInv, NEW r \in Setting, Save(r)
  PROVE  IInv'
<1>1. /\ req' = r /\ UNCHANGED <<ring, newest, loc, handed, excused>>
      /\ \/ at = "idle" /\ loading' = FALSE
         \/ at = "handler" /\ loading' = TRUE
      /\ newest = wr_sector /\ wr_sector \in Sector
      /\ \/ /\ Len(ring[wr_sector]) < PerSector
            /\ at' = "write" /\ wr_sector' = wr_sector
         \/ at' = "erase" /\ wr_sector' = NextSector(wr_sector)
  BY DEF Save, load, IInv, Control, TypeOK
<1>2. newest # NSectors /\ NextSector(wr_sector) \in Sector
  BY <1>1, NextIs, SettingsAssumption DEF Sector
<1>3. TypeOK'
  BY <1>1, <1>2 DEF IInv, TypeOK
<1>4. Control'
  BY <1>1, <1>2 DEF IInv, Control, Saving
<1>5. Told'
  <2>1. CASE at' = "erase"
    BY <1>1, <2>1 DEF Told, Walking
  <2>2. CASE at' = "write" /\ at = "idle"
    BY <1>1, <2>2 DEF Told, Walking
  <2>3. CASE at' = "write" /\ at = "handler"
    <3>1. \A n \in Names \ excused : Right(n)
      BY <2>3 DEF IInv, Told, Walking
    <3>2. UNCHANGED <<ring, wr_sector, loc, handed>>
      BY <1>1, <2>3
    <3>3. \A n \in Names \ excused : Right(n)'
      BY <3>1, <3>2, RightStays
    <3> QED BY <1>1, <3>3 DEF Told
  <2> QED BY <1>1, <2>1, <2>2, <2>3
<1> QED BY <1>3, <1>4, <1>5 DEF IInv

LEMMA EraseInv ==
  ASSUME IInv, Erase
  PROVE  IInv'
<1>1. /\ at = "erase" /\ at' = "start"
      /\ ring' = [ring EXCEPT ![wr_sector] = <<>>]
      /\ UNCHANGED <<newest, wr_sector, req, loading, loc, handed, excused>>
      /\ wr_sector \in Sector /\ ring \in Area /\ newest \in Sector
      /\ wr_sector = NextSector(newest)
  BY TypeArea DEF Erase, load, IInv, Control
<1>2. ring' \in Area /\ ring'[wr_sector] = <<>>
  <2>1. <<>> \in Seq(Entry) /\ Len(<<>>) <= PerSector
    BY SettingsAssumption
  <2>2. PICK g \in {ring'}, q \in {<<>>} : TRUE
    OBVIOUS
  <2>3. g = [ring EXCEPT ![wr_sector] = q] /\ q \in Seq(Entry) /\ Len(q) <= PerSector
    BY <1>1, <2>1, <2>2
  <2>4. g \in Area
    BY <1>1, <2>3, AreaSet
  <2>5. g[wr_sector] = q
    BY <1>1, <2>3 DEF Area
  <2> QED BY <2>2, <2>4, <2>5
<1>3. newest # NSectors
  BY <1>1, SettingsAssumption DEF Sector
<1>4. TypeOK'
  BY <1>1, <1>2, TypeArea DEF IInv, TypeOK, Area, Entry
<1>5. Control'
  BY <1>1, <1>2, <1>3 DEF IInv, Control, Saving
<1>6. Told'
  BY <1>1 DEF Told, Walking
<1> QED BY <1>4, <1>5, <1>6 DEF IInv

(* settings_sfcb_compress copies nothing.                                  *)
LEMMA NoCopies ==
  ASSUME wr_sector \in Sector
  PROVE  CompressCopies(wr_sector) = <<>>
  BY NextIs DEF CompressCopies

LEMMA InitSectorInv ==
  ASSUME IInv, InitSector
  PROVE  IInv' /\ UNCHANGED ring
<1>1. /\ at = "start" /\ at' = "write" /\ newest' = wr_sector
      /\ excused' = (IF loading THEN Names ELSE excused)
      /\ UNCHANGED <<wr_sector, req, loading, loc, handed>>
      /\ wr_sector \in Sector /\ ring \in Area /\ ring[wr_sector] = <<>>
  BY TypeArea DEF InitSector, IInv, Control
<1>2. ring' = ring
  <2>1. CompressCopies(wr_sector) = <<>>
    BY <1>1, NoCopies
  <2>2. [k \in 1..Len(<<>>) |-> EntryAt(<<>>[k][1], <<>>[k][2])] = <<>>
    OBVIOUS
  <2>3. ring' = [ring EXCEPT ![wr_sector] = <<>>]
    BY <2>1, <2>2 DEF InitSector
  <2> QED BY <1>1, <2>3 DEF Area
<1>3. wr_sector # NSectors /\ wr_sector \in 0..NSectors
  BY <1>1, SettingsAssumption DEF Sector
<1>4. TypeOK'
  BY <1>1, <1>2, <1>3, TypeArea DEF IInv, TypeOK
<1>5. Control'
  <2>1. Len(<<>>) < PerSector
    BY SettingsAssumption
  <2> QED BY <1>1, <1>2, <1>3, <2>1 DEF IInv, Control, Saving
<1>6. Told'
  BY <1>1 DEF Told, Walking
<1> QED BY <1>2, <1>4, <1>5, <1>6 DEF IInv

(* The entry a save leaves: what was to be saved, a name without its value *)
(* or nothing readable.                                                    *)
Ends(x) ==
  \/ x = req
  \/ x = Unreadable
  \/ /\ x = [name |-> req.name, content |-> Garbage]
     /\ "value" \in WriteErrors /\ req.content # Missing

LEMMA EndsIs ==
  ASSUME req \in Setting, NEW x, Ends(x)
  PROVE  /\ x \in Entry
         /\ x # Unreadable => /\ x.name = req.name
                              /\ x.content = Missing => req.content = Missing
  BY SettingsAssumption DEF Ends, Entry, Setting, Content

LEMMA CloseFacts ==
  ASSUME IInv, Close
  PROVE  /\ at = "write" /\ newest = wr_sector /\ wr_sector \in Sector
         /\ ring \in Area /\ req \in Setting
         /\ \E x : Ends(x) /\ Appended(ring, ring', wr_sector, x)
<1>1. /\ at = "write" /\ newest = wr_sector /\ wr_sector \in Sector
      /\ ring \in Area /\ req \in Setting /\ Len(ring[wr_sector]) < PerSector
  BY TypeArea DEF Close, IInv, Control, Saving
<1>2. PICK x \in {req} \cup Failed(req) :
        ring' = [ring EXCEPT ![wr_sector] = Append(@, x)]
  BY DEF Close
<1>3. Ends(x)
  BY <1>2 DEF Ends, Failed
<1> QED BY <1>1, <1>2, <1>3 DEF Appended

LEMMA CloseInv ==
  ASSUME IInv, Close
  PROVE  IInv'
<1>1. PICK x : Ends(x) /\ Appended(ring, ring', wr_sector, x)
  BY CloseFacts
<1>2. /\ at = "write" /\ newest = wr_sector /\ wr_sector \in Sector
      /\ ring \in Area /\ req \in Setting /\ x \in Entry
      /\ newest # NSectors
  BY <1>1, CloseFacts, EndsIs, SettingsAssumption DEF Sector
<1>3. /\ at' = (IF loading THEN "handler" ELSE "idle")
      /\ excused' = (IF loading /\ req.content = Missing
                       THEN excused \cup {req.name} ELSE excused)
      /\ req' = NoReq /\ loading' = FALSE
      /\ UNCHANGED <<newest, wr_sector, loc, handed>>
  BY DEF Close
<1>4. req.name \in Names
  BY <1>2 DEF Setting
<1>5. /\ ring' \in Area /\ Len(ring'[wr_sector]) = Len(ring[wr_sector]) + 1
      /\ \A s \in Sector : s # wr_sector => ring'[s] = ring[s]
  <2>1. PICK o : o = <<wr_sector, Len(ring[wr_sector]) + 1>>
    OBVIOUS
  <2>2. PICK g \in {ring'} : TRUE
    OBVIOUS
  <2>3. /\ g \in Area /\ Len(g[wr_sector]) = Len(ring[wr_sector]) + 1
        /\ \A s \in Sector : s # wr_sector => g[s] = ring[s]
    BY <1>1, <1>2, <2>1, <2>2, AppendFound
  <2> QED BY <2>2, <2>3
<1>6. TypeOK'
  BY <1>2, <1>3, <1>4, <1>5, TypeArea DEF IInv, TypeOK, Area, Entry
<1>7. Control'
  BY <1>2, <1>3 DEF IInv, Control, Saving
<1>8. Told'
  <2> SUFFICES ASSUME loading, NEW n \in Names \ excused' PROVE Right(n)'
    BY <1>3 DEF Told, Walking
  <2>1. Right(n) /\ n \in Names \ excused
    BY <1>2, <1>3 DEF IInv, Told, Walking
  <2>2. loc.sector \in Sector /\ loc.n \in Int
    BY SettingsAssumption DEF IInv, TypeOK, Loc
  <2>3. Len(ring[wr_sector]) \in Nat
    BY <1>2, AreaIs
  <2>4. loc.n <= Len(ring'[loc.sector])
    BY <1>5, <2>1, <2>2, <2>3 DEF Right
  <2>5. PICK g \in {ring'}, o \in {<<wr_sector, Len(ring[wr_sector]) + 1>>} : TRUE
    OBVIOUS
  <2>6. CASE /\ x # Unreadable /\ n = x.name
             /\ IsLast(g, wr_sector, n, o)
    <3>1. x.name = req.name /\ x.content # Missing
      BY <1>1, <1>2, <1>3, <2>6, EndsIs
    <3>2. g[o[1]][o[2]] = x /\ o \in Named(g, n)
      <4>1. g[o[1]][o[2]] = x
        BY <1>1, <1>2, <2>5, AppendFound
      <4> QED BY <2>6, <4>1 DEF IsLast
    <3>3. \A e : IsLast(g, wr_sector, n, e) => e = o
      BY <1>2, <2>6, LastOne
    <3>4. Later(wr_sector, <<loc.sector, loc.n>>, o)
      <4>1. CASE loc.sector = wr_sector
        <5>1. o[1] = loc.sector /\ o[2] > loc.n
          BY <2>1, <2>2, <2>3, <2>5, <4>1 DEF Right
        <5> QED BY <5>1 DEF Later
      <4>2. CASE loc.sector # wr_sector
        <5>1. Age(wr_sector, loc.sector) \in 0..NSectors - 1
              /\ Age(wr_sector, wr_sector) = NSectors - 1
          BY <1>2, <2>2, AgeIs, AgeOrder
        <5>2. Age(wr_sector, loc.sector) # Age(wr_sector, wr_sector)
          BY <1>2, <2>2, <4>2, AgeOrder
        <5>3. Age(wr_sector, o[1]) > Age(wr_sector, loc.sector)
          BY <2>5, <5>1, <5>2, SettingsAssumption
        <5> QED BY <5>3 DEF Later
      <4> QED BY <4>1, <4>2
    <3> QED BY <1>3, <2>4, <2>5, <3>1, <3>2, <3>3, <3>4 DEF Right, Met
  <2>7. CASE /\ Named(g, n) = Named(ring, n)
             /\ \A e \in Named(ring, n) : g[e[1]][e[2]] = ring[e[1]][e[2]]
             /\ \A e : IsLast(g, wr_sector, n, e) <=> IsLast(ring, wr_sector, n, e)
    BY <1>3, <2>1, <2>4, <2>5, <2>7 DEF Right, Met
  <2>8. \/ /\ x # Unreadable /\ n = x.name
           /\ IsLast(g, wr_sector, n, <<wr_sector, Len(ring[wr_sector]) + 1>>)
        \/ /\ Named(g, n) = Named(ring, n)
           /\ \A e \in Named(ring, n) : g[e[1]][e[2]] = ring[e[1]][e[2]]
           /\ \A e : IsLast(g, wr_sector, n, e) <=> IsLast(ring, wr_sector, n, e)
    <3>1. Appended(ring, g, wr_sector, x)
      BY <1>1, <2>5
    <3> QED BY <1>2, <3>1, AppendLast
  <2> QED BY <2>5, <2>6, <2>7, <2>8
<1> QED BY <1>6, <1>7, <1>8 DEF IInv

(* The walk of a load                                                      *)
LEMMA LoadInv ==
  ASSUME IInv, Load
  PROVE  IInv'
<1>1. /\ at = "idle" /\ at' = "load"
      /\ loc' = [sector |-> NextSector(wr_sector), n |-> 0]
      /\ UNCHANGED <<ring, newest, wr_sector, req, loading, handed, excused>>
      /\ wr_sector \in Sector /\ ring \in Area
      /\ NextSector(wr_sector) \in Sector
  BY NextIs, TypeArea DEF Load, IInv
<1>2. TypeOK'
  <2>1. 0 \in 0..PerSector
    BY SettingsAssumption
  <2>2. loc' \in Loc
    BY <1>1, <2>1 DEF Loc
  <2> QED BY <1>1, <2>2 DEF IInv, TypeOK
<1>3. Control'
  BY <1>1 DEF IInv, Control, Saving
<1>4. ASSUME NEW n \in Names PROVE Right(n)'
  <2>1. handed[n] = Missing
    BY <1>1 DEF IInv, Control
  <2>2. 0 <= Len(ring[NextSector(wr_sector)])
    BY <1>1, AreaIs
  <2>3. ASSUME NEW e \in Named(ring, n)
        PROVE  Later(wr_sector, <<NextSector(wr_sector), 0>>, e)
    <3>1. e[1] \in Sector /\ e[2] \in 1..PerSector
      BY DEF Named, Found
    <3>2. /\ Age(wr_sector, e[1]) \in 0..NSectors - 1
          /\ Age(wr_sector, NextSector(wr_sector)) = 0
          /\ Age(wr_sector, e[1]) = Age(wr_sector, NextSector(wr_sector))
               => e[1] = NextSector(wr_sector)
      BY <1>1, <3>1, AgeIs, AgeOrder
    <3> QED BY <3>1, <3>2, SettingsAssumption DEF Later
  <2>4. loc'.n = 0 /\ loc'.sector = NextSector(wr_sector)
    BY <1>1
  <2> QED BY <1>1, <2>1, <2>2, <2>3, <2>4 DEF Right, Met
<1>5. Told'
  BY <1>1, <1>4 DEF Told
<1> QED BY <1>2, <1>3, <1>5 DEF IInv

LEMMA LiveIs ==
  ASSUME NEW e
  PROVE  Live(e) <=> /\ e \in Found(ring)
                     /\ ring[e[1]][e[2]].content # Missing
                     /\ IsLast(ring, wr_sector, ring[e[1]][e[2]].name, e)
<1>1. Readable = Found(ring)
  BY DEF Readable, Found, EntryAt
<1> QED BY <1>1 DEF Live, Duplicate, NameOf, EntryAt, IsLast, Named

LEMMA NextEntryInv ==
  ASSUME IInv, NextEntry
  PROVE  IInv'
<1>1. PICK e : e = <<loc.sector, loc.n + 1>>
  OBVIOUS
<1>2. /\ at = "load" /\ at' \in {"load", "handler"}
      /\ loc.n < Len(ring[loc.sector]) /\ loc' = [loc EXCEPT !.n = @ + 1]
      /\ UNCHANGED <<ring, newest, wr_sector, req, loading, excused>>
      /\ \/ /\ Live(e)
            /\ handed' = [handed EXCEPT ![ring[e[1]][e[2]].name] =
                             ring[e[1]][e[2]].content]
         \/ ~ Live(e) /\ handed' = handed
  BY <1>1 DEF NextEntry, AtEntry, NameOf, EntryAt
<1>3. /\ ring \in Area /\ wr_sector \in Sector
      /\ loc.sector \in Sector /\ loc.n \in 0..PerSector
      /\ loc.n \in Nat /\ loc \in Loc
      /\ handed \in [Names -> Content \cup {Garbage}]
  BY TypeArea, SettingsAssumption DEF IInv, Loc
<1>4. Len(ring[loc.sector]) \in 0..PerSector
  BY <1>3, AreaIs
<1>5. /\ loc.n + 1 \in 0..PerSector
      /\ loc'.n = loc.n + 1 /\ loc'.sector = loc.sector
      /\ loc' \in Loc
  BY <1>2, <1>3, <1>4, SettingsAssumption DEF Loc
<1>6. Live(e) => /\ ring[e[1]][e[2]].name \in Names
                 /\ ring[e[1]][e[2]].content \in Content \cup {Garbage}
  BY <1>3, LiveIs, FoundIs
<1>7. TypeOK'
  <2>1. handed' \in [Names -> Content \cup {Garbage}]
    BY <1>2, <1>3, <1>6
  <2> QED BY <1>2, <1>5, <2>1 DEF IInv, TypeOK
<1>8. Control'
  BY <1>2 DEF IInv, Control, Saving
<1>9. ASSUME NEW n \in Names \ excused PROVE Right(n)'
  <2>1. Right(n)
    BY <1>2 DEF IInv, Told, Walking
  <2>2. loc'.n <= Len(ring[loc'.sector])
    BY <1>2, <1>3, <1>4, <1>5
  <2>3. ASSUME NEW d \in Named(ring, n), d # e
        PROVE  Met(d)' <=> Met(d)
    <3>1. d[1] \in Sector /\ d[2] \in Int /\ d = <<d[1], d[2]>>
      BY SettingsAssumption DEF Named, Found
    <3>2. d[1] = loc.sector => d[2] # loc.n + 1
      BY <1>1, <2>3, <3>1
    <3>3. d[2] > loc.n + 1 <=> d[2] > loc.n /\ d[2] # loc.n + 1
      BY <1>3, <3>1
    <3> QED BY <1>2, <1>5, <3>1, <3>2, <3>3 DEF Met, Later
  <2>4. ASSUME NEW d \in Named(ring, n), IsLast(ring, wr_sector, n, d), d # e
        PROVE  handed'[n] = handed[n]
    <3>1. Live(e) => ring[e[1]][e[2]].name # n
      BY <1>3, <2>4, LiveIs, LastOne
    <3> QED BY <1>2, <1>3, <3>1
  <2>5. Named(ring, n) = {} => handed'[n] = handed[n]
    <3>1. Named(ring, n) = {} /\ Live(e) => ring[e[1]][e[2]].name # n
      BY LiveIs DEF Named
    <3> QED BY <1>2, <1>3, <3>1
  <2>6. ASSUME e \in Named(ring, n), IsLast(ring, wr_sector, n, e)
        PROVE  handed'[n] = ring[e[1]][e[2]].content
    <3>1. e \in Found(ring) /\ ring[e[1]][e[2]].name = n
      BY <2>6 DEF Named
    <3>2. CASE Live(e)
      BY <1>2, <1>3, <3>1, <3>2
    <3>3. CASE ~ Live(e)
      <4>1. ring[e[1]][e[2]].content = Missing
        BY <2>6, <3>1, <3>3, LiveIs
      <4> QED BY <1>2, <2>1, <2>6, <3>3, <4>1 DEF Right
    <3> QED BY <3>2, <3>3
  <2>7. ASSUME NEW d \in Named(ring, n), IsLast(ring, wr_sector, n, d),
               Met(d)' \/ ring[d[1]][d[2]].content = Missing
        PROVE  handed'[n] = ring[d[1]][d[2]].content
    <3>1. CASE d = e
      BY <2>6, <2>7, <3>1
    <3>2. CASE d # e
      BY <2>1, <2>3, <2>4, <2>7, <3>2 DEF Right
    <3> QED BY <3>1, <3>2
  <2>8. Named(ring, n) = {} => handed'[n] = Missing
    BY <2>1, <2>5 DEF Right
  <2> QED BY <1>2, <2>2, <2>7, <2>8 DEF Right
<1>10. Told'
  BY <1>2, <1>9 DEF Told
<1> QED BY <1>7, <1>8, <1>10 DEF IInv

LEMMA SectorEndInv ==
  ASSUME IInv, SectorEnd
  PROVE  IInv'
<1>1. /\ at = "load" /\ at' = "load"
      /\ ~ (loc.n < Len(ring[loc.sector]))
      /\ ~ (loc.sector = wr_sector /\ loc.n = Len(ring[loc.sector]))
      /\ loc' = [sector |-> NextSector(loc.sector), n |-> 0]
      /\ UNCHANGED <<ring, newest, wr_sector, req, loading, handed, excused>>
  BY DEF SectorEnd, AtEntry, AtEnd
<1>2. /\ ring \in Area /\ wr_sector \in Sector
      /\ loc.sector \in Sector /\ loc.n \in 0..PerSector /\ loc.n \in Nat
      /\ NextSector(loc.sector) \in Sector
  BY TypeArea, NextIs, SettingsAssumption DEF IInv, Loc
<1>3. Len(ring[loc.sector]) \in Nat /\ Len(ring[NextSector(loc.sector)]) \in Nat
  BY <1>2, AreaIs
<1>4. TypeOK'
  <2>1. 0 \in 0..PerSector
    BY SettingsAssumption
  <2>2. loc' \in Loc
    BY <1>1, <1>2, <2>1 DEF Loc
  <2> QED BY <1>1, <2>2 DEF IInv, TypeOK
<1>5. Control'
  BY <1>1 DEF IInv, Control, Saving
<1>6. ASSUME NEW n \in Names \ excused PROVE Right(n)'
  <2>1. Right(n)
    BY <1>1 DEF IInv, Told, Walking
  <2>2. loc.sector # wr_sector
    BY <1>1, <1>2, <1>3, <2>1 DEF Right
  <2>3. /\ Age(wr_sector, NextSector(loc.sector)) = Age(wr_sector, loc.sector) + 1
        /\ Age(wr_sector, loc.sector) \in Int
    BY <1>2, <2>2, AgeOrder, AgeIs
  <2>4. loc'.n = 0 /\ loc'.sector = NextSector(loc.sector)
    BY <1>1
  <2>5. ASSUME NEW d \in Named(ring, n), Met(d)' PROVE Met(d)
    <3>1. d \in Found(ring)
      BY DEF Named
    <3>2. /\ d[1] \in Sector /\ d[2] \in 1..PerSector /\ d[2] \in Int
          /\ d[2] <= Len(ring[d[1]])
      BY <1>2, <3>1, FoundIs
    <3>3. /\ Age(wr_sector, d[1]) \in Int
          /\ Age(wr_sector, d[1]) = Age(wr_sector, NextSector(loc.sector))
               => d[1] = NextSector(loc.sector)
      BY <1>2, <3>2, AgeOrder, AgeIs
    <3>4. ~ (Age(wr_sector, d[1]) > Age(wr_sector, loc.sector) + 1)
      BY <1>1, <2>3, <2>4, <2>5 DEF Met, Later
    <3>5. d[1] # NextSector(loc.sector)
      BY <1>1, <2>4, <2>5, <3>2, SettingsAssumption DEF Met, Later
    <3>6. ~ (Age(wr_sector, d[1]) > Age(wr_sector, loc.sector))
      BY <2>3, <3>3, <3>4, <3>5
    <3>7. d[1] = loc.sector => ~ (d[2] > loc.n)
      BY <1>1, <1>2, <1>3, <3>2
    <3> QED BY <3>6, <3>7 DEF Met, Later
  <2>6. loc'.n <= Len(ring[loc'.sector])
    BY <1>3, <2>4
  <2> QED BY <1>1, <2>1, <2>5, <2>6 DEF Right
<1>7. Told'
  BY <1>1, <1>6 DEF Told
<1> QED BY <1>4, <1>5, <1>7 DEF IInv

LEMMA FsEndInv ==
  ASSUME IInv, FsEnd
  PROVE  IInv'
<1>1. /\ at = "load" /\ at' = "loaded"
      /\ loc.sector = wr_sector /\ loc.n = Len(ring[loc.sector])
      /\ UNCHANGED <<ring, newest, wr_sector, req, loading, loc, handed, excused>>
  BY DEF FsEnd, AtEnd, load
<1>2. TypeOK' /\ Control'
  BY <1>1 DEF IInv, TypeOK, Control, Saving
<1>3. \A n \in Names \ excused : Right(n)'
  BY <1>1, RightStays DEF IInv, Told, Walking
<1>4. Told'
  BY <1>1, <1>3 DEF Told
<1> QED BY <1>2, <1>4 DEF IInv

LEMMA NoLoadType ==
  ASSUME NoLoad
  PROVE  /\ loc' \in Loc /\ handed' \in [Names -> Content \cup {Garbage}]
         /\ excused' \subseteq Names
         /\ \A n \in Names : handed'[n] = Missing
  BY SettingsAssumption DEF NoLoad, Loc, Sector, Content

LEMMA ReturnsInv ==
  ASSUME IInv, HandlerReturns \/ LoadReturns
  PROVE  IInv'
<1>1. /\ at \in {"handler", "loaded"} /\ newest = wr_sector
      /\ UNCHANGED <<ring, newest, wr_sector, req, loading>>
      /\ \/ at = "handler" /\ at' = "load" /\ UNCHANGED <<loc, handed, excused>>
         \/ at' = "idle" /\ NoLoad
  BY DEF HandlerReturns, LoadReturns, load, IInv, Control
<1>2. CASE at = "handler" /\ at' = "load" /\ UNCHANGED <<loc, handed, excused>>
  <2>1. TypeOK' /\ Control'
    BY <1>1, <1>2 DEF IInv, TypeOK, Control, Saving
  <2>2. \A n \in Names \ excused : Right(n)'
    BY <1>1, <1>2, RightStays DEF IInv, Told, Walking
  <2>3. Told'
    BY <1>2, <2>2 DEF Told
  <2> QED BY <2>1, <2>3 DEF IInv
<1>3. CASE at' = "idle" /\ NoLoad
  <2>1. TypeOK'
    BY <1>1, <1>3, NoLoadType DEF IInv, TypeOK
  <2>2. Control'
    BY <1>1, <1>3, NoLoadType DEF IInv, Control, Saving
  <2>3. Told'
    BY <1>1, <1>3 DEF Told, Walking, IInv, Control, Saving
  <2> QED BY <2>1, <2>2, <2>3 DEF IInv
<1> QED BY <1>1, <1>2, <1>3

(* An erase takes the first entries of a sector, or all.                   *)
Erased(r, g, s) ==
  \E q \in Seq(Entry), j \in Nat :
    /\ g = [r EXCEPT ![s] = q]
    /\ q = <<>> \/ Len(q) = Len(r[s])
    /\ \A k \in 1..Len(q) : q[k] = IF k <= j THEN Unreadable ELSE r[s][k]

(* What a power failure does to the flash.                                 *)
LEMMA PowerLossFlash ==
  ASSUME IInv, PowerLoss
  PROVE  /\ newest \in Sector /\ ring \in Area
         /\ \/ ring' = ring
            \/ at = "write" /\ Appended(ring, ring', wr_sector, Unreadable)
            \/ /\ at = "erase" /\ wr_sector = NextSector(newest)
               /\ wr_sector \in Sector
               /\ Erased(ring, ring', wr_sector)
<1>1. newest \in Sector /\ ring \in Area /\ wr_sector \in Sector
  BY TypeArea DEF IInv, Control, TypeOK, PowerLoss
<1>2. CASE ring' = ring
  BY <1>1, <1>2
<1>3. CASE at = "write" /\ ring' = [ring EXCEPT ![wr_sector] = Append(@, Unreadable)]
  BY <1>1, <1>3 DEF Appended, IInv, Control
<1>4. CASE at = "erase" /\ ring' = [ring EXCEPT ![wr_sector] = <<>>]
  <2>1. <<>> \in Seq(Entry) /\ Len(<<>>) <= Len(ring[wr_sector])
    BY <1>1, AreaIs
  <2>2. \A k \in 1..Len(<<>>) : FALSE
    OBVIOUS
  <2>3. 0 \in Nat /\ wr_sector = NextSector(newest)
    BY <1>4 DEF IInv, Control
  <2>4. PICK q \in Seq(Entry), j \in Nat : q = <<>> /\ j = 0
    BY <2>1, <2>3
  <2>5. \A k \in 1..Len(q) : q[k] = IF k <= j THEN Unreadable
                                    ELSE ring[wr_sector][k]
    BY <2>2, <2>4
  <2>6. Erased(ring, ring', wr_sector)
    BY <1>4, <2>4, <2>5 DEF Erased
  <2> QED BY <1>1, <1>4, <2>3, <2>6
<1>5. ASSUME at = "erase", NEW j \in 1..PerSector,
             ring' = [ring EXCEPT ![wr_sector] =
                        [k \in 1..Len(@) |-> IF k <= j THEN Unreadable ELSE @[k]]]
      PROVE  Erased(ring, ring', wr_sector)
  <2> DEFINE l == Len(ring[wr_sector])
             q == [k \in 1..l |-> IF k <= j THEN Unreadable ELSE ring[wr_sector][k]]
  <2>1. l \in Nat /\ ring[wr_sector] \in [1..l -> Entry]
    BY <1>1, AreaIs
  <2>2. ring' = [ring EXCEPT ![wr_sector] = q]
    BY <1>5
  <2> HIDE DEF l
  <2>3. q \in [1..l -> Entry]
    BY <2>1 DEF Entry
  <2>4. \A k \in 1..l : q[k] = IF k <= j THEN Unreadable ELSE ring[wr_sector][k]
    OBVIOUS
  <2> HIDE DEF q
  <2>5. q \in Seq(Entry) /\ Len(q) = l
    BY <2>1, <2>3
  <2>6. j \in Nat
    BY SettingsAssumption
  <2>7. Len(q) = Len(ring[wr_sector])
    BY <2>1, <2>5 DEF l
  <2>8. \A k \in 1..Len(q) :
          q[k] = IF k <= j THEN Unreadable ELSE ring[wr_sector][k]
    BY <2>4, <2>5
  <2> QED BY <2>2, <2>5, <2>6, <2>7, <2>8 DEF Erased
<1>6. at = "erase" => wr_sector = NextSector(newest)
  BY DEF IInv, Control
<1> QED BY <1>1, <1>2, <1>3, <1>4, <1>5, <1>6 DEF PowerLoss

LEMMA PowerLossInv ==
  ASSUME IInv, PowerLoss
  PROVE  IInv'
<1>1. /\ at' = "off" /\ wr_sector' = 0 /\ req' = NoReq /\ loading' = FALSE
      /\ NoLoad /\ newest' = newest
  BY DEF PowerLoss
<1>2. newest \in Sector /\ ring \in Area /\ newest # NSectors /\ 0 \in Sector
      /\ wr_sector \in Sector
  <2>1. newest \in Sector /\ ring \in Area
    BY PowerLossFlash
  <2> QED BY <2>1, SettingsAssumption DEF Sector, IInv, TypeOK
<1>3. ring' \in Area
  <2>1. PICK g \in {ring'} : TRUE
    OBVIOUS
  <2>2. CASE ring' = ring
    BY <1>2, <2>2
  <2>3. CASE Appended(ring, ring', wr_sector, Unreadable)
    <3>1. Unreadable \in Entry /\ Appended(ring, g, wr_sector, Unreadable)
      BY <2>1, <2>3 DEF Entry
    <3>2. PICK o : o = <<wr_sector, Len(ring[wr_sector]) + 1>>
      OBVIOUS
    <3>3. g \in Area
      BY <1>2, <3>1, <3>2, AppendFound
    <3> QED BY <2>1, <3>3
  <2>4. CASE Erased(ring, ring', wr_sector)
    <3>0. PICK q \in Seq(Entry) : /\ g = [ring EXCEPT ![wr_sector] = q]
                                  /\ q = <<>> \/ Len(q) = Len(ring[wr_sector])
      BY <2>1, <2>4 DEF Erased
    <3>1. Len(ring[wr_sector]) <= PerSector /\ Len(ring[wr_sector]) \in Nat
      BY <1>2, AreaIs, SettingsAssumption
    <3>2. Len(q) <= PerSector
      BY <3>0, <3>1, SettingsAssumption
    <3>3. g \in Area
      BY <1>2, <3>0, <3>2, AreaSet
    <3> QED BY <2>1, <3>3
  <2> QED BY <2>2, <2>3, <2>4, PowerLossFlash
<1>4. TypeOK'
  BY <1>1, <1>2, <1>3, NoLoadType, TypeArea DEF IInv, TypeOK, Area, Entry
<1>5. Control' /\ Told'
  BY <1>1, <1>2, NoLoadType DEF Control, Saving, Told, Walking
<1> QED BY <1>4, <1>5 DEF IInv

LEMMA StepInv ==
  ASSUME IInv, [Next]_vars
  PROVE  IInv'
<1>1. CASE UNCHANGED vars
  <2>1. UNCHANGED <<ring, newest, at, wr_sector, req, loading, loc, handed, excused>>
    BY <1>1 DEF vars, load
  <2>2. TypeOK' /\ Control'
    BY <2>1 DEF IInv, TypeOK, Control, Saving
  <2>3. Walking => \A n \in Names \ excused : Right(n)'
    BY <2>1, RightStays DEF IInv, Told
  <2>4. Told'
    BY <2>1, <2>3 DEF Told, Walking
  <2> QED BY <2>2, <2>4 DEF IInv
<1> QED BY <1>1, BackendInitInv, LoadInv, SaveInv, EraseInv, InitSectorInv,
           CloseInv, NextEntryInv, SectorEndInv, FsEndInv, ReturnsInv,
           PowerLossInv DEF Next

-----------------------------------------------------------------------------
(* Theorems                                                                *)

THEOREM Invariance == Spec => []IInv
<1>1. IInv /\ [Next]_vars => IInv'
  BY StepInv
<1> QED BY InitInv, <1>1, PTL DEF Spec

(* An entry is only added where there is space, the walk never leaves a    *)
(* sector, whatever the handlers save meanwhile.                           *)
THEOREM TypeCorrect == Spec => []TypeOK
<1>1. IInv => TypeOK
  BY DEF IInv
<1> QED BY Invariance, <1>1, PTL

(* A load that returns has given each handler the value that is stored.    *)
THEOREM LoadsCurrent == Spec => []LoadIsCurrent
<1>1. IInv => LoadIsCurrent
  <2> SUFFICES ASSUME IInv, at = "loaded", NEW n \in Names \ excused
               PROVE  handed[n] = Stored(n)
    BY DEF LoadIsCurrent
  <2>1. /\ Right(n) /\ newest = wr_sector /\ wr_sector \in Sector
        /\ loc.sector = wr_sector /\ loc.n = Len(ring[wr_sector])
        /\ ring \in Area
    BY TypeArea DEF IInv, Told, Walking, Control
  <2>2. Stored(n) = StoredIn(ring, wr_sector, n)
    BY <2>1, StoredAs
  <2>3. CASE Named(ring, n) = {}
    BY <2>1, <2>2, <2>3, StoredIs DEF Right
  <2>4. CASE Named(ring, n) # {}
    <3>1. PICK e \in Named(ring, n) : IsLast(ring, wr_sector, n, e)
      BY <2>1, <2>4, HasLast
    <3>2. e \in Found(ring)
      BY DEF Named
    <3>3. /\ e[1] \in Sector /\ e[2] \in Int /\ e[2] <= Len(ring[e[1]])
          /\ Len(ring[wr_sector]) \in Int
      BY <2>1, <3>2, FoundIs, AreaIs
    <3>4. /\ Age(wr_sector, e[1]) \in 0..NSectors - 1
          /\ Age(wr_sector, wr_sector) = NSectors - 1
      BY <2>1, <3>3, AgeIs, AgeOrder
    <3>5. ~ Later(wr_sector, <<loc.sector, loc.n>>, e)
      BY <2>1, <3>3, <3>4, SettingsAssumption DEF Later
    <3>6. handed[n] = ring[e[1]][e[2]].content
      BY <2>1, <3>1, <3>5 DEF Right, Met
    <3> QED BY <2>1, <2>2, <3>1, <3>6, StoredIs
  <2> QED BY <2>3, <2>4
<1> QED BY Invariance, <1>1, PTL
-----------------------------------------------------------------------------
(* settings_sfcb_save implements Lossy: steps of the flash as steps of     *)
(* what is stored.                                                         *)

Store == [n \in Names |-> Stored(n)]

StoreIn(r, w) == [n \in Names |-> StoredIn(r, w, n)]

Forgotten(t, u) ==
  \E ids \in SUBSET Names : u = [n \in Names |-> IF n \in ids THEN Missing
                                                 ELSE t[n]]

LEMMA StoreIs ==
  /\ Store = StoreIn(ring, newest)
  /\ Store' = StoreIn(ring', newest')
<1>1. \A n : Stored(n) = StoredIn(ring, newest, n)
  BY StoredAs
<1>2. \A n : Stored(n)' = StoredIn(ring', newest', n)
  BY DEF Stored, StoredIn, Readable, NameOf, EntryAt, Named, Found
<1> QED BY <1>1, <1>2 DEF Store, StoreIn

LEMMA ForgetNone ==
  ASSUME NEW r, NEW w
  PROVE  Forgotten(StoreIn(r, w), StoreIn(r, w))
<1>1. {} \in SUBSET Names
  OBVIOUS
<1>2. StoreIn(r, w) = [n \in Names |-> IF n \in {} THEN Missing
                                       ELSE StoreIn(r, w)[n]]
  BY DEF StoreIn
<1> QED BY <1>1, <1>2 DEF Forgotten

LEMMA ForgetStore ==
  ASSUME NEW r, NEW g, NEW w \in Sector, Dropped(r, g, w)
  PROVE  Forgotten(StoreIn(r, w), StoreIn(g, w))
<1> DEFINE ids == {n \in Names : StoredIn(g, w, n) # StoredIn(r, w, n)}
<1>1. \A n \in Names : StoredIn(g, w, n) \in {StoredIn(r, w, n), Missing}
  BY DropStored
<1>2. ids \in SUBSET Names
  OBVIOUS
<1>3. \A n \in Names : StoreIn(g, w)[n] = IF n \in ids THEN Missing
                                          ELSE StoreIn(r, w)[n]
  BY <1>1 DEF StoreIn
<1>4. StoreIn(g, w) = [n \in Names |-> StoreIn(g, w)[n]]
  BY DEF StoreIn
<1> HIDE DEF ids
<1>5. StoreIn(g, w) = [n \in Names |-> IF n \in ids THEN Missing
                                       ELSE StoreIn(r, w)[n]]
  BY <1>3, <1>4
<1> QED BY <1>2, <1>5 DEF Forgotten

(* The sector after the write sector holds the oldest entries.             *)
LEMMA EraseDrops ==
  ASSUME NEW r \in Area, NEW w \in Sector, NEW g, NEW s,
         s = NextSector(w), Erased(r, g, s)
  PROVE  Dropped(r, g, w)
<1>0. PICK q \in Seq(Entry), j \in Nat :
        /\ g = [r EXCEPT ![s] = q]
        /\ q = <<>> \/ Len(q) = Len(r[s])
        /\ \A k \in 1..Len(q) : q[k] = IF k <= j THEN Unreadable ELSE r[s][k]
  BY DEF Erased
<1>1. s \in Sector /\ Age(w, s) = 0
  BY NextIs, AgeOrder
<1>2. /\ r[s] \in Seq(Entry) /\ Len(r[s]) \in Int
      /\ 0 <= Len(r[s]) /\ Len(r[s]) <= PerSector
  BY <1>1, AreaIs, SettingsAssumption
<1>3. Len(q) \in Int /\ (Len(q) = 0 \/ Len(q) = Len(r[s]))
  BY <1>0
<1>4. g[s] = q /\ \A t \in Sector : t # s => g[t] = r[t]
  BY <1>0, <1>1 DEF Area
<1>5. ASSUME NEW e \in Found(g)
      PROVE  /\ e \in Found(r) /\ g[e[1]][e[2]] = r[e[1]][e[2]]
             /\ e[1] = s => e[2] > j /\ Len(q) = Len(r[s])
  <2>1. /\ e \in Sector \X (1..PerSector) /\ e[1] \in Sector /\ e[2] \in Int
        /\ e[2] >= 1 /\ e[2] <= Len(g[e[1]]) /\ g[e[1]][e[2]] # Unreadable
    BY SettingsAssumption DEF Found
  <2>2. CASE e[1] # s
    BY <1>4, <2>1, <2>2 DEF Found
  <2>3. CASE e[1] = s
    <3>1. e[2] \in 1..Len(q) /\ q[e[2]] # Unreadable
      BY <1>3, <1>4, <2>1, <2>3
    <3>2. e[2] > j /\ q[e[2]] = r[s][e[2]]
      BY <1>0, <2>1, <3>1
    <3>3. Len(q) = Len(r[s])
      BY <1>3, <3>1
    <3> QED BY <1>4, <2>1, <2>3, <3>1, <3>2, <3>3 DEF Found
  <2> QED BY <2>2, <2>3
<1>6. ASSUME NEW e \in Found(g), NEW d \in Found(r), Later(w, e, d)
      PROVE  d \in Found(g)
  <2>1. /\ d \in Sector \X (1..PerSector) /\ d[1] \in Sector /\ d[2] \in Int
        /\ d[2] >= 1 /\ d[2] <= Len(r[d[1]]) /\ r[d[1]][d[2]] # Unreadable
    BY SettingsAssumption DEF Found
  <2>2. CASE d[1] # s
    BY <1>4, <2>1, <2>2 DEF Found
  <2>3. CASE d[1] = s
    <3>1. e[1] \in Sector /\ e[2] \in Int
      BY SettingsAssumption DEF Found
    <3>2. Age(w, e[1]) \in 0..NSectors - 1
      BY <3>1, AgeIs
    <3>3. ~ (Age(w, d[1]) > Age(w, e[1]))
      BY <1>1, <2>3, <3>2, SettingsAssumption
    <3>4. e[1] = s /\ d[2] > e[2]
      BY <1>6, <2>3, <3>3 DEF Later
    <3>5. d[2] > j /\ Len(q) = Len(r[s])
      <4>1. e[2] > j /\ Len(q) = Len(r[s])
        BY <1>5, <3>4
      <4> QED BY <2>1, <3>1, <3>4, <4>1
    <3>6. d[2] \in 1..Len(q)
      BY <1>3, <2>1, <2>3, <3>5
    <3>7. q[d[2]] = r[s][d[2]]
      BY <1>0, <2>1, <3>5, <3>6
    <3> QED BY <1>3, <1>4, <2>1, <2>3, <3>6, <3>7 DEF Found
  <2> QED BY <2>2, <2>3
<1> QED BY <1>5, <1>6 DEF Dropped

(* A new sector without entries changes nothing.                           *)
LEMMA NewSectorKeeps ==
  ASSUME NEW r \in Area, NEW v \in Sector, NEW w, w = NextSector(v),
         r[w] = <<>>
  PROVE  StoreIn(r, w) = StoreIn(r, v)
<1>1. w \in Sector
  BY NextIs
<1>2. ASSUME NEW n PROVE StoredIn(r, w, n) = StoredIn(r, v, n)
  <2>1. \A e \in Named(r, n) : e[1] \in Sector /\ e[1] # w
    BY SettingsAssumption DEF Named, Found
  <2>2. \A t \in Sector : /\ Age(v, t) \in Int /\ Age(w, t) \in Int
                          /\ t # w => Age(w, t) = Age(v, t) - 1
    BY <1>1, AgeIs, AgeOrder, SettingsAssumption
  <2>3. \A e \in Named(r, n), d \in Named(r, n) :
          Later(v, e, d) <=> Later(w, e, d)
    BY <2>1, <2>2 DEF Later
  <2> QED BY <1>1, <2>3, SameStored
<1> QED BY <1>2 DEF StoreIn

LEMMA AppendStores ==
  ASSUME NEW r \in Area, NEW w \in Sector, NEW x \in Entry, NEW g,
         Appended(r, g, w, x)
  PROVE  /\ x # Unreadable
              => StoreIn(g, w) = [StoreIn(r, w) EXCEPT ![x.name] = x.content]
         /\ x = Unreadable => StoreIn(g, w) = StoreIn(r, w)
<1>1. ASSUME NEW n
      PROVE  \/ /\ x # Unreadable /\ n = x.name
                /\ StoredIn(g, w, n) = x.content
             \/ /\ x # Unreadable => n # x.name
                /\ StoredIn(g, w, n) = StoredIn(r, w, n)
  <2>1. \/ /\ x # Unreadable /\ n = x.name
           /\ IsLast(g, w, n, <<w, Len(r[w]) + 1>>)
           /\ StoredIn(g, w, n) = x.content
        \/ /\ x # Unreadable => n # x.name
           /\ Named(g, n) = Named(r, n)
           /\ \A e \in Named(r, n) : g[e[1]][e[2]] = r[e[1]][e[2]]
           /\ \A e : IsLast(g, w, n, e) <=> IsLast(r, w, n, e)
           /\ StoredIn(g, w, n) = StoredIn(r, w, n)
    BY AppendLast
  <2> QED BY <2>1
<1>2. x # Unreadable => x.name \in Names
  BY DEF Entry
<1>3. ASSUME x # Unreadable
      PROVE  StoreIn(g, w) = [StoreIn(r, w) EXCEPT ![x.name] = x.content]
  BY <1>1, <1>2, <1>3 DEF StoreIn
<1>4. ASSUME x = Unreadable PROVE StoreIn(g, w) = StoreIn(r, w)
  BY <1>1, <1>4 DEF StoreIn
<1> QED BY <1>3, <1>4

-----------------------------------------------------------------------------
(* What each step does to what is stored and to the save under way.        *)

LEMMA InitStored == Init => Store = [n \in Names |-> Missing]
<1> SUFFICES ASSUME Init PROVE Store = [n \in Names |-> Missing]
  OBVIOUS
<1>1. Found(ring) = {}
  BY DEF Init, Found
<1>2. \A n : Named(ring, n) = {}
  BY <1>1 DEF Named
<1>3. \A n : StoredIn(ring, newest, n) = Missing
  BY <1>2, StoredIs
<1> QED BY <1>3, StoreIs DEF StoreIn

LEMMA BackendInitStored ==
  ASSUME IInv, BackendInit
  PROVE  Store' = Store /\ req' = req
<1>1. ring' = ring /\ req' = req
  BY DEF BackendInit
<1>2. CASE newest = NSectors
  <2>1. Found(ring) = {}
    BY <1>2 DEF IInv, Control
  <2>2. \A n : Named(ring, n) = {}
    BY <2>1 DEF Named
  <2>3. \A n, v : StoredIn(ring, v, n) = Missing
    BY <2>2, StoredIs
  <2> QED BY <1>1, <2>3, StoreIs DEF StoreIn
<1>3. CASE newest # NSectors
  BY <1>1, <1>3, StoreIs DEF BackendInit
<1> QED BY <1>1, <1>2, <1>3

LEMMA EraseStored ==
  ASSUME IInv, Erase
  PROVE  Forgotten(Store, Store') /\ req' = req
<1>1. /\ ring' = [ring EXCEPT ![wr_sector] = <<>>]
      /\ newest' = newest /\ req' = req
      /\ ring \in Area /\ newest \in Sector
      /\ wr_sector = NextSector(newest)
  BY TypeArea DEF Erase, IInv, Control
<1>2. PICK g \in {ring'}, s \in {wr_sector} : TRUE
  OBVIOUS
<1>3. Erased(ring, g, s)
  <2>1. <<>> \in Seq(Entry) /\ 0 \in Nat /\ g = [ring EXCEPT ![s] = <<>>]
    BY <1>1, <1>2
  <2>2. \A k \in 1..Len(<<>>) : <<>>[k] = IF k <= 0 THEN Unreadable
                                          ELSE ring[s][k]
    OBVIOUS
  <2> QED BY <2>1, <2>2 DEF Erased
<1>4. Dropped(ring, g, newest)
  BY <1>1, <1>2, <1>3, EraseDrops
<1>5. Forgotten(StoreIn(ring, newest), StoreIn(g, newest))
  BY <1>1, <1>4, ForgetStore
<1> QED BY <1>1, <1>2, <1>5, StoreIs

LEMMA InitSectorStored ==
  ASSUME IInv, InitSector
  PROVE  Store' = Store /\ req' = req
<1>1. /\ newest \in Sector /\ wr_sector = NextSector(newest)
      /\ ring[wr_sector] = <<>> /\ ring \in Area
      /\ newest' = wr_sector /\ req' = req
  BY TypeArea DEF InitSector, IInv, Control
<1>2. ring' = ring
  BY InitSectorInv
<1>3. StoreIn(ring, wr_sector) = StoreIn(ring, newest)
  BY <1>1, NewSectorKeeps
<1> QED BY <1>1, <1>2, <1>3, StoreIs

LEMMA CloseStored ==
  ASSUME IInv, Close
  PROVE  /\ req \in Setting /\ req' = NoReq
         /\ \/ Store' = [Store EXCEPT ![req.name] = req.content]
            \/ Store' = Store
            \/ "value" \in WriteErrors
<1>1. PICK x : Ends(x) /\ Appended(ring, ring', wr_sector, x)
  BY CloseFacts
<1>2. /\ newest = wr_sector /\ wr_sector \in Sector /\ ring \in Area
      /\ req \in Setting
  BY CloseFacts
<1>3. req' = NoReq /\ newest' = newest
  BY DEF Close
<1>4. PICK g \in {ring'} : TRUE
  OBVIOUS
<1>5. Appended(ring, g, wr_sector, x)
  BY <1>1, <1>4
<1>6. Store = StoreIn(ring, wr_sector) /\ Store' = StoreIn(g, wr_sector)
  BY <1>2, <1>3, <1>4, StoreIs
<1>7. CASE x = req
  <2>1. x \in Entry /\ x # Unreadable
    BY <1>1, <1>2, <1>7, EndsIs, SettingsAssumption DEF Setting, Content
  <2>2. StoreIn(g, wr_sector)
          = [StoreIn(ring, wr_sector) EXCEPT ![x.name] = x.content]
    BY <1>2, <1>5, <1>7, <2>1, AppendStores
  <2> QED BY <1>2, <1>3, <1>6, <1>7, <2>2
<1>8. CASE x = Unreadable
  <2>1. x \in Entry
    BY <1>8 DEF Entry
  <2>2. StoreIn(g, wr_sector) = StoreIn(ring, wr_sector)
    BY <1>2, <1>5, <1>8, <2>1, AppendStores
  <2> QED BY <1>2, <1>3, <1>6, <2>2
<1> QED BY <1>1, <1>2, <1>3, <1>7, <1>8 DEF Ends

LEMMA PowerLossStored ==
  ASSUME IInv, PowerLoss
  PROVE  Forgotten(Store, Store') /\ req' = NoReq
<1>1. newest' = newest /\ req' = NoReq /\ newest \in Sector /\ ring \in Area
  BY PowerLossFlash DEF PowerLoss
<1>2. PICK g \in {ring'} : TRUE
  OBVIOUS
<1>3. Store = StoreIn(ring, newest) /\ Store' = StoreIn(g, newest)
  BY <1>1, <1>2, StoreIs
<1>4. CASE g = ring
  BY <1>1, <1>3, <1>4, ForgetNone
<1>5. CASE at = "write" /\ Appended(ring, ring', wr_sector, Unreadable)
  <2>1. newest = wr_sector
    BY <1>5 DEF IInv, Control
  <2>2. Unreadable \in Entry /\ Appended(ring, g, newest, Unreadable)
    BY <1>2, <1>5, <2>1 DEF Entry
  <2>4. StoreIn(g, newest) = StoreIn(ring, newest)
    BY <1>1, <2>2, AppendStores
  <2> QED BY <1>1, <1>3, <2>4, ForgetNone
<1>6. CASE wr_sector = NextSector(newest) /\ Erased(ring, ring', wr_sector)
  <2>1. PICK s \in {wr_sector} : TRUE
    OBVIOUS
  <2>2. Erased(ring, g, s) /\ s = NextSector(newest)
    BY <1>2, <1>6, <2>1
  <2>3. Dropped(ring, g, newest)
    BY <1>1, <2>2, EraseDrops
  <2> QED BY <1>1, <1>3, <2>3, ForgetStore
<1> QED BY <1>1, <1>2, <1>4, <1>5, <1>6, PowerLossFlash

-----------------------------------------------------------------------------
(* A save is written at once, and an older value never comes back, nor     *)
(* does a deleted setting, whatever is cut off, whatever the handlers save *)
(* during a load and whether or not the write of a name fails: at worst a  *)
(* setting is lost.  The write of a value must not fail: the entry is      *)
(* closed all the same, and its garbage replaces the value stored before.  *)
THEOREM NothingComesBack == "value" \notin WriteErrors /\ Spec => NeverBack
<1> SUFFICES ASSUME "value" \notin WriteErrors
             PROVE  Spec => NeverBack
  OBVIOUS
<1>1. Init => Lossy!Init
  <2> SUFFICES ASSUME Init PROVE Lossy!Init
    OBVIOUS
  <2>1. Pending = NoReq
    BY DEF Init, Pending
  <2> QED BY <2>1, InitStored DEF Lossy!Init, Store
<1>2. IInv /\ [Next]_vars => [Lossy!Next]_Lossy!vars
  <2> SUFFICES ASSUME IInv, [Next]_vars
               PROVE  [Lossy!Next]_Lossy!vars
    OBVIOUS
  <2>1. ASSUME Forgotten(Store, Store')
        PROVE  \E ids \in SUBSET (Names \ {}) : Store' = Lossy!Without(ids)
    BY <2>1 DEF Forgotten, Lossy!Without, Store
  <2>2. ASSUME Store' = Store, req' = req PROVE [Lossy!Next]_Lossy!vars
    BY <2>2 DEF Lossy!vars, Store, Pending
  <2>3. ASSUME UNCHANGED <<ring, newest, req>> PROVE [Lossy!Next]_Lossy!vars
    BY <2>2, <2>3, StoreIs
  <2>4. ASSUME NEW r \in Setting, Save(r) PROVE Lossy!Next
    <3>1. /\ req = NoReq /\ req' = r /\ UNCHANGED <<ring, newest>>
      BY <2>4 DEF Save, IInv, Control, Saving
    <3>2. r.name \in Names /\ r.content \in Content /\ r # NoReq
      BY SettingsAssumption DEF Setting, Content
    <3>3. Pending = NoReq /\ Pending' = [id |-> r.name, content |-> r.content]
      BY <3>1, <3>2 DEF Pending
    <3>4. Store' = Store
      BY <3>1, StoreIs
    <3> QED BY <3>2, <3>3, <3>4 DEF Lossy!Next, Lossy!Begin, Store
  <2>5. ASSUME Close PROVE [Lossy!Next]_Lossy!vars
    <3>1. /\ req.name \in Names /\ req.content \in Content /\ req # NoReq
          /\ req' = NoReq
      BY <2>5, CloseStored, SettingsAssumption DEF Setting, Content
    <3>2. /\ Pending = [id |-> req.name, content |-> req.content]
          /\ Pending # NoReq /\ Pending' = NoReq
      BY <3>1, SettingsAssumption DEF Pending, Content
    <3>3. CASE Store' = [Store EXCEPT ![req.name] = req.content]
      <4>1. Lossy!Commit
        BY <3>2, <3>3 DEF Lossy!Commit, Store
      <4> QED BY <4>1 DEF Lossy!Next
    <3>4. CASE Store' = Store
      <4>1. Forgotten(Store, Store')
        BY <3>4, ForgetNone, StoreIs
      <4>2. Lossy!Abort
        BY <2>1, <3>2, <4>1 DEF Lossy!Abort, Store
      <4> QED BY <4>2 DEF Lossy!Next
    <3> QED BY <2>5, <3>3, <3>4, CloseStored
  <2>6. ASSUME Erase PROVE Lossy!Next
    <3>1. Pending' = Pending
      BY <2>6, EraseStored DEF Pending
    <3>2. Lossy!Forget
      BY <2>1, <2>6, <3>1, EraseStored DEF Lossy!Forget, Store
    <3> QED BY <3>2 DEF Lossy!Next
  <2>7. ASSUME PowerLoss PROVE Lossy!Next
    <3>1. Pending' = NoReq
      BY <2>7, PowerLossStored DEF Pending
    <3>2. Lossy!Abort
      BY <2>1, <2>7, <3>1, PowerLossStored DEF Lossy!Abort, Store
    <3> QED BY <3>2 DEF Lossy!Next
  <2>8. ASSUME Load \/ NextEntry \/ SectorEnd \/ FsEnd \/ HandlerReturns
                 \/ LoadReturns \/ UNCHANGED vars
        PROVE  UNCHANGED <<ring, newest, req>>
    BY <2>8 DEF Load, NextEntry, SectorEnd, FsEnd, HandlerReturns,
                LoadReturns, vars
  <2> QED BY <2>2, <2>3, <2>4, <2>5, <2>6, <2>7, <2>8, BackendInitStored,
             InitSectorStored DEF Next
<1> QED BY Invariance, <1>1, <1>2, PTL DEF Spec, NeverBack, Lossy!Spec
=============================================================================
