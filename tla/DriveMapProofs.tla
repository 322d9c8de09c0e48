--------------------------- MODULE DriveMapProofs ---------------------------
(***************************************************************************)
(* Proofs about DriveMap, for all disks, memories, commands and lengths of *)
(* the table.  Everything rests on what a slot may say: MapInv.  An image  *)
(* is inside the BIOS's disk it is on, a disk in memory inside one region; *)
(* a slot gets this from the slot of the drive that it maps (map_func), or *)
(* from the place found for it, and keeps it when others go.  That every   *)
(* step is one of DriveTable needs two facts more: no number has two       *)
(* slots (Distinct), and the room found for a copy is in no disk of the    *)
(* table (RoomIsFree).                                                     *)
(***************************************************************************)
EXTENDS DriveMap, FiniteSetTheorems, NaturalsInduction, WellFoundedInduction, TLAPS

---------------------------------------------------------------------------
(* Numbers and sequences. *)

Less == {p \in Nat \X Nat : p[1] < p[2]}

LEMMA LessWellFounded == IsWellFoundedOn(Less, Nat)
BY NatLessThanWellFounded DEF Less, OpToRel

LEMMA Least ==
  ASSUME NEW S \in SUBSET Nat, S # {}
  PROVE  Min(S) \in S /\ \A x \in S : Min(S) <= x
<1>1. PICK m \in S : \A y \in S : ~(<<y, m>> \in Less)
  BY LessWellFounded, WFMin
<1>2. ASSUME NEW y \in S PROVE m <= y
  <2>1. m \in Nat /\ y \in Nat /\ ~(<<y, m>> \in Less)
    BY <1>1
  <2>2. ~(y < m)
    BY <2>1 DEF Less
  <2> QED
    BY <2>1, <2>2
<1> QED
  BY <1>2 DEF Min

LEMMA RoundsDown ==
  ASSUME NEW p \in Nat \ {0}, NEW b \in Nat, NEW x \in Nat, b <= x, b % p = 0
  PROVE  x - (x % p) \in Nat /\ b <= x - (x % p) /\ x - (x % p) <= x
<1>1. PICK q \in Nat, r \in Nat : x = p * q + r /\ r < p /\ r = x % p
  <2>1. x % p \in 0 .. p - 1
    BY SMT
  <2>2. x = p * (x \div p) + (x % p) /\ x \div p \in Nat
    BY SMT
  <2>3. PICK q \in Nat : q = x \div p
    BY <2>2
  <2>4. PICK r \in Nat : r = x % p /\ r < p
    BY <2>1
  <2> QED
    BY <2>2, <2>3, <2>4
<1>2. PICK k \in Nat : b = p * k
  <2>1. b \div p \in Nat /\ b = p * (b \div p) + (b % p)
    BY SMT
  <2> QED
    BY <2>1
<1>3. k <= q
  <2>1. SUFFICES ASSUME q + 1 <= k PROVE FALSE
    OBVIOUS
  <2>2. p * (q + 1) <= p * k
    BY <2>1, SMT
  <2>3. p * (q + 1) = p * q + p
    BY SMT
  <2> QED
    BY <1>1, <1>2, <2>2, <2>3, SMT
<1>4. p * k <= p * q /\ p * q \in Nat
  BY <1>3, SMT
<1> QED
  BY <1>1, <1>2, <1>4, SMT

LEMMA First ==
  ASSUME NEW S, NEW map \in Seq(S), NEW d
  PROVE  \/ FirstIn(map, d) = 0 /\ \A j \in 1 .. Len(map) : map[j].from # d
         \/ FirstIn(map, d) \in 1 .. Len(map) /\ map[FirstIn(map, d)].from = d
<1> DEFINE I == {i \in 1 .. Len(map) : map[i].from = d}
<1>1. FirstIn(map, d) = IF I # {} THEN Min(I) ELSE 0
  BY DEF FirstIn, SelectInSeq
<1>2. I \in SUBSET Nat
  OBVIOUS
<1>3. I # {} => Min(I) \in I
  BY <1>2, Least
<1> QED
  BY <1>1, <1>3

LEMMA ElementOfSeq ==
  ASSUME NEW S, NEW q \in Seq(S), NEW i \in DOMAIN q
  PROVE  q[i] \in S
OBVIOUS

LEMMA Shrinks ==
  ASSUME NEW S, NEW map \in Seq(S), NEW kept \in SUBSET (1 .. Len(map)),
         NEW place \in [1 .. Cardinality(kept) -> kept]
  PROVE  [k \in DOMAIN place |-> map[place[k]]] \in Seq(S)
<1>1. Cardinality(kept) \in Nat
  <2>1. IsFiniteSet(1 .. Len(map))
    BY FS_Interval
  <2> QED
    BY <2>1, FS_Subset, FS_CardinalityType
<1>2. PICK n \in Nat : n = Cardinality(kept)
  BY <1>1
<1>3. place \in [1 .. n -> 1 .. Len(map)] /\ DOMAIN place = 1 .. n
  BY <1>2
<1>4. [k \in 1 .. n |-> map[place[k]]] \in [1 .. n -> S]
  <2>1. ASSUME NEW k \in 1 .. n PROVE map[place[k]] \in S
    <3>1. PICK m \in 1 .. Len(map) : m = place[k]
      BY <1>3
    <3> QED
      BY <3>1
  <2> QED
    BY <2>1
<1>5. [k \in 1 .. n |-> map[place[k]]] \in Seq(S)
  BY <1>4
<1> QED
  BY <1>3, <1>5

---------------------------------------------------------------------------
(* What a slot may say. *)

SlotType == [from : Numbers, to : Numbers \cup {Mem}, start : Nat, count : Nat,
             spt : Nat, ro : BOOLEAN, nolba : BOOLEAN, safe : BOOLEAN]

\* The whole of TO: an empty piece, or one of one sector at the beginning.
All(start, count) == start = 0 /\ count \div 2 = 0
InRegion(start, count) ==
  \E i \in DOMAIN Regions : Regions[i].base <= start /\ start + count <= Regions[i].top
Fits(to, start, count) ==
  IF to = Mem THEN start > 0 /\ InRegion(start, count)
  ELSE All(start, count) \/ start + count <= BiosSize[to]
GoodSlot == {s \in SlotType : Fits(s.to, s.start, s.count)}

MapInv == /\ mapTable \in Seq(GoodSlot) /\ hookedMap \in Seq(GoodSlot)
          /\ int13 \in BOOLEAN

LEMMA MapInvInit == MapInit => MapInv
<1> SUFFICES ASSUME MapInit PROVE MapInv
  OBVIOUS
<1>1. <<>> \in Seq(GoodSlot)
  OBVIOUS
<1> QED
  BY <1>1 DEF MapInit, MapInv

LEMMA NumberIs ==
  ASSUME NEW d \in Numbers
  PROVE  d \in 0 .. 254 /\ d # Mem /\ BiosSize[d] \in Nat
BY DriveMapAssumption DEF Mem

LEMMA SlotIsGood ==
  ASSUME NEW from \in Numbers, NEW to \in Numbers \cup {Mem}, NEW start \in Nat,
         NEW count \in Nat, NEW spt \in Nat, NEW o \in OptionType, Fits(to, start, count)
  PROVE  Slot(from, to, start, count, spt, o) \in GoodSlot
BY DEF Slot, GoodSlot, SlotType, OptionType

LEMMA TakesSlot ==
  ASSUME mapTable \in Seq(GoodSlot), NEW s \in GoodSlot
  PROVE  WithSlot(s) \in Seq(GoodSlot)
BY First DEF WithSlot

LEMMA DeleteKeeps ==
  ASSUME MapInv, NEW c, Delete(c)
  PROVE  MapInv'
<1>1. hookedMap' = hookedMap /\ int13' = int13
  BY DEF Delete, Ask
<1>2. mapTable' \in Seq(GoodSlot)
  <2>1. CASE mapTable' = mapTable
    BY <2>1 DEF MapInv
  <2>2. CASE \E kept \in SUBSET (DOMAIN mapTable) : ClosesUp(kept)
    <3>1. PICK kept \in SUBSET (1 .. Len(mapTable)) : ClosesUp(kept)
      BY <2>2 DEF MapInv
    <3>2. PICK place \in [1 .. Cardinality(kept) -> kept] :
            mapTable' = [k \in DOMAIN place |-> mapTable[place[k]]]
      BY <3>1 DEF ClosesUp
    <3> QED
      BY <3>2, Shrinks DEF MapInv
  <2> QED
    BY <2>1, <2>2 DEF Delete
<1> QED
  BY <1>1, <1>2 DEF MapInv

\* What the drive that a command maps is made of.
LEMMA SeenSlot ==
  ASSUME MapInv, NEW d \in Numbers, FirstIn(hookedMap, d) # 0
  PROVE  hookedMap[FirstIn(hookedMap, d)] \in GoodSlot
BY First DEF MapInv

LEMMA ExtentLength ==
  ASSUME NEW to \in Numbers \cup {Mem}, NEW start \in Nat, NEW count \in Nat
  PROVE  Len(Extent(to, start, count)) =
           IF ~All(start, count) THEN count ELSE IF to = Mem THEN 0 ELSE BiosSize[to]
BY DriveMapAssumption DEF Extent, All

LEMMA SeenLength ==
  ASSUME MapInv, NEW d \in Numbers
  PROVE  Len(SeenSectors(d)) \in Nat
<1>1. CASE int13 /\ FirstIn(hookedMap, d) # 0
  <2>1. hookedMap[FirstIn(hookedMap, d)] \in GoodSlot
    BY <1>1, SeenSlot
  <2> QED
    BY <1>1, <2>1, ExtentLength, DriveMapAssumption DEF SeenSectors, GoodSlot, SlotType
<1>2. CASE ~(int13 /\ FirstIn(hookedMap, d) # 0)
  BY <1>2, ExtentLength, DriveMapAssumption DEF SeenSectors
<1> QED
  BY <1>1, <1>2

LEMMA ResolvedFits ==
  ASSUME MapInv, NEW c \in Commands
  PROVE  LET r == Resolved(c)
         IN  /\ r.to \in Numbers \cup {Mem} /\ r.start \in Nat /\ r.o \in OptionType
             /\ r.to # Mem /\ (\/ c.img.start + c.img.count <= Len(SeenSectors(c.to))
                               \/ c.img.count = 0 /\ c.img.start = 0)
                  => Fits(r.to, r.start, c.img.count)
<1> DEFINE i == FirstIn(hookedMap, c.to)
           s == hookedMap[i]
           r == Resolved(c)
<1>1. /\ c.to \in Numbers /\ c.from \in Numbers /\ c.o \in OptionType
      /\ c.img.start \in Nat /\ c.img.count \in Nat
  BY DriveMapAssumption DEF CommandType, ImageType
<1>2. BiosSize[c.to] \in Nat /\ c.to # Mem
  <2>1. c.to \in 0 .. 254 /\ BiosSize \in [Numbers -> Nat]
    BY <1>1, DriveMapAssumption
  <2> QED
    BY <1>1, <2>1 DEF Mem
<1>3. CASE int13 /\ i # 0
  <2>1. s \in GoodSlot
    BY <1>1, <1>3, SeenSlot
  <2>2. /\ s.to \in Numbers \cup {Mem} /\ s.start \in Nat /\ s.count \in Nat
        /\ s.spt \in Nat /\ s.ro \in BOOLEAN /\ s.nolba \in BOOLEAN
        /\ Fits(s.to, s.start, s.count)
    BY <2>1 DEF GoodSlot, SlotType
  <2>3. /\ r.to = s.to /\ r.start = c.img.start + s.start
        /\ r.o = [c.o EXCEPT !.nochs = @ \/ s.spt = 0, !.fake = @ \/ s.count % 2 = 1,
                              !.ro = @ \/ (~(s.count % 2 = 1) /\ s.ro), !.nolba = @ \/ s.nolba]
    BY <1>3 DEF Resolved
  <2>4. r.o \in OptionType
    BY <1>1, <2>2, <2>3 DEF OptionType
  <2>5. Len(SeenSectors(c.to)) =
          IF ~All(s.start, s.count) THEN s.count ELSE IF s.to = Mem THEN 0 ELSE BiosSize[s.to]
    BY <1>3, <2>2, ExtentLength DEF SeenSectors
  <2>6. s.to # Mem => BiosSize[s.to] \in Nat
    BY <2>2, DriveMapAssumption
  <2>8. r.to \in Numbers \cup {Mem} /\ r.start \in Nat
    BY <1>1, <2>2, <2>3
  <2>7. SUFFICES ASSUME r.to # Mem,
                        \/ c.img.start + c.img.count <= Len(SeenSectors(c.to))
                        \/ c.img.count = 0 /\ c.img.start = 0
                 PROVE  Fits(r.to, r.start, c.img.count)
    BY <2>4, <2>8
  <2>9. CASE All(s.start, s.count)
    <3>1. s.start = 0 /\ r.start = c.img.start
      BY <1>1, <2>3, <2>9 DEF All
    <3>2. Len(SeenSectors(c.to)) = BiosSize[r.to]
      BY <2>3, <2>5, <2>7, <2>9
    <3>3. r.start + c.img.count <= BiosSize[r.to]
      <4>1. CASE c.img.start + c.img.count <= Len(SeenSectors(c.to))
        BY <3>1, <3>2, <4>1
      <4>2. CASE c.img.count = 0 /\ c.img.start = 0
        BY <2>3, <2>6, <2>7, <3>1, <4>2
      <4> QED
        BY <2>7, <4>1, <4>2
    <3> QED
      BY <2>7, <3>3 DEF Fits
  <2>10. CASE ~All(s.start, s.count)
    <3>1. s.start + s.count <= BiosSize[r.to] /\ Len(SeenSectors(c.to)) = s.count
      BY <2>2, <2>3, <2>5, <2>7, <2>10 DEF Fits
    <3>2. r.start + c.img.count <= BiosSize[r.to]
      <4>1. c.img.start + c.img.count <= s.count
        <5>1. CASE c.img.start + c.img.count <= Len(SeenSectors(c.to))
          BY <3>1, <5>1
        <5>2. CASE c.img.count = 0 /\ c.img.start = 0
          BY <2>2, <5>2
        <5> QED
          BY <2>7, <5>1, <5>2
      <4>2. PICK size \in Nat : size = BiosSize[r.to]
        BY <2>3, <2>6, <2>7
      <4>3. s.start + s.count <= size
        BY <3>1, <4>2
      <4>4. (c.img.start + s.start) + c.img.count <= size
        BY <1>1, <2>2, <4>1, <4>3
      <4> QED
        BY <2>3, <4>2, <4>4
    <3> QED
      BY <2>7, <3>2 DEF Fits
  <2> QED
    BY <2>9, <2>10
<1>4. CASE ~(int13 /\ i # 0)
  <2>1. Len(SeenSectors(c.to)) = BiosSize[c.to]
    BY <1>1, <1>2, <1>4, ExtentLength DEF SeenSectors, All
  <2>2. /\ r.to = c.to /\ r.start = c.img.start
        /\ r.o = c.o \/ r.o = [c.o EXCEPT !.nochs = TRUE]
    BY <1>4 DEF Resolved
  <2>3. r.o \in OptionType
    BY <1>1, <2>2 DEF OptionType
  <2> QED
    BY <1>1, <1>2, <2>1, <2>2, <2>3 DEF Fits, All
<1> QED
  BY <1>3, <1>4

LEMMA DirectKeeps ==
  ASSUME MapInv, NEW c \in Commands, MapDirect(c)
  PROVE  MapInv'
<1> DEFINE r == Resolved(c)
           s == Slot(c.from, r.to, r.start, c.img.count,
                     IF Whole(c) THEN 1 ELSE c.img.spt, r.o)
<1>1. CASE UNCHANGED mapTable /\ Ask(c, FALSE)
  BY <1>1 DEF MapInv, Ask
<1>2. CASE Delete(c)
  BY <1>2, DeleteKeeps
<1>3. CASE r.to # Mem /\ mapTable' = WithSlot(s) /\ Ask(c, TRUE)
  <2>1. /\ c.from \in Numbers /\ c.img.count \in Nat /\ c.img.spt \in Nat
        /\ Whole(c) => c.img.count = 0 /\ c.img.start = 0
    BY DriveMapAssumption DEF CommandType, ImageType, Whole
  <2>2. /\ r.to \in Numbers \cup {Mem} /\ r.start \in Nat /\ r.o \in OptionType
        /\ Fits(r.to, r.start, c.img.count)
    BY <1>3, <2>1, ResolvedFits DEF MapDirect, ImageOpens
  <2>3. s \in GoodSlot
    BY <2>1, <2>2, SlotIsGood
  <2> QED
    BY <1>3, <2>3, TakesSlot DEF MapInv, Ask
<1> QED
  BY <1>1, <1>2, <1>3 DEF MapDirect

LEMMA RegionType ==
  ASSUME NEW i \in DOMAIN Regions
  PROVE  Regions[i].base \in Nat /\ Regions[i].top \in Nat
<1> DEFINE Region == [base : Nat, top : Nat]
<1>1. Regions \in Seq(Region)
  BY DriveMapAssumption
<1>2. Regions[i] \in Region
  <2> HIDE DEF Region
  <2> QED
    BY <1>1, ElementOfSeq
<1> QED
  BY <1>2

\* No place is in two regions.
LEMMA RegionsApart ==
  ASSUME NEW h \in DOMAIN Regions, NEW k \in DOMAIN Regions, NEW a \in Nat,
         Regions[h].base <= a, a < Regions[h].top, Regions[k].base <= a, a < Regions[k].top
  PROVE  h = k
<1>1. h \in Nat /\ k \in Nat
  <2>1. Regions \in Seq([base : Nat, top : Nat])
    BY DriveMapAssumption
  <2> QED
    BY <2>1
<1>2. \A i, j \in DOMAIN Regions : i < j => Regions[i].top <= Regions[j].base
  BY DriveMapAssumption
<1>3. /\ Regions[h].base \in Nat /\ Regions[h].top \in Nat
      /\ Regions[k].base \in Nat /\ Regions[k].top \in Nat
  BY RegionType
<1>4. ~(h < k) /\ ~(k < h)
  BY <1>2, <1>3
<1> QED
  BY <1>1, <1>4

\* A disk in memory is placed in the region it was found room in, below the
\* disks that are there.
LEMMA BaseInRegion ==
  ASSUME MapInv, NEW i \in DOMAIN Regions, NEW total \in Nat,
         Base(Regions[i], total) >= MinEmuBase
  PROVE  /\ Base(Regions[i], total) \in Nat \ {0}
         /\ Fits(Mem, Base(Regions[i], total), total)
         /\ Regions[i].base <= Base(Regions[i], total)
         /\ Base(Regions[i], total) + total <= Regions[i].top
         /\ \A k \in 1 .. Len(mapTable) :
              mapTable[k].to = Mem /\ mapTable[k].start \in Regions[i].base..Regions[i].top - 1
                => Base(Regions[i], total) + total <= mapTable[k].start
<1> DEFINE r == Regions[i]
           S == {r.top} \cup {mapTable[k].start : k \in
                  {j \in DOMAIN mapTable : mapTable[j].to = Mem /\ mapTable[j].start \in r.base..r.top - 1}}
<1>1. r.base \in Nat /\ r.top \in Nat /\ r.base % Page = 0
  BY RegionType, DriveMapAssumption
<1>2. S \in SUBSET Nat
  BY <1>1 DEF MapInv, GoodSlot, SlotType
<1>3. PICK below \in Nat : below = Below(r) /\ below <= r.top /\ \A x \in S : below <= x
  <2>1. Below(r) = Min(S) /\ r.top \in S
    BY DEF Below
  <2>2. Min(S) \in S /\ \A x \in S : Min(S) <= x
    <3> HIDE DEF S
    <3> QED
      BY <1>2, <2>1, Least
  <2> HIDE DEF S
  <2>3. Min(S) \in Nat
    BY <1>2, <2>2
  <2> QED
    BY <2>1, <2>2, <2>3
<1>4. MinEmuBase \in Nat \ {0} /\ Page \in Nat \ {0}
  BY DriveMapAssumption
<1>5. below - r.base >= total
  BY <1>3, <1>4 DEF Base
<1>6. Base(r, total) = (below - total) - ((below - total) % Page)
  BY <1>3, <1>5 DEF Base
<1>7. PICK x \in Nat : x = below - total /\ r.base <= x
  BY <1>1, <1>5
<1>8. /\ x - (x % Page) \in Nat /\ r.base <= x - (x % Page) /\ x - (x % Page) <= x
  BY <1>1, <1>4, <1>7, RoundsDown
<1>9. PICK b \in Nat : b = Base(r, total) /\ r.base <= b /\ b <= x
  BY <1>6, <1>7, <1>8
<1>10. b > 0 /\ b + total <= r.top
  BY <1>1, <1>3, <1>4, <1>7, <1>9
<1>11. ASSUME NEW k \in 1 .. Len(mapTable), mapTable[k].to = Mem,
              mapTable[k].start \in r.base .. r.top - 1
       PROVE  b + total <= mapTable[k].start
  <2>1. mapTable[k].start \in S
    <3>1. k \in DOMAIN mapTable
      BY DEF MapInv
    <3>2. k \in {j \in DOMAIN mapTable :
                  mapTable[j].to = Mem /\ mapTable[j].start \in r.base..r.top - 1}
      BY <1>11, <3>1
    <3> QED
      BY <3>2
  <2>2. PICK start \in Nat : start = mapTable[k].start /\ below <= start
    BY <1>2, <1>3, <2>1
  <2> QED
    BY <1>7, <1>9, <2>2
<1> QED
  BY <1>9, <1>10, <1>11 DEF Fits, InRegion

LEMMA MaxOfThree ==
  ASSUME NEW a \in Nat, NEW b \in Nat, NEW c \in Nat
  PROVE  Max({a, b, c}) \in Nat /\ a <= Max({a, b, c})
<1>1. \E m \in {a, b, c} : \A x \in {a, b, c} : m >= x
  OBVIOUS
<1> QED
  BY <1>1 DEF Max

LEMMA NeededIsNumber ==
  ASSUME NEW c \in Commands, NEW n \in Nat
  PROVE  Needed(c, n) \in Nat
<1>1. c.reserve \in Nat /\ c.img.room \in Nat /\ Ahead(c) \in Nat
  BY DriveMapAssumption DEF CommandType, ImageType, Ahead
<1>2. PICK m \in Nat : m = Max({n, c.reserve, c.img.room})
  BY <1>1, MaxOfThree
<1> QED
  BY <1>1, <1>2 DEF Needed, RoundUp

LEMMA MemoryKeeps ==
  ASSUME MapInv, NEW c \in Commands, MapMemory(c)
  PROVE  MapInv'
<1> DEFINE n == IF c.img.whole THEN Len(SeenSectors(c.to)) ELSE c.img.count
           total == Needed(c, n)
           base == Base(Regions[Min(Fitting(total))], total)
           s == Slot(c.from, Mem, base, total, c.img.spt, Resolved(c).o)
<1>1. CASE UNCHANGED mapTable /\ Ask(c, FALSE)
  BY <1>1 DEF MapInv, Ask
<1>2. CASE mapTable' = WithSlot(s) /\ Ask(c, TRUE) /\ Fitting(total) # {}
  <2>1. c.from \in Numbers /\ c.to \in Numbers /\ c.img.count \in Nat /\ c.img.spt \in Nat
    BY DriveMapAssumption DEF CommandType, ImageType
  <2>2. Len(SeenSectors(c.to)) \in Nat
    BY <2>1, SeenLength
  <2>3. n \in Nat
    BY <2>1, <2>2
  <2>4. total \in Nat
    BY <2>3, NeededIsNumber
  <2>5. Fitting(total) \in SUBSET Nat
    BY DriveMapAssumption DEF Fitting
  <2>6. Min(Fitting(total)) \in Fitting(total)
    BY <1>2, <2>5, Least
  <2>7. base \in Nat /\ Fits(Mem, base, total)
    BY <2>4, <2>6, BaseInRegion DEF Fitting
  <2>8. s \in GoodSlot
    BY <2>1, <2>4, <2>7, ResolvedFits, SlotIsGood
  <2> QED
    BY <1>2, <2>8, TakesSlot DEF MapInv, Ask
<1> QED
  BY <1>1, <1>2 DEF MapMemory

LEMMA MapInvNext == MapInv /\ [MapNext]_mapVars => MapInv'
<1> SUFFICES ASSUME MapInv, [MapNext]_mapVars PROVE MapInv'
  OBVIOUS
<1>1. ASSUME NEW c \in Commands, MapDelete(c) PROVE MapInv'
  BY <1>1, DeleteKeeps DEF MapDelete, MapInv, Ask
<1>2. ASSUME NEW c \in Commands, MapDirect(c) PROVE MapInv'
  BY <1>2, DirectKeeps
<1>3. ASSUME NEW c \in Commands, MapMemory(c) PROVE MapInv'
  BY <1>3, MemoryKeeps
<1>4. CASE HookMap
  BY <1>4 DEF HookMap, MapInv
<1>5. CASE UnhookMap
  BY <1>5 DEF UnhookMap, MapInv
<1>6. ASSUME NEW d \in Numbers, WriteThrough(Request(d, "lba", TRUE, 1, 1)) PROVE MapInv'
  BY <1>6 DEF WriteThrough, MapInv
<1>7. CASE UNCHANGED mapVars
  BY <1>7 DEF mapVars, MapInv
<1> QED
  BY <1>1, <1>2, <1>3, <1>4, <1>5, <1>6, <1>7 DEF MapNext

\* Every slot of both tables is one that map_func could have meant: inside
\* the disk, or the region of memory, that it is on.
LEMMA SlotsStayGood == MapSpec => []MapInv
BY MapInvInit, MapInvNext, PTL DEF MapSpec

---------------------------------------------------------------------------
(* Memory. *)

\* No memory that a disk of the handler is in is given to the operating
\* system, wherever map_func placed it and whatever was deleted since
\* (MemoryReserved, int15_e820_handler).
THEOREM MemoryStaysReserved == MapSpec => []MemoryReserved
<1>1. ASSUME MapInv PROVE MemoryReserved
  <2> SUFFICES ASSUME int13, NEW i \in DOMAIN hookedMap, hookedMap[i].to = Mem,
                      NEW a \in hookedMap[i].start .. hookedMap[i].start + hookedMap[i].count - 1,
                      NEW k \in DOMAIN Regions, a \in Reported(Regions[k])
               PROVE  FALSE
    BY DEF MemoryReserved, OsMemory, ToSet
  <2> DEFINE s == hookedMap[i]
             r == Regions[k]
             S == {r.top} \cup {hookedMap[m].start : m \in
                    {j \in DOMAIN hookedMap : hookedMap[j].to = Mem /\ hookedMap[j].start \in r.base..r.top - 1}}
  <2>1. s.start \in Nat /\ s.count \in Nat /\ InRegion(s.start, s.count)
    BY <1>1 DEF MapInv, GoodSlot, SlotType, Fits
  <2>2. PICK h \in DOMAIN Regions :
          Regions[h].base <= s.start /\ s.start + s.count <= Regions[h].top
    BY <2>1 DEF InRegion
  <2>3. /\ r.base \in Nat /\ r.top \in Nat
        /\ Regions[h].base \in Nat /\ Regions[h].top \in Nat
    BY RegionType
  <2>4. S \in SUBSET Nat
    <3>1. \A j \in DOMAIN hookedMap : hookedMap[j].start \in Nat
      BY <1>1 DEF MapInv, GoodSlot, SlotType
    <3> QED
      BY <2>3, <3>1
  <2>5. Min(S) \in Nat /\ \A x \in S : Min(S) <= x
    BY <2>4, Least
  <2>6. a \in r.base .. Min(S) - 1 /\ r.top \in S
    BY DEF Reported
  <2>7. PICK m \in Nat : m = Min(S) /\ \A x \in S : m <= x
    BY <2>5
  <2>8. a \in Nat /\ a < m /\ a < r.top /\ r.base <= a
    <3> HIDE DEF S
    <3>1. a \in r.base .. m - 1 /\ m <= r.top
      BY <2>6, <2>7
    <3> QED
      BY <2>3, <3>1
  <2>9. Regions[h].base <= a /\ a < Regions[h].top
    BY <2>1, <2>2, <2>3, <2>8
  <2>10. h = k
    BY <2>3, <2>8, <2>9, RegionsApart
  <2>11. s.start \in S
    <3>1. s.start \in r.base .. r.top - 1
      BY <2>1, <2>2, <2>3, <2>10
    <3> QED
      BY <3>1
  <2>12. s.start <= a
    BY <2>1
  <2>13. m <= s.start
    BY <2>7, <2>11
  <2> QED
    BY <2>1, <2>8, <2>12, <2>13
<1> QED
  BY <1>1, SlotsStayGood, PTL

---------------------------------------------------------------------------
(* Requests. *)

\* What a disk of these sectors answers to a request that it allows.
Answers(secs, at, n, out) ==
  IF Len(secs) - at <= 0 THEN out = Ends("failed", <<>>)
  ELSE IF n <= Len(secs) - at THEN out = Ends("done", SubSeq(secs, at + 1, at + n))
  ELSE \/ out = Ends("failed", SubSeq(secs, at + 1, Len(secs)))
       \/ out = Ends("failed", <<>>)

LEMMA PieceOf ==
  ASSUME NEW to, NEW start \in Nat, NEW len \in Nat, NEW at \in Nat, NEW n \in Nat,
         at + n <= len, NEW first \in Nat, first = start + at,
         NEW q, q = [i \in 1 .. len |-> <<to, start + i - 1>>]
  PROVE  SubSeq(q, at + 1, at + n) = [i \in 1 .. n |-> <<to, first + i - 1>>]
<1>1. SubSeq(q, at + 1, at + n) = [i \in 1 .. n |-> q[at + i]]
  OBVIOUS
<1>2. ASSUME NEW i \in 1 .. n PROVE q[at + i] = <<to, first + i - 1>>
  OBVIOUS
<1> QED
  BY <1>1, <1>2

LEMMA WholeAnswers ==
  ASSUME NEW to \in Numbers, NEW start, NEW count, All(start, count),
         NEW at \in Nat, NEW n \in Nat \ {0}
  PROVE  Answers(Extent(to, start, count), at, n, Reach(to, at, n))
<1>1. to # Mem /\ BiosSize[to] \in Nat
  <2>1. to \in 0 .. 254 /\ BiosSize \in [Numbers -> Nat]
    BY DriveMapAssumption
  <2> QED
    BY <2>1 DEF Mem
<1>2. PICK len \in Nat : len = BiosSize[to]
  BY <1>1
<1>3. Extent(to, start, count) = [i \in 1 .. len |-> <<to, 0 + i - 1>>]
  BY <1>1, <1>2 DEF Extent, All
<1>4. Len(Extent(to, start, count)) = len
  BY <1>3
<1>5. CASE at + n <= len
  <2>1. Reach(to, at, n) = Ends("done", [i \in 1 .. n |-> <<to, at + i - 1>>])
    BY <1>1, <1>2, <1>5 DEF Reach
  <2>2. at \in Nat /\ at = 0 + at
    OBVIOUS
  <2>3. SubSeq(Extent(to, start, count), at + 1, at + n) = [i \in 1 .. n |-> <<to, at + i - 1>>]
    BY <1>3, <1>5, <2>2, PieceOf
  <2>4. ~(len - at <= 0) /\ n <= len - at
    BY <1>5
  <2> QED
    BY <1>4, <2>1, <2>3, <2>4 DEF Answers
<1>6. CASE ~(at + n <= len)
  BY <1>1, <1>2, <1>4, <1>6 DEF Reach, Answers
<1> QED
  BY <1>5, <1>6

LEMMA PieceAnswers ==
  ASSUME NEW s \in GoodSlot, ~All(s.start, s.count), NEW r, r.at \in Nat, r.n \in Nat \ {0}
  PROVE  Answers(Extent(s.to, s.start, s.count), r.at, r.n, Bounded(s, r))
<1> DEFINE secs == Extent(s.to, s.start, s.count)
<1>0. PICK first \in Nat, at \in Nat : first = s.start + r.at /\ at = r.at
  BY DEF GoodSlot, SlotType
<1>1. /\ s.to \in Numbers \cup {Mem} /\ s.start \in Nat /\ s.count \in Nat
      /\ s.to # Mem => s.start + s.count <= BiosSize[s.to] /\ BiosSize[s.to] \in Nat
  BY DriveMapAssumption DEF GoodSlot, SlotType, Fits
<1>2. secs = [i \in 1 .. s.count |-> <<s.to, s.start + i - 1>>] /\ Len(secs) = s.count
  BY <1>1 DEF Extent, All
<1>3. ASSUME NEW n \in Nat, r.at + n <= s.count
      PROVE  Reach(s.to, first, n) = Ends("done", SubSeq(secs, at + 1, at + n))
  <2>1. Reach(s.to, first, n) = Ends("done", [i \in 1 .. n |-> <<s.to, first + i - 1>>])
    <3>1. s.to = Mem \/ first + n <= BiosSize[s.to]
      BY <1>0, <1>1, <1>3
    <3> QED
      BY <3>1 DEF Reach
  <2>2. PICK start \in Nat, len \in Nat : start = s.start /\ len = s.count
    BY <1>1
  <2>3. at + n <= len
    BY <1>0, <1>3, <2>2
  <2>7. first = start + at
    BY <1>0, <2>2
  <2>4. PICK to : to = s.to
    OBVIOUS
  <2>5. secs = [i \in 1 .. len |-> <<to, start + i - 1>>]
    BY <1>2, <2>2, <2>4
  <2>6. SubSeq(secs, at + 1, at + n) = [i \in 1 .. n |-> <<to, first + i - 1>>]
    <3>1. SubSeq(secs, at + 1, at + n) = [i \in 1 .. n |-> secs[at + i]]
      BY <2>3, <2>5
    <3>2. ASSUME NEW i \in 1 .. n PROVE secs[at + i] = <<to, first + i - 1>>
      BY <2>3, <2>5, <2>7
    <3> QED
      BY <3>1, <3>2
  <2> QED
    BY <2>1, <2>4, <2>6
<1>4. CASE s.count <= r.at
  BY <1>1, <1>2, <1>4 DEF Bounded, Answers, All
<1>5. CASE ~(s.count <= r.at) /\ r.at + r.n <= s.count
  <2>1. Bounded(s, r) = Reach(s.to, first, r.n)
    BY <1>0, <1>5 DEF Bounded, All
  <2>2. ~(s.count - r.at <= 0) /\ r.n <= s.count - r.at
    BY <1>1, <1>5
  <2> QED
    BY <1>0, <1>2, <1>3, <1>5, <2>1, <2>2 DEF Answers
<1>6. CASE ~(s.count <= r.at) /\ ~(r.at + r.n <= s.count)
  <2>1. PICK n \in Nat : n = s.count - r.at /\ at + n = s.count
    BY <1>0, <1>1, <1>6
  <2>2. Bounded(s, r) = [Reach(s.to, first, n) EXCEPT !.status = "failed"]
    BY <1>0, <1>6, <2>1 DEF Bounded, All
  <2>3. Reach(s.to, first, n) = Ends("done", SubSeq(secs, at + 1, s.count))
    BY <1>1, <1>3, <2>1
  <2>4. Bounded(s, r) = Ends("failed", SubSeq(secs, r.at + 1, s.count))
    <3>1. PICK moved : moved = SubSeq(secs, r.at + 1, s.count)
      OBVIOUS
    <3>2. Reach(s.to, first, n) = [status |-> "done", moved |-> moved]
      BY <1>0, <2>3, <3>1 DEF Ends
    <3>3. Bounded(s, r) = [status |-> "failed", moved |-> moved]
      BY <2>2, <3>2
    <3> QED
      BY <3>1, <3>3 DEF Ends
  <2>5. ~(s.count - r.at <= 0) /\ ~(r.n <= s.count - r.at)
    BY <1>1, <1>6
  <2> QED
    BY <1>2, <2>4, <2>5 DEF Answers
<1> QED
  BY <1>4, <1>5, <1>6

\* What a disk in the table answers, its guard apart.
LEMMA SlotServes ==
  ASSUME NEW s \in GoodSlot, NEW d \in Numbers, s.from = d, NEW mode \in {"chs", "lba"},
         NEW write \in BOOLEAN, NEW at \in Nat, NEW n \in Nat \ {0}
  PROVE  LET r == Request(d, mode, write, at, n)
         IN  (IF Restricted(s, r) THEN Restriction(s, r)
              ELSE IF ~Emulated(s) THEN Reach(s.to, r.at, r.n)
              ELSE IF BootSector(s, r) THEN Ends("ignored", <<>>)
              ELSE Bounded(s, r)) \in DT!Serve(SlotDisk(s), r)
<1> DEFINE r == Request(d, mode, write, at, n)
           em == Emulated(s)
           secs == Extent(s.to, s.start, s.count)
           guard == IF ~em \/ s.ro \/ s.spt = 0 \/ ~s.safe THEN {}
                    ELSE {0} \cup IF Floppy(s.from) THEN {} ELSE {s.spt}
           disk == SlotDisk(s)
<1>1. /\ s.ro \in BOOLEAN /\ s.nolba \in BOOLEAN /\ s.safe \in BOOLEAN /\ s.spt \in Nat
      /\ s.start \in Nat /\ s.count \in Nat /\ s.to \in Numbers \cup {Mem}
      /\ Fits(s.to, s.start, s.count)
  BY DEF GoodSlot, SlotType
<1>2. r.mode = mode /\ r.write = write /\ r.at = at /\ r.n = n /\ r.drive = d
  BY DEF Request
<1> DEFINE allowed == IF r.mode = "lba" THEN disk.lba ELSE disk.chs
<1>3. /\ allowed <=> IF mode = "chs" THEN s.spt # 0 ELSE ~s.nolba
      /\ disk.kept <=> s.ro
      /\ disk.secs = secs /\ disk.guard = guard
  BY <1>1, <1>2 DEF SlotDisk
<1>4. CASE ~allowed
  <2>1. Restricted(s, r) /\ Restriction(s, r) = Ends("refused", <<>>)
    BY <1>2, <1>3, <1>4 DEF Restricted, Restriction
  <2>2. DT!Serve(disk, r) = {Ends("refused", <<>>)}
    BY <1>4 DEF DT!Serve, DT!Ends, Ends
  <2> QED
    BY <2>1, <2>2
<1>6. CASE allowed /\ r.write /\ disk.kept
  <2>1. Restricted(s, r)
    BY <1>2, <1>3, <1>6 DEF Restricted
  <2>2. Restriction(s, r) \in {Ends("refused", <<>>), Ends("ignored", <<>>)}
    BY DEF Restriction
  <2>3. DT!Serve(disk, r) = {Ends("refused", <<>>), Ends("ignored", <<>>)}
    BY <1>6 DEF DT!Serve, DT!Ends, Ends
  <2> QED
    BY <2>1, <2>2, <2>3
<1>7. ~Restricted(s, r) <=> allowed /\ ~(r.write /\ disk.kept)
  BY <1>1, <1>2, <1>3 DEF Restricted
<1>8. CASE ~Restricted(s, r) /\ em /\ BootSector(s, r)
  <2>1. r.write /\ r.mode = "chs" /\ r.n = 1 /\ r.at \in disk.guard
    BY <1>1, <1>2, <1>3, <1>7, <1>8 DEF BootSector
  <2>2. DT!Serve(disk, r) = {Ends("ignored", <<>>)}
    BY <1>7, <1>8, <2>1 DEF DT!Serve, DT!Ends, Ends
  <2> QED
    BY <1>8, <2>2
<1>5. CASE ~Restricted(s, r) /\ ~(em /\ BootSector(s, r))
  <2> DEFINE out == IF ~em THEN Reach(s.to, r.at, r.n) ELSE Bounded(s, r)
  <2>1. Answers(secs, at, n, out)
    <3>1. CASE All(s.start, s.count)
      <4>1. s.to \in Numbers
        BY <1>1, <3>1 DEF Fits, All
      <4>2. out = Reach(s.to, at, n)
        BY <1>2, <3>1 DEF Bounded, All
      <4> QED
        BY <3>1, <4>1, <4>2, WholeAnswers
    <3>2. CASE ~All(s.start, s.count)
      BY <1>2, <3>2, PieceAnswers DEF Emulated, All
    <3> QED
      BY <3>1, <3>2
  <2>2. ~(r.write /\ disk.kept) /\ allowed
    BY <1>5, <1>7
  <2>3. ~(r.write /\ r.mode = "chs" /\ r.n = 1 /\ r.at \in disk.guard)
    BY <1>1, <1>2, <1>3, <1>5 DEF BootSector
  <2>4. out \in DT!Serve(disk, r)
    BY <1>2, <1>3, <2>1, <2>2, <2>3 DEF Answers, DT!Serve, DT!Ends, Ends
  <2> QED
    BY <1>5, <2>4
<1> QED
  BY <1>4, <1>5, <1>6, <1>7, <1>8

\* ServesShown, of a request of any place and length.
ServesAll ==
  int13 => \A d \in Numbers, mode \in {"chs", "lba"}, write \in BOOLEAN, at \in Nat, n \in Nat \ {0} :
    LET r == Request(d, mode, write, at, n)
    IN  Int13(r) \in DT!Serve(ShownDisk[d], r)

LEMMA Serves ==
  ASSUME MapInv
  PROVE  ServesAll
<1> SUFFICES ASSUME int13, NEW d \in Numbers, NEW mode \in {"chs", "lba"},
                    NEW write \in BOOLEAN, NEW at \in Nat, NEW n \in Nat \ {0}
             PROVE  LET r == Request(d, mode, write, at, n)
                    IN  Int13(r) \in DT!Serve(ShownDisk[d], r)
  BY DEF ServesAll
<1> DEFINE r == Request(d, mode, write, at, n)
           i == FirstIn(hookedMap, d)
<1>1. r.mode = mode /\ r.write = write /\ r.at = at /\ r.n = n /\ r.drive = d
  BY DEF Request
<1>2. CASE i # 0
  <2>1. hookedMap[i] \in GoodSlot /\ hookedMap[i].from = d
    BY <1>2, First, SeenSlot DEF MapInv
  <2> QED
    BY <1>1, <1>2, <2>1, SlotServes DEF ShownDisk, DiskOf, Int13
<1>3. CASE i = 0
  <2>1. Answers(Extent(d, 0, 0), at, n, Reach(d, at, n))
    BY WholeAnswers DEF All
  <2>2. ShownDisk[d] = [secs |-> Extent(d, 0, 0), emulated |-> FALSE, kept |-> FALSE,
                        chs |-> TRUE, lba |-> TRUE, marked |-> FALSE, guard |-> {}]
    BY <1>3 DEF ShownDisk, DiskOf
  <2>3. Int13(r) = Reach(d, at, n)
    BY <1>1, <1>3 DEF Int13
  <2> QED
    BY <1>1, <2>1, <2>2, <2>3 DEF Answers, DT!Serve, DT!Ends, Ends
<1> QED
  BY <1>2, <1>3

\* The handler serves every request, of any place and length, on a disk of its
\* table as the disk promises, whatever the disk was made of (ServesShown,
\* int13_handler).
THEOREM HandlerServes == MapSpec => [](ServesShown /\ ServesAll)
<1>1. ASSUME MapInv PROVE ServesShown /\ ServesAll
  <2>1. ServesAll
    BY <1>1, Serves
  <2>2. \A at \in 0 .. 5, n \in 1 .. 2 : at \in Nat /\ n \in Nat \ {0}
    OBVIOUS
  <2> QED
    BY <2>1, <2>2 DEF ServesShown, ServesAll
<1> QED
  BY <1>1, SlotsStayGood, PTL

---------------------------------------------------------------------------
(* The disks of a table in which no number has two slots. *)

Distinct(map) == \A i, j \in 1 .. Len(map) : map[i].from = map[j].from => i = j

LEMMA DiskOfSlot ==
  ASSUME NEW S, NEW map \in Seq(S), Distinct(map), NEW i \in 1 .. Len(map)
  PROVE  DiskOf(map, map[i].from) = SlotDisk(map[i])
<1>1. PICK d : d = map[i].from
  OBVIOUS
<1>2. FirstIn(map, d) = i
  BY <1>1, First DEF Distinct
<1>3. i # 0
  OBVIOUS
<1> QED
  BY <1>1, <1>2, <1>3 DEF DiskOf

LEMMA DiskOfNone ==
  ASSUME NEW S, NEW map \in Seq(S), NEW d \in Numbers,
         \A i \in 1 .. Len(map) : map[i].from # d
  PROVE  DiskOf(map, d) = DT!BiosDisk(d)
<1>1. FirstIn(map, d) = 0
  BY First
<1>2. DiskOf(map, d) = [secs |-> Extent(d, 0, 0), emulated |-> FALSE, kept |-> FALSE,
                        chs |-> TRUE, lba |-> TRUE, marked |-> FALSE, guard |-> {}]
  BY <1>1 DEF DiskOf
<1> QED
  BY <1>2 DEF DT!BiosDisk

\* Two tables with the same slot for a number, or none, give it the same disk.
LEMMA SameDisk ==
  ASSUME NEW S, NEW old \in Seq(S), NEW new \in Seq(S), Distinct(old), Distinct(new),
         NEW d \in Numbers,
         \A i \in 1 .. Len(old) : old[i].from = d => \E j \in 1 .. Len(new) : new[j] = old[i],
         \A j \in 1 .. Len(new) : new[j].from = d => \E i \in 1 .. Len(old) : new[j] = old[i]
  PROVE  DiskOf(new, d) = DiskOf(old, d)
<1>1. CASE \E i \in 1 .. Len(old) : old[i].from = d
  <2>1. PICK i \in 1 .. Len(old) : old[i].from = d
    BY <1>1
  <2>2. PICK j \in 1 .. Len(new) : new[j] = old[i]
    BY <2>1
  <2>3. DiskOf(old, old[i].from) = SlotDisk(old[i])
    BY DiskOfSlot
  <2>4. DiskOf(new, new[j].from) = SlotDisk(new[j])
    BY DiskOfSlot
  <2> QED
    BY <2>1, <2>2, <2>3, <2>4
<1>2. CASE \A i \in 1 .. Len(old) : old[i].from # d
  <2>1. \A j \in 1 .. Len(new) : new[j].from # d
    BY <1>2
  <2> QED
    BY <1>2, <2>1, DiskOfNone
<1> QED
  BY <1>1, <1>2

\* map_func's slot changes the disk of its number alone.
LEMMA GivesSlot ==
  ASSUME mapTable \in Seq(GoodSlot), Distinct(mapTable), NEW s \in GoodSlot
  PROVE  /\ Distinct(WithSlot(s))
         /\ DiskOf(WithSlot(s), s.from) = SlotDisk(s)
         /\ \A d \in Numbers \ {s.from} : DiskOf(WithSlot(s), d) = DiskOf(mapTable, d)
<1> DEFINE i == FirstIn(mapTable, s.from)
<1>1. PICK map : map = WithSlot(s) /\ map \in Seq(GoodSlot)
  BY TakesSlot
<1>2. PICK n \in Nat : n = Len(mapTable)
  OBVIOUS
<1>3. PICK at \in 1 .. Len(map) :
        /\ map[at] = s /\ Len(map) >= n
        /\ \A j \in 1 .. n : mapTable[j].from = s.from <=> j = at
        /\ \A j \in 1 .. Len(map) : j # at => j \in 1 .. n /\ map[j] = mapTable[j]
        /\ \A j \in 1 .. n : j # at => map[j] = mapTable[j]
  <2>1. CASE i = 0
    <3>1. map = Append(mapTable, s)
      BY <1>1, <2>1 DEF WithSlot
    <3>2. \A j \in 1 .. n : mapTable[j].from # s.from
      BY <1>2, <2>1, First
    <3>3. Len(map) = n + 1 /\ map[n + 1] = s /\ \A j \in 1 .. n : map[j] = mapTable[j]
      BY <1>2, <3>1
    <3>4. PICK at \in 1 .. Len(map) : at = n + 1
      BY <3>3
    <3> QED
      BY <3>2, <3>3, <3>4
  <2>2. CASE i # 0
    <3>1. map = [mapTable EXCEPT ![i] = s]
      BY <1>1, <2>2 DEF WithSlot
    <3>2. i \in 1 .. n /\ mapTable[i].from = s.from
      BY <1>2, <2>2, First
    <3>3. Len(map) = n /\ map[i] = s /\ \A j \in 1 .. n : j # i => map[j] = mapTable[j]
      BY <1>2, <3>1, <3>2
    <3>4. \A j \in 1 .. n : mapTable[j].from = s.from <=> j = i
      BY <1>2, <3>2 DEF Distinct
    <3> QED
      BY <3>2, <3>3, <3>4
  <2> QED
    BY <2>1, <2>2
<1>4. Distinct(map)
  BY <1>2, <1>3 DEF Distinct
<1>5. DiskOf(map, s.from) = SlotDisk(s)
  BY <1>1, <1>3, <1>4, DiskOfSlot
<1>6. ASSUME NEW d \in Numbers \ {s.from}
      PROVE  DiskOf(map, d) = DiskOf(mapTable, d)
  <2>1. \A j \in 1 .. Len(mapTable) : mapTable[j].from = d =>
          \E k \in 1 .. Len(map) : map[k] = mapTable[j]
    <3> SUFFICES ASSUME NEW j \in 1 .. n, mapTable[j].from = d
                 PROVE  \E k \in 1 .. Len(map) : map[k] = mapTable[j]
      BY <1>2
    <3>1. j # at
      BY <1>3
    <3>2. j \in 1 .. Len(map) /\ map[j] = mapTable[j]
      BY <1>1, <1>3, <3>1
    <3> QED
      BY <3>2
  <2>2. \A k \in 1 .. Len(map) : map[k].from = d =>
          \E j \in 1 .. Len(mapTable) : map[k] = mapTable[j]
    BY <1>2, <1>3
  <2> QED
    BY <1>1, <1>4, <2>1, <2>2, SameDisk
<1> QED
  BY <1>1, <1>4, <1>5, <1>6

\* The slots that stay are those kept, every one of them.
LEMMA Closes ==
  ASSUME mapTable \in Seq(GoodSlot), Distinct(mapTable),
         NEW kept \in SUBSET (1 .. Len(mapTable)), ClosesUp(kept)
  PROVE  /\ mapTable' \in Seq(GoodSlot) /\ Distinct(mapTable')
         /\ \A k \in 1 .. Len(mapTable') : \E j \in kept : mapTable'[k] = mapTable[j]
         /\ \A j \in kept : \E k \in 1 .. Len(mapTable') : mapTable'[k] = mapTable[j]
<1>1. PICK place \in [1 .. Cardinality(kept) -> kept] :
        /\ \A j, k \in DOMAIN place : j < k => place[j] < place[k]
        /\ mapTable' = [k \in DOMAIN place |-> mapTable[place[k]]]
  BY DEF ClosesUp
<1>2. PICK map : map = mapTable'
  OBVIOUS
<1>3. IsFiniteSet(kept) /\ Cardinality(kept) \in Nat
  <2>1. Len(mapTable) \in Int /\ IsFiniteSet(1 .. Len(mapTable))
    BY FS_Interval
  <2> QED
    BY <2>1, FS_Subset, FS_CardinalityType
<1>4. PICK n \in Nat : n = Cardinality(kept)
  BY <1>3
<1>5. /\ place \in [1 .. n -> kept] /\ \A j, k \in 1 .. n : j < k => place[j] < place[k]
      /\ map = [k \in 1 .. n |-> mapTable[place[k]]]
  BY <1>1, <1>2, <1>4
<1>6. \A j, k \in 1 .. n : place[j] = place[k] => j = k
  <2> SUFFICES ASSUME NEW j \in 1 .. n, NEW k \in 1 .. n, place[j] = place[k], j # k
               PROVE  FALSE
    OBVIOUS
  <2>1. PICK p \in Nat : p = place[j] /\ p = place[k]
    <3>1. place[j] \in 1 .. Len(mapTable)
      BY <1>5
    <3> QED
      BY <3>1
  <2>2. j < k \/ k < j
    OBVIOUS
  <2> QED
    BY <1>5, <2>1, <2>2
<1>7. place \in Injection(1 .. n, kept)
  BY <1>5, <1>6 DEF Injection, IsInjective
<1>8. Cardinality(1 .. n) = n
  BY FS_Interval
<1>9. place \in Surjection(1 .. n, kept)
  BY <1>3, <1>4, <1>7, <1>8, FS_Injection
<1>10. \A j \in kept : \E k \in 1 .. n : place[k] = j
  BY <1>9 DEF Surjection
<1>11. map \in Seq(GoodSlot) /\ Len(map) = n
  <2>1. map \in Seq(GoodSlot)
    BY <1>1, <1>2, Shrinks
  <2> QED
    BY <1>5, <2>1
<1>12. Distinct(map)
  <2> SUFFICES ASSUME NEW j \in 1 .. n, NEW k \in 1 .. n, map[j].from = map[k].from
               PROVE  j = k
    BY <1>11 DEF Distinct
  <2>1. map[j] = mapTable[place[j]] /\ map[k] = mapTable[place[k]]
    BY <1>5
  <2>2. place[j] \in 1 .. Len(mapTable) /\ place[k] \in 1 .. Len(mapTable)
    BY <1>5
  <2>3. place[j] = place[k]
    BY <2>1, <2>2 DEF Distinct
  <2> QED
    BY <1>6, <2>3
<1>13. \A k \in 1 .. n : \E j \in kept : map[k] = mapTable[j]
  BY <1>5
<1>14. \A j \in kept : \E k \in 1 .. n : map[k] = mapTable[j]
  BY <1>5, <1>10
<1> QED
  BY <1>2, <1>11, <1>12, <1>13, <1>14

---------------------------------------------------------------------------
(* What a number shows. *)

LEMMA ExtentIs ==
  ASSUME NEW to \in Numbers \cup {Mem}, NEW start \in Nat, NEW count \in Nat
  PROVE  \E len \in Nat :
           /\ Extent(to, start, count) = [i \in 1 .. len |-> <<to, start + i - 1>>]
           /\ len = IF ~All(start, count) THEN count ELSE IF to = Mem THEN 0 ELSE BiosSize[to]
<1>1. CASE All(start, count)
  <2>1. PICK len \in Nat : len = IF to = Mem THEN 0 ELSE BiosSize[to]
    BY DriveMapAssumption
  <2>2. Extent(to, start, count) = [i \in 1 .. len |-> <<to, i - 1>>]
    BY <1>1, <2>1 DEF Extent, All
  <2>3. start = 0
    BY <1>1 DEF All
  <2>4. \A i \in 1 .. len : i - 1 = start + i - 1
    BY <2>3
  <2>5. Extent(to, start, count) = [i \in 1 .. len |-> <<to, start + i - 1>>]
    BY <2>2, <2>4
  <2> QED
    BY <1>1, <2>1, <2>5
<1>2. CASE ~All(start, count)
  BY <1>2 DEF Extent, All
<1> QED
  BY <1>1, <1>2

LEMMA ShownIs ==
  ASSUME MapInv, NEW d \in Numbers
  PROVE  ShownDisk[d] = IF int13 /\ FirstIn(hookedMap, d) # 0
                        THEN SlotDisk(hookedMap[FirstIn(hookedMap, d)]) ELSE DT!BiosDisk(d)
<1>1. CASE int13
  BY <1>1 DEF ShownDisk, DiskOf, DT!BiosDisk
<1>2. CASE ~int13
  <2>1. <<>> \in Seq(GoodSlot) /\ \A i \in 1 .. Len(<<>>) : <<>>[i].from # d
    OBVIOUS
  <2>2. DiskOf(<<>>, d) = DT!BiosDisk(d)
    BY <2>1, DiskOfNone
  <2> QED
    BY <1>2, <2>2 DEF ShownDisk
<1> QED
  BY <1>1, <1>2

LEMMA SeenIsShown ==
  ASSUME MapInv, NEW d \in Numbers
  PROVE  ShownDisk[d].secs = SeenSectors(d)
<1>1. CASE int13 /\ FirstIn(hookedMap, d) # 0
  <2>1. ShownDisk[d] = SlotDisk(hookedMap[FirstIn(hookedMap, d)])
    BY <1>1, ShownIs
  <2> QED
    BY <1>1, <2>1 DEF SeenSectors, SlotDisk
<1>2. CASE ~(int13 /\ FirstIn(hookedMap, d) # 0)
  <2>1. ShownDisk[d] = DT!BiosDisk(d)
    BY <1>2, ShownIs
  <2> QED
    BY <1>2, <2>1 DEF SeenSectors, DT!BiosDisk
<1> QED
  BY <1>1, <1>2

\* The options of a command are joined with what limits the drive it maps.
LEMMA ResolvedLimits ==
  ASSUME MapInv, NEW c \in Commands
  PROVE  LET o    == Resolved(c).o
             disk == ShownDisk[c.to]
         IN  /\ o \in OptionType /\ o.unsafe = c.o.unsafe
             /\ disk.kept \in BOOLEAN /\ disk.marked \in BOOLEAN
             /\ disk.chs \in BOOLEAN /\ disk.lba \in BOOLEAN
             /\ o.ro \/ o.fake <=> c.o.ro \/ c.o.fake \/ disk.kept \/ disk.marked
             /\ o.nolba <=> c.o.nolba \/ ~disk.lba
             /\ c.o.nochs \/ ~disk.chs => o.nochs
             /\ o.nochs => c.o.nochs \/ ~disk.chs \/ c.to = 0
<1> DEFINE i == FirstIn(hookedMap, c.to)
           s == hookedMap[i]
           o == Resolved(c).o
           disk == ShownDisk[c.to]
<1>1. c.to \in Numbers /\ c.o \in OptionType /\ o \in OptionType
  BY ResolvedFits, DriveMapAssumption DEF CommandType
<1>2. CASE int13 /\ i # 0
  <2>1. s \in GoodSlot
    BY <1>1, <1>2, SeenSlot
  <2>2. s.ro \in BOOLEAN /\ s.nolba \in BOOLEAN /\ s.spt \in Nat /\ s.count \in Nat
    BY <2>1 DEF GoodSlot, SlotType
  <2>3. o = [c.o EXCEPT !.nochs = @ \/ s.spt = 0, !.fake = @ \/ s.count % 2 = 1,
                        !.ro = @ \/ (~(s.count % 2 = 1) /\ s.ro), !.nolba = @ \/ s.nolba]
    BY <1>2 DEF Resolved
  <2>4. /\ disk.kept = s.ro /\ disk.marked = (s.count % 2 = 1)
        /\ disk.chs = (s.spt # 0) /\ disk.lba = ~s.nolba
    <3>1. disk = SlotDisk(s)
      BY <1>1, <1>2, ShownIs
    <3> QED
      BY <3>1 DEF SlotDisk
  <2>5. /\ o.unsafe = c.o.unsafe /\ o.nochs = (c.o.nochs \/ s.spt = 0)
        /\ o.fake = (c.o.fake \/ s.count % 2 = 1)
        /\ o.ro = (c.o.ro \/ (~(s.count % 2 = 1) /\ s.ro)) /\ o.nolba = (c.o.nolba \/ s.nolba)
    BY <1>1, <2>3 DEF OptionType
  <2> QED
    BY <1>1, <2>2, <2>4, <2>5
<1>3. CASE ~(int13 /\ i # 0)
  <2>1. disk.kept = FALSE /\ disk.marked = FALSE /\ disk.chs = TRUE /\ disk.lba = TRUE
    <3>1. disk = DT!BiosDisk(c.to)
      BY <1>1, <1>3, ShownIs
    <3> QED
      BY <3>1 DEF DT!BiosDisk
  <2>2. o = c.o \/ (c.to = 0 /\ o = [c.o EXCEPT !.nochs = TRUE])
    BY <1>3 DEF Resolved
  <2>3. /\ o.unsafe = c.o.unsafe /\ o.ro = c.o.ro /\ o.fake = c.o.fake /\ o.nolba = c.o.nolba
        /\ o.nochs = c.o.nochs \/ (c.to = 0 /\ o.nochs)
    BY <1>1, <2>2 DEF OptionType
  <2> QED
    BY <1>1, <2>1, <2>3
<1> QED
  BY <1>2, <1>3

LEMMA NewObeys ==
  ASSUME MapInv, NEW c \in Commands, NEW to \in Numbers \cup {Mem}, NEW start \in Nat,
         NEW count \in Nat, count % 2 = 1 <=> ~c.mem /\ c.img.count % 2 = 1,
         NEW spt \in Nat \ {0}, spt = DT!Track(c)
  PROVE  DT!Obeys(SlotDisk(Slot(c.from, to, start, count, spt, Resolved(c).o)),
                  ShownDisk[c.to], c)
<1> DEFINE o == Resolved(c).o
           disk == ShownDisk[c.to]
           s == Slot(c.from, to, start, count, spt, o)
           new == SlotDisk(s)
<1>1. /\ c.from \in Numbers /\ c.o.ro \in BOOLEAN /\ c.o.fake \in BOOLEAN
      /\ c.o.nolba \in BOOLEAN /\ c.o.nochs \in BOOLEAN /\ c.o.unsafe \in BOOLEAN
  BY DriveMapAssumption DEF CommandType, OptionType
<1>2. /\ o.ro \in BOOLEAN /\ o.fake \in BOOLEAN /\ o.nochs \in BOOLEAN
      /\ o.nolba \in BOOLEAN /\ o.unsafe \in BOOLEAN /\ o.unsafe = c.o.unsafe
      /\ disk.kept \in BOOLEAN /\ disk.marked \in BOOLEAN
      /\ disk.chs \in BOOLEAN /\ disk.lba \in BOOLEAN
      /\ o.ro \/ o.fake <=> c.o.ro \/ c.o.fake \/ disk.kept \/ disk.marked
      /\ o.nolba <=> c.o.nolba \/ ~disk.lba
      /\ c.o.nochs \/ ~disk.chs => o.nochs
      /\ o.nochs => c.o.nochs \/ ~disk.chs \/ c.to = 0
  BY ResolvedLimits DEF OptionType
<1>3. /\ s.ro = (o.ro \/ o.fake) /\ s.nolba = o.nolba /\ s.safe = (o.fake \/ ~o.unsafe)
      /\ s.spt = IF o.nochs THEN 0 ELSE spt
      /\ s.from = c.from /\ s.count = count
  BY DEF Slot
<1>4. /\ new.kept = s.ro /\ new.chs = (s.spt # 0) /\ new.lba = ~s.nolba
      /\ new.marked = (s.count % 2 = 1) /\ new.emulated = Emulated(s)
      /\ new.guard = IF ~Emulated(s) \/ s.ro \/ s.spt = 0 \/ ~s.safe THEN {}
                     ELSE {0} \cup IF Floppy(s.from) THEN {} ELSE {s.spt}
  BY DEF SlotDisk
<1>5. new.kept = (c.o.ro \/ c.o.fake \/ disk.kept \/ disk.marked)
  BY <1>1, <1>2, <1>3, <1>4
<1>6. new.lba = (disk.lba /\ ~c.o.nolba)
  BY <1>1, <1>2, <1>3, <1>4
<1>7. new.chs = ~o.nochs
  BY <1>2, <1>3, <1>4
<1>8. new.chs = (disk.chs /\ ~c.o.nochs) \/ (~new.chs /\ c.to = 0)
  BY <1>1, <1>2, <1>7
<1>9. new.marked = (~c.mem /\ c.img.count % 2 = 1)
  BY <1>3, <1>4
<1>10. new.guard = IF ~new.emulated \/ new.kept \/ ~new.chs \/ c.o.unsafe THEN {}
                   ELSE {0} \cup IF c.from \in {d \in Numbers : Floppy(d)} THEN {}
                                 ELSE {DT!Track(c)}
  <2>1. CASE ~Emulated(s) \/ s.ro \/ s.spt = 0
    BY <1>2, <1>3, <1>4, <2>1
  <2>2. CASE Emulated(s) /\ ~s.ro /\ s.spt # 0
    <3>1. ~o.ro /\ ~o.fake /\ ~o.nochs /\ s.spt = DT!Track(c)
      BY <1>2, <1>3, <2>2
    <3>2. ~s.safe <=> c.o.unsafe
      BY <1>1, <1>2, <1>3, <3>1
    <3>3. new.emulated /\ ~new.kept /\ new.chs
      BY <1>4, <2>2
    <3>4. CASE c.o.unsafe
      BY <1>4, <3>2, <3>4
    <3>5. CASE ~c.o.unsafe
      <4>1. new.guard = {0} \cup IF Floppy(c.from) THEN {} ELSE {DT!Track(c)}
        BY <1>3, <1>4, <2>2, <3>1, <3>2, <3>5
      <4> QED
        BY <1>1, <3>3, <3>5, <4>1
    <3> QED
      BY <3>4, <3>5
  <2> QED
    BY <2>1, <2>2
<1> QED
  BY <1>5, <1>6, <1>8, <1>9, <1>10 DEF DT!Obeys

---------------------------------------------------------------------------
(* Every step of DriveMap is one of DriveTable. *)

TableInv == /\ MapInv /\ Distinct(mapTable)
            /\ stored = [p \in AllPlaces |-> stored[p]]

LEMMA DiskIs ==
  ASSUME NEW map \in Seq(GoodSlot), NEW d \in Numbers
  PROVE  \/ DiskOf(map, d) = DT!BiosDisk(d)
         \/ \E j \in 1 .. Len(map) : map[j].from = d /\ DiskOf(map, d) = SlotDisk(map[j])
BY First DEF DiskOf, DT!BiosDisk

LEMMA MemoryPlaces ==
  ASSUME NEW s \in GoodSlot, s.to = Mem
  PROVE  /\ SlotDisk(s).secs = [k \in 1 .. s.count |-> <<Mem, s.start + k - 1>>]
         /\ SlotDisk(s).emulated
         /\ DT!Places(SlotDisk(s)) = {<<Mem, a>> : a \in s.start .. s.start + s.count - 1}
         /\ DT!Places(SlotDisk(s)) \subseteq {<<Mem, a>> : a \in MemSectors}
<1>1. s.start \in Nat \ {0} /\ s.count \in Nat /\ InRegion(s.start, s.count)
  BY DEF GoodSlot, SlotType, Fits
<1>2. PICK start \in Nat \ {0}, count \in Nat : start = s.start /\ count = s.count
  BY <1>1
<1>3. SlotDisk(s).secs = [k \in 1 .. count |-> <<Mem, start + k - 1>>]
  BY <1>2 DEF SlotDisk, Extent
<1>4. SlotDisk(s).emulated
  BY <1>2 DEF SlotDisk, Emulated
<1>5. DT!Places(SlotDisk(s)) = {<<Mem, a>> : a \in start .. start + count - 1}
  <2>1. DT!Places(SlotDisk(s)) = {<<Mem, start + k - 1>> : k \in 1 .. count}
    BY <1>3 DEF DT!Places
  <2>2. ASSUME NEW k \in 1 .. count PROVE start + k - 1 \in start .. start + count - 1
    OBVIOUS
  <2>3. ASSUME NEW a \in start .. start + count - 1
        PROVE  \E k \in 1 .. count : a = start + k - 1
    <3>1. a - start + 1 \in 1 .. count /\ a = start + (a - start + 1) - 1
      OBVIOUS
    <3> QED
      BY <3>1
  <2> QED
    BY <2>1, <2>2, <2>3
<1>6. ASSUME NEW a \in start .. start + count - 1 PROVE a \in MemSectors
  <2>1. PICK h \in DOMAIN Regions : Regions[h].base <= start /\ start + count <= Regions[h].top
    BY <1>1, <1>2 DEF InRegion
  <2>2. Regions[h].base \in Nat /\ Regions[h].top \in Nat
    BY RegionType
  <2>3. a \in Regions[h].base .. Regions[h].top - 1
    BY <2>1, <2>2
  <2> QED
    BY <2>3 DEF MemSectors, ToSet
<1> QED
  BY <1>2, <1>3, <1>4, <1>5, <1>6

LEMMA Carried ==
  ASSUME NEW c, command' = [op |-> "map", c |-> c, done |-> TRUE], DT!Map(c)
  PROVE  DT!Command
BY DEF DT!Command

LEMMA Refused ==
  ASSUME NEW c, command' = [op |-> "map", c |-> c, done |-> FALSE], DT!Fails
  PROVE  DT!Command
BY DEF DT!Command

LEMMA NothingHappens ==
  ASSUME UNCHANGED <<mapTable, hookedMap, int13, stored>>
  PROVE  DT!Fails
BY DEF DT!Fails, ShownDisk

\* The disk of one number is new, and what the numbers show is what it was.
LEMMA GivesOne ==
  ASSUME NEW c \in Commands, UNCHANGED <<hookedMap, int13>>,
         \A d \in Numbers \ {c.from} : DiskOf(mapTable', d) = DiskOf(mapTable, d),
         DT!Obeys(DiskOf(mapTable', c.from), ShownDisk[c.to], c)
  PROVE  DT!Gives(c)
<1>1. c.from \in Numbers
  BY DriveMapAssumption DEF CommandType
<1>2. ShownDisk' = ShownDisk
  BY DEF ShownDisk
<1> QED
  BY <1>1, <1>2 DEF DT!Gives

\* What delete_drive_map_slot leaves: the numbers of the slots that went are
\* the BIOS's again, those that went with the slot of FROM were in memory.
LEMMA Deleted ==
  ASSUME TableInv, NEW c \in Commands, Delete(c)
  PROVE  /\ UNCHANGED <<hookedMap, int13>> /\ Distinct(mapTable')
         /\ \/ UNCHANGED mapTable /\ command' = [op |-> "map", c |-> c, done |-> FALSE]
            \/ /\ command' = [op |-> "map", c |-> c, done |-> TRUE]
               /\ \E gone \in SUBSET Numbers :
                    /\ c.from \in gone
                    /\ \A d \in Numbers : DiskOf(mapTable', d) =
                         IF d \in gone THEN DT!BiosDisk(d) ELSE DiskOf(mapTable, d)
                    /\ \A d \in gone \ {c.from} :
                         c.mem /\ DT!Places(DiskOf(mapTable, d)) \subseteq {<<Mem, a>> : a \in MemSectors}
<1> DEFINE i == FirstIn(mapTable, c.from)
           memory == i # 0 /\ mapTable[i].to = Mem
           removed == {i} \cup IF memory THEN LaterMem(i) ELSE {}
<1>1. mapTable \in Seq(GoodSlot) /\ Distinct(mapTable) /\ c.from \in Numbers
  BY DriveMapAssumption DEF TableInv, MapInv, CommandType
<1>2. UNCHANGED <<hookedMap, int13>>
  BY DEF Delete, Ask
<1>3. CASE i = 0
  <2>1. UNCHANGED mapTable /\ command' = [op |-> "map", c |-> c, done |-> TRUE]
    BY <1>3 DEF Delete, Ask
  <2>2. DiskOf(mapTable, c.from) = DT!BiosDisk(c.from)
    BY <1>1, <1>3, First, DiskOfNone
  <2>3. {c.from} \in SUBSET Numbers
    BY <1>1
  <2>4. \A d \in Numbers : DiskOf(mapTable', d) =
          IF d \in {c.from} THEN DT!BiosDisk(d) ELSE DiskOf(mapTable, d)
    BY <2>1, <2>2
  <2> QED
    BY <1>1, <1>2, <2>1, <2>3, <2>4
<1>4. CASE memory /\ LaterMem(i) # {} /\ ~c.mem
  BY <1>1, <1>2, <1>4 DEF Delete, Ask
<1>5. CASE i # 0 /\ ~(memory /\ LaterMem(i) # {} /\ ~c.mem)
  <2>1. /\ ClosesUp((1 .. Len(mapTable)) \ removed)
        /\ command' = [op |-> "map", c |-> c, done |-> TRUE]
    <3>1. DOMAIN mapTable = 1 .. Len(mapTable)
      BY <1>1
    <3>2. ClosesUp(DOMAIN mapTable \ removed) /\ Ask(c, TRUE)
      BY <1>5, Zenon DEF Delete
    <3> QED
      BY <3>1, <3>2, Zenon DEF Ask
  <2>2. i \in 1 .. Len(mapTable) /\ mapTable[i].from = c.from
    BY <1>1, <1>5, First
  <2>3. removed \subseteq 1 .. Len(mapTable)
    BY <1>1, <2>2 DEF LaterMem
  <2>4. PICK kept \in SUBSET (1 .. Len(mapTable)) : kept = (1 .. Len(mapTable)) \ removed
    OBVIOUS
  <2>5. PICK map : map = mapTable'
    OBVIOUS
  <2>6. /\ map \in Seq(GoodSlot) /\ Distinct(map)
        /\ \A k \in 1 .. Len(map) : \E j \in kept : map[k] = mapTable[j]
        /\ \A j \in kept : \E k \in 1 .. Len(map) : map[k] = mapTable[j]
    <3>1. ClosesUp(kept)
      BY <2>1, <2>4
    <3> QED
      BY <1>1, <2>5, <3>1, Closes
  <2> DEFINE gone == {mapTable[j].from : j \in removed}
  <2>7. gone \in SUBSET Numbers /\ c.from \in gone
    <3>1. \A j \in 1 .. Len(mapTable) : mapTable[j].from \in Numbers
      BY <1>1 DEF GoodSlot, SlotType
    <3> QED
      BY <2>2, <2>3, <3>1
  <2>8. ASSUME NEW d \in gone PROVE DiskOf(map, d) = DT!BiosDisk(d)
    <3>1. PICK m \in removed : mapTable[m].from = d
      OBVIOUS
    <3>2. ASSUME NEW k \in 1 .. Len(map) PROVE map[k].from # d
      <4>1. PICK j \in kept : map[k] = mapTable[j]
        BY <2>6
      <4>2. j # m /\ j \in 1 .. Len(mapTable) /\ m \in 1 .. Len(mapTable)
        BY <2>3, <2>4
      <4> QED
        BY <1>1, <3>1, <4>1, <4>2 DEF Distinct
    <3>3. d \in Numbers
      BY <2>7
    <3> QED
      BY <2>6, <3>2, <3>3, DiskOfNone
  <2>9. ASSUME NEW d \in Numbers, d \notin gone PROVE DiskOf(map, d) = DiskOf(mapTable, d)
    <3>1. \A j \in 1 .. Len(mapTable) : mapTable[j].from = d =>
            \E k \in 1 .. Len(map) : map[k] = mapTable[j]
      <4> SUFFICES ASSUME NEW j \in 1 .. Len(mapTable), mapTable[j].from = d
                   PROVE  \E k \in 1 .. Len(map) : map[k] = mapTable[j]
        OBVIOUS
      <4>1. j \in kept
        BY <2>4, <2>9
      <4> QED
        BY <2>6, <4>1
    <3>2. \A k \in 1 .. Len(map) : map[k].from = d =>
            \E j \in 1 .. Len(mapTable) : map[k] = mapTable[j]
      BY <2>4, <2>6
    <3> QED
      BY <1>1, <2>6, <3>1, <3>2, SameDisk
  <2>10. ASSUME NEW d \in gone \ {c.from}
         PROVE  c.mem /\ DT!Places(DiskOf(mapTable, d)) \subseteq {<<Mem, a>> : a \in MemSectors}
    <3>1. PICK m \in removed : mapTable[m].from = d
      OBVIOUS
    <3>2. m # i
      BY <2>2, <3>1
    <3>3. memory /\ m \in LaterMem(i)
      BY <3>2
    <3>4. c.mem
      BY <1>5, <3>3
    <3>5. m \in 1 .. Len(mapTable) /\ mapTable[m].to = Mem
      BY <1>1, <2>3, <3>3 DEF LaterMem
    <3>6. mapTable[m] \in GoodSlot
      BY <1>1, <3>5
    <3>7. DiskOf(mapTable, d) = SlotDisk(mapTable[m])
      BY <1>1, <3>1, <3>5, DiskOfSlot
    <3> QED
      BY <3>4, <3>5, <3>6, <3>7, MemoryPlaces
  <2> HIDE DEF gone
  <2>11. \A d \in Numbers : DiskOf(mapTable', d) =
           IF d \in gone THEN DT!BiosDisk(d) ELSE DiskOf(mapTable, d)
    BY <2>5, <2>8, <2>9
  <2>12. Distinct(mapTable')
    BY <2>5, <2>6
  <2> QED
    BY <1>2, <2>1, <2>7, <2>10, <2>11, <2>12
<1> QED
  BY <1>3, <1>4, <1>5

LEMMA CommandIs ==
  ASSUME NEW c \in Commands
  PROVE  /\ c.from \in Numbers /\ c.to \in Numbers /\ c.mem \in BOOLEAN
         /\ c.img.whole \in BOOLEAN /\ c.img.start \in Nat /\ c.img.count \in Nat
         /\ c.img.spt \in Nat \ {0}
         /\ c.img.whole => c.img.start = 0 /\ c.img.count \in {0, 1}
         /\ ~c.img.whole => c.img.count > 0 /\ ~All(c.img.start, c.img.count)
         /\ DT!AllOf(c) <=> Whole(c)
         /\ c.img.kind \in {"fs", "mbr"} /\ c.reserve \in Nat /\ c.img.room \in Nat
<1>1. c \in CommandType
  BY DriveMapAssumption
<1>2. /\ c.img.whole => c.img.start = 0 /\ c.img.count \in {0, 1}
      /\ ~c.img.whole => c.img.count > 0 /\ (c.img.start > 0 \/ c.img.count > 1)
  BY DriveMapAssumption
<1>3. c.img.start \in Nat /\ c.img.count \in Nat
  BY <1>1 DEF CommandType, ImageType
<1>4. ~c.img.whole => ~All(c.img.start, c.img.count)
  BY <1>2, <1>3 DEF All
<1> QED
  BY <1>1, <1>2, <1>4 DEF CommandType, ImageType, DT!AllOf, Whole

\* A number that is unmapped, and those in memory that go with it.
LEMMA DeleteUnmaps ==
  ASSUME TableInv, NEW c \in Commands, MapDelete(c)
  PROVE  DT!Command /\ TableInv'
<1>1. UNCHANGED <<hookedMap, int13, stored>> /\ ShownDisk' = ShownDisk
  BY DEF MapDelete, Delete, Ask, ShownDisk
<1>2. CASE UNCHANGED mapTable /\ command' = [op |-> "map", c |-> c, done |-> FALSE]
  <2>1. DT!Command
    BY <1>1, <1>2, NothingHappens, Refused
  <2> QED
    BY <1>1, <1>2, <2>1 DEF TableInv, MapInv
<1>3. CASE Delete(c)
  <2>1. MapInv'
    BY <1>3, DeleteKeeps DEF TableInv
  <2>2. TableInv'
    BY <1>1, <1>3, <2>1, Deleted DEF TableInv
  <2>3. CASE UNCHANGED mapTable /\ command' = [op |-> "map", c |-> c, done |-> FALSE]
    BY <1>2, <2>3
  <2>4. CASE ~(UNCHANGED mapTable /\ command' = [op |-> "map", c |-> c, done |-> FALSE])
    <3>1. PICK gone \in SUBSET Numbers :
            /\ command' = [op |-> "map", c |-> c, done |-> TRUE]
            /\ c.from \in gone
            /\ \A d \in Numbers : DiskOf(mapTable', d) =
                 IF d \in gone THEN DT!BiosDisk(d) ELSE DiskOf(mapTable, d)
            /\ \A d \in gone \ {c.from} :
                 c.mem /\ DT!Places(DiskOf(mapTable, d)) \subseteq {<<Mem, a>> : a \in MemSectors}
      BY <1>3, <2>4, Deleted
    <3>2. DT!Unmap(c)
      BY <1>1, <3>1 DEF DT!Unmap
    <3>3. c.from = c.to /\ DT!AllOf(c) /\ ~(c.o.ro \/ c.o.fake \/ c.o.nochs \/ c.o.nolba)
      BY CommandIs DEF MapDelete, Deletes
    <3>4. DT!Map(c)
      BY <3>2, <3>3 DEF DT!Map
    <3> QED
      BY <2>2, <3>1, <3>4, Carried
  <2> QED
    BY <2>3, <2>4
<1> QED
  BY <1>2, <1>3 DEF MapDelete, Ask

\* What the sectors of the drive that a command maps are made of.
LEMMA SeenFrom ==
  ASSUME MapInv, NEW c \in Commands
  PROVE  \E from \in Nat, count \in Nat :
           /\ Resolved(c).start = c.img.start + from
           /\ ShownDisk[c.to].secs = Extent(Resolved(c).to, from, count)
           /\ SeenSectors(c.to) = Extent(Resolved(c).to, from, count)
           /\ ~ShownDisk[c.to].emulated => All(from, count)
           /\ Resolved(c).to \in Numbers \cup {Mem}
<1> DEFINE i == FirstIn(hookedMap, c.to)
           s == hookedMap[i]
<1>1. c.to \in Numbers /\ c.img.start \in Nat
  BY CommandIs
<1>2. ShownDisk[c.to].secs = SeenSectors(c.to)
  BY <1>1, SeenIsShown
<1>3. CASE int13 /\ i # 0
  <2>1. s \in GoodSlot
    BY <1>1, <1>3, SeenSlot
  <2>2. s.start \in Nat /\ s.count \in Nat /\ s.to \in Numbers \cup {Mem}
    BY <2>1 DEF GoodSlot, SlotType
  <2>3. Resolved(c).to = s.to /\ Resolved(c).start = c.img.start + s.start
    BY <1>3 DEF Resolved
  <2>4. ShownDisk[c.to] = SlotDisk(s)
    BY <1>1, <1>3, ShownIs
  <2>5. ~ShownDisk[c.to].emulated => All(s.start, s.count)
    <3>1. ShownDisk[c.to].emulated = Emulated(s)
      BY <2>4 DEF SlotDisk
    <3> QED
      BY <2>2, <3>1 DEF Emulated, All
  <2>6. SeenSectors(c.to) = Extent(s.to, s.start, s.count)
    BY <1>3 DEF SeenSectors
  <2> QED
    BY <1>2, <2>2, <2>3, <2>5, <2>6
<1>4. CASE ~(int13 /\ i # 0)
  <2>1. Resolved(c).to = c.to /\ Resolved(c).start = c.img.start
    BY <1>4 DEF Resolved
  <2>2. SeenSectors(c.to) = Extent(c.to, 0, 0)
    BY <1>4 DEF SeenSectors
  <2>3. All(0, 0) /\ c.img.start = c.img.start + 0
    BY <1>1 DEF All
  <2> QED
    BY <1>1, <1>2, <2>1, <2>2, <2>3
<1> QED
  BY <1>3, <1>4

LEMMA AllIsOwn ==
  ASSUME NEW to, NEW start, NEW count, All(start, count)
  PROVE  Extent(to, start, count) = Extent(to, 0, 0)
<1>1. All(0, 0)
  BY DEF All
<1> QED
  BY <1>1 DEF Extent, All

LEMMA WholeSectors ==
  ASSUME MapInv, NEW c \in Commands, c.img.whole, Resolved(c).to \in Numbers,
         Whole(c) \/ ImageOpens(c)
  PROVE  LET new  == Extent(Resolved(c).to, Resolved(c).start, c.img.count)
             disk == ShownDisk[c.to]
         IN  \/ new = disk.secs
             \/ /\ disk.emulated
                /\ \/ new \in {SubSeq(disk.secs, 1, n) : n \in 0..1}
                   \/ \E d \in Numbers : new = Extent(d, 0, 0)
<1> DEFINE to   == Resolved(c).to
           new  == Extent(to, Resolved(c).start, c.img.count)
           disk == ShownDisk[c.to]
<1>1. c.img.start = 0 /\ c.img.count \in {0, 1} /\ c.to \in Numbers
  BY CommandIs
<1>2. PICK from \in Nat, count \in Nat :
        /\ Resolved(c).start = from
        /\ disk.secs = Extent(to, from, count)
        /\ SeenSectors(c.to) = Extent(to, from, count)
        /\ ~disk.emulated => All(from, count)
  BY <1>1, SeenFrom
<1>3. CASE from = 0
  <2>1. All(from, c.img.count)
    BY <1>1, <1>3 DEF All
  <2>2. new = Extent(to, 0, 0)
    BY <1>2, <2>1, AllIsOwn
  <2>3. CASE disk.emulated
    BY <2>2, <2>3
  <2>4. CASE ~disk.emulated
    BY <1>2, <2>2, <2>4, AllIsOwn
  <2> QED
    BY <2>3, <2>4
<1>4. CASE from # 0
  <2>1. disk.emulated
    BY <1>2, <1>4 DEF All
  <2>2. PICK n \in 0 .. 1 : n = c.img.count
    BY <1>1
  <2>3. new = [i \in 1 .. n |-> <<to, from + i - 1>>]
    BY <1>2, <1>4, <2>2 DEF Extent
  <2>4. disk.secs = [i \in 1 .. count |-> <<to, from + i - 1>>] /\ Len(disk.secs) = count
    BY <1>2, <1>4 DEF Extent
  <2>5. n <= count
    <3>1. CASE n = 0
      BY <3>1
    <3>2. CASE n = 1
      <4>1. ImageOpens(c)
        BY <2>2, <3>2 DEF Whole
      <4>2. n <= Len(SeenSectors(c.to))
        BY <1>1, <2>2, <4>1 DEF ImageOpens
      <4> QED
        BY <1>2, <2>4, <4>2
    <3> QED
      BY <3>1, <3>2
  <2>6. SubSeq(disk.secs, 1, n) = [i \in 1 .. n |-> <<to, from + i - 1>>]
    <3>1. PICK q : q = disk.secs /\ q = [i \in 1 .. count |-> <<to, from + i - 1>>]
      BY <2>4
    <3>2. PICK t : t = to
      OBVIOUS
    <3>3. SubSeq(q, 1, n) = [i \in 1 .. n |-> q[i]]
      BY <2>5, <3>1
    <3>4. \A i \in 1 .. n : q[i] = <<t, from + i - 1>>
      BY <2>5, <3>1, <3>2
    <3> QED
      BY <3>1, <3>2, <3>3, <3>4
  <2> QED
    BY <2>1, <2>3, <2>6
<1> QED
  BY <1>3, <1>4

LEMMA PieceSectors ==
  ASSUME MapInv, NEW c \in Commands, ~c.img.whole, ImageOpens(c)
  PROVE  /\ ~All(Resolved(c).start, c.img.count)
         /\ Extent(Resolved(c).to, Resolved(c).start, c.img.count) =
              SubSeq(ShownDisk[c.to].secs, c.img.start + 1, c.img.start + c.img.count)
<1>1. PICK from \in Nat, count \in Nat :
        /\ Resolved(c).start = c.img.start + from
        /\ ShownDisk[c.to].secs = Extent(Resolved(c).to, from, count)
        /\ SeenSectors(c.to) = Extent(Resolved(c).to, from, count)
        /\ Resolved(c).to \in Numbers \cup {Mem}
  BY SeenFrom
<1>2. PICK to : to = Resolved(c).to
  OBVIOUS
<1>3. PICK q : q = ShownDisk[c.to].secs /\ q = SeenSectors(c.to) /\ q = Extent(to, from, count)
  BY <1>1, <1>2
<1>4. PICK len \in Nat : q = [i \in 1 .. len |-> <<to, from + i - 1>>] /\ Len(q) = len
  <2>1. to \in Numbers \cup {Mem}
    BY <1>1, <1>2
  <2>2. PICK len \in Nat : q = [i \in 1 .. len |-> <<to, from + i - 1>>]
    <3>1. \E len \in Nat : Extent(to, from, count) = [i \in 1 .. len |-> <<to, from + i - 1>>]
      <4>1. PICK start \in Nat, n \in Nat : start = from /\ n = count
        OBVIOUS
      <4>2. \E len \in Nat :
              /\ Extent(to, start, n) = [i \in 1 .. len |-> <<to, start + i - 1>>]
              /\ len = IF ~All(start, n) THEN n ELSE IF to = Mem THEN 0 ELSE BiosSize[to]
        BY <2>1, ExtentIs
      <4> QED
        BY <4>1, <4>2
    <3> QED
      BY <1>3, <3>1
  <2> QED
    BY <2>2
<1>5. PICK at \in Nat, n \in Nat, first \in Nat :
        at = c.img.start /\ n = c.img.count /\ first = from + at /\ first = Resolved(c).start
  BY <1>1, CommandIs
<1>6. at + n <= len
  <2>1. c.img.start + c.img.count <= Len(SeenSectors(c.to))
    BY DEF ImageOpens
  <2> QED
    BY <1>3, <1>4, <1>5, <2>1
<1>7. SubSeq(q, at + 1, at + n) = [i \in 1 .. n |-> <<to, first + i - 1>>]
  <2>1. SubSeq(q, at + 1, at + n) = [i \in 1 .. n |-> q[at + i]]
    BY <1>4, <1>6
  <2>2. ASSUME NEW i \in 1 .. n PROVE q[at + i] = <<to, first + i - 1>>
    <3>1. first = from + at
      BY <1>5
    <3>2. PICK k \in 1 .. len : k = at + i
      BY <1>6
    <3>3. q[k] = <<to, from + k - 1>>
      BY <1>4
    <3>4. from + k - 1 = first + i - 1
      BY <3>1, <3>2
    <3> QED
      BY <3>2, <3>3, <3>4
  <2> QED
    BY <2>1, <2>2
<1>8. ~All(first, n)
  <2>1. ~All(at, n)
    BY <1>5, CommandIs
  <2> QED
    BY <1>5, <2>1 DEF All
<1>9. Extent(to, first, n) = [i \in 1 .. n |-> <<to, first + i - 1>>]
  BY <1>8 DEF Extent, All
<1> QED
  BY <1>2, <1>3, <1>5, <1>7, <1>8, <1>9

LEMMA WholeIs ==
  ASSUME NEW c \in Commands, DT!Gives(c), UNCHANGED stored,
         NEW new, new = DiskOf(mapTable', c.from), NEW disk, disk = ShownDisk[c.to],
         \/ new.secs = disk.secs
         \/ /\ disk.emulated
            /\ \/ new.secs \in {SubSeq(disk.secs, 1, n) : n \in 0..1}
               \/ \E d \in Numbers : new.secs = Extent(d, 0, 0)
  PROVE  DT!MapWhole(c)
<1>1. c.from \in Numbers /\ c.to \in Numbers
  BY CommandIs
<1> QED
  BY <1>1 DEF DT!MapWhole

LEMMA PieceIs ==
  ASSUME NEW c \in Commands, DT!Gives(c), UNCHANGED stored,
         NEW new, new = DiskOf(mapTable', c.from), new.emulated,
         ~c.img.whole,
         new.secs = SubSeq(ShownDisk[c.to].secs, c.img.start + 1, c.img.start + c.img.count)
  PROVE  DT!MapPiece(c)
<1>1. c.from \in Numbers
  BY CommandIs
<1>2. new.secs = DT!Image(c)
  BY DEF DT!Image
<1> QED
  BY <1>1, <1>2 DEF DT!MapPiece

LEMMA MapIs ==
  ASSUME NEW c \in Commands, ~c.mem,
         ~(c.from = c.to /\ DT!AllOf(c) /\ ~(c.o.ro \/ c.o.fake \/ c.o.nochs \/ c.o.nolba)),
         \/ c.img.whole /\ DT!MapWhole(c)
         \/ ~c.img.whole /\ DT!MapPiece(c)
  PROVE  DT!Map(c)
<1>1. CASE c.img.whole /\ DT!MapWhole(c)
  BY <1>1, Zenon DEF DT!Map
<1>2. CASE ~c.img.whole /\ DT!MapPiece(c)
  BY <1>2, Zenon DEF DT!Map
<1> QED
  BY <1>1, <1>2

\* A whole drive or an image gets the disk that TO shows, or a piece of it.
LEMMA DirectGives ==
  ASSUME TableInv, NEW c \in Commands, MapDirect(c)
  PROVE  DT!Command /\ TableInv'
<1> DEFINE r == Resolved(c)
           spt == IF Whole(c) THEN 1 ELSE c.img.spt
           s == Slot(c.from, r.to, r.start, c.img.count, spt, r.o)
           disk == ShownDisk[c.to]
<1>1. UNCHANGED <<hookedMap, int13, stored>> /\ ShownDisk' = ShownDisk
  BY DEF MapDirect, Delete, Ask, ShownDisk
<1>2. mapTable \in Seq(GoodSlot) /\ Distinct(mapTable) /\ MapInv
  BY DEF TableInv, MapInv
<1>3. MapInv'
  BY <1>2, DirectKeeps
<1>4. /\ c.from \in Numbers /\ c.to \in Numbers /\ ~c.mem
      /\ c.img.count \in Nat /\ spt \in Nat \ {0} /\ spt = DT!Track(c)
      /\ ~(c.from = c.to /\ DT!AllOf(c) /\ ~(c.o.ro \/ c.o.fake \/ c.o.nochs \/ c.o.nolba))
  <2>1. ~Deletes(c, c.to, c.img.start, c.o) /\ ~c.mem
    BY DEF MapDirect
  <2>2. Whole(c) => c.img.start = 0
    BY CommandIs DEF Whole
  <2> QED
    BY <2>1, <2>2, CommandIs DEF DT!Track, Deletes
<1>5. CASE UNCHANGED mapTable /\ command' = [op |-> "map", c |-> c, done |-> FALSE]
  <2>1. DT!Command
    BY <1>1, <1>5, NothingHappens, Refused
  <2> QED
    BY <1>1, <1>3, <1>5, <2>1 DEF TableInv
<1>6. CASE r.to # Mem /\ mapTable' = WithSlot(s) /\ Ask(c, TRUE)
  <2>1. r.to \in Numbers /\ r.start \in Nat /\ r.o \in OptionType
    BY <1>2, <1>6, ResolvedFits
  <2>2. s \in GoodSlot
    <3>1. \/ c.img.start + c.img.count <= Len(SeenSectors(c.to))
          \/ c.img.count = 0 /\ c.img.start = 0
      BY CommandIs DEF MapDirect, ImageOpens, Whole
    <3>2. Fits(r.to, r.start, c.img.count)
      BY <1>2, <1>6, <3>1, ResolvedFits
    <3> QED
      BY <1>4, <2>1, <3>2, SlotIsGood
  <2>3. /\ s.from = c.from /\ s.to = r.to /\ s.start = r.start /\ s.count = c.img.count
    BY DEF Slot
  <2>4. /\ Distinct(mapTable')
        /\ DiskOf(mapTable', c.from) = SlotDisk(s)
        /\ \A d \in Numbers \ {c.from} : DiskOf(mapTable', d) = DiskOf(mapTable, d)
    BY <1>2, <1>6, <2>2, <2>3, GivesSlot
  <2>5. DT!Obeys(SlotDisk(s), disk, c)
    <3>1. c.img.count % 2 = 1 <=> ~c.mem /\ c.img.count % 2 = 1
      BY <1>4
    <3> QED
      BY <1>2, <1>4, <2>1, <3>1, NewObeys
  <2>6. DT!Gives(c)
    BY <1>1, <2>4, <2>5, GivesOne
  <2>7. SlotDisk(s).secs = Extent(r.to, r.start, c.img.count)
    BY <2>3 DEF SlotDisk
  <2>12. PICK new : new = SlotDisk(s)
    OBVIOUS
  <2>8. ASSUME c.img.whole PROVE DT!Map(c)
    <3>1. \/ new.secs = disk.secs
          \/ /\ disk.emulated
             /\ \/ new.secs \in {SubSeq(disk.secs, 1, n) : n \in 0..1}
                \/ \E d \in Numbers : new.secs = Extent(d, 0, 0)
      <4>1. Whole(c) \/ ImageOpens(c)
        BY DEF MapDirect
      <4>2. PICK secs : secs = Extent(r.to, r.start, c.img.count)
        OBVIOUS
      <4>3. \/ secs = disk.secs
            \/ /\ disk.emulated
               /\ \/ secs \in {SubSeq(disk.secs, 1, n) : n \in 0..1}
                  \/ \E d \in Numbers : secs = Extent(d, 0, 0)
        BY <1>2, <2>1, <2>8, <4>1, <4>2, WholeSectors
      <4>4. new.secs = secs
        BY <2>7, <2>12, <4>2, Zenon
      <4> QED
        BY <4>3, <4>4
    <3>2. new = DiskOf(mapTable', c.from)
      BY <2>4, <2>12, Zenon
    <3>3. DT!MapWhole(c)
      BY <1>1, <2>6, <3>1, <3>2, WholeIs
    <3> QED
      BY <1>4, <2>8, <3>3, MapIs
  <2>9. ASSUME ~c.img.whole PROVE DT!Map(c)
    <3>1. ImageOpens(c)
      BY <2>9 DEF MapDirect, Whole
    <3>2. /\ ~All(r.start, c.img.count)
          /\ Extent(r.to, r.start, c.img.count) =
               SubSeq(disk.secs, c.img.start + 1, c.img.start + c.img.count)
      BY <1>2, <2>9, <3>1, PieceSectors
    <3>3. new.emulated
      <4>1. Emulated(s)
        <5>1. s.start = r.start /\ s.count = c.img.count
          BY <2>3
        <5> QED
          BY <3>2, <5>1 DEF Emulated, All
      <4> QED
        BY <2>12, <4>1 DEF SlotDisk
    <3>4. new = DiskOf(mapTable', c.from)
      BY <2>4, <2>12, Zenon
    <3>5. new.secs = SubSeq(disk.secs, c.img.start + 1, c.img.start + c.img.count)
      BY <2>7, <2>12, <3>2, Zenon
    <3>6. DT!MapPiece(c)
      BY <1>1, <2>6, <2>9, <3>3, <3>4, <3>5, PieceIs
    <3> QED
      BY <1>4, <2>9, <3>6, MapIs
  <2>10. DT!Map(c)
    BY <2>8, <2>9
  <2>11. DT!Command
    BY <1>6, <2>10, Carried DEF Ask
  <2> QED
    BY <1>1, <1>3, <2>4, <2>11 DEF TableInv
<1>7. CASE Delete(c) /\ Deletes(c, r.to, r.start, r.o)
  <2>1. Distinct(mapTable') /\ TableInv'
    BY <1>1, <1>3, <1>7, Deleted DEF TableInv
  <2>2. CASE command' = [op |-> "map", c |-> c, done |-> TRUE] /\
             \E gone \in SUBSET Numbers :
               /\ c.from \in gone
               /\ \A d \in Numbers : DiskOf(mapTable', d) =
                    IF d \in gone THEN DT!BiosDisk(d) ELSE DiskOf(mapTable, d)
               /\ \A d \in gone \ {c.from} :
                    c.mem /\ DT!Places(DiskOf(mapTable, d)) \subseteq {<<Mem, a>> : a \in MemSectors}
    <3>1. /\ DiskOf(mapTable', c.from) = DT!BiosDisk(c.from)
          /\ \A d \in Numbers \ {c.from} : DiskOf(mapTable', d) = DiskOf(mapTable, d)
      BY <1>4, <2>2
    <3>2. /\ r.to = c.from /\ r.start = 0 /\ Whole(c) /\ c.img.whole /\ c.img.count = 0
          /\ ~(r.o.ro \/ r.o.fake \/ r.o.nochs \/ r.o.nolba)
      BY <1>7 DEF Deletes, Whole
    <3>3. DT!Obeys(DT!BiosDisk(c.from), disk, c)
      <4>1. /\ disk.kept \in BOOLEAN /\ disk.marked \in BOOLEAN
            /\ disk.chs \in BOOLEAN /\ disk.lba \in BOOLEAN
            /\ ~c.o.ro /\ ~c.o.fake /\ ~disk.kept /\ ~disk.marked
            /\ ~c.o.nolba /\ disk.lba /\ ~c.o.nochs /\ disk.chs
        BY <1>2, <3>2, ResolvedLimits
      <4>2. /\ DT!BiosDisk(c.from).kept = FALSE /\ DT!BiosDisk(c.from).lba = TRUE
            /\ DT!BiosDisk(c.from).chs = TRUE /\ DT!BiosDisk(c.from).marked = FALSE
            /\ DT!BiosDisk(c.from).emulated = FALSE /\ DT!BiosDisk(c.from).guard = {}
        BY DEF DT!BiosDisk
      <4>3. c.img.count % 2 = 0
        BY <3>2
      <4>4. PICK new : new = DT!BiosDisk(c.from)
        OBVIOUS
      <4>5. /\ new.kept = (c.o.ro \/ c.o.fake \/ disk.kept \/ disk.marked)
            /\ new.lba = (disk.lba /\ ~c.o.nolba)
            /\ new.chs = (disk.chs /\ ~c.o.nochs) \/ (~new.chs /\ c.to = 0)
        BY <4>1, <4>2, <4>4
      <4>6. new.marked = (~c.mem /\ c.img.count % 2 = 1)
        <5>1. new.marked = FALSE
          BY <4>2, <4>4
        <5>2. ~(c.img.count % 2 = 1)
          BY <4>3
        <5> QED
          BY <5>1, <5>2
      <4>7. ~new.emulated /\ new.guard = {}
        BY <4>2, <4>4
      <4> QED
        BY <4>4, <4>5, <4>6, <4>7 DEF DT!Obeys
    <3>4. DT!Gives(c)
      BY <1>1, <3>1, <3>3, GivesOne
    <3>5. DT!BiosDisk(c.from).secs = Extent(r.to, r.start, c.img.count)
      <4>1. All(r.start, c.img.count)
        BY <3>2 DEF All
      <4> QED
        BY <1>4, <3>2, <4>1, AllIsOwn DEF DT!BiosDisk
    <3>6. \/ DT!BiosDisk(c.from).secs = disk.secs
          \/ /\ disk.emulated
             /\ \/ DT!BiosDisk(c.from).secs \in {SubSeq(disk.secs, 1, n) : n \in 0..1}
                \/ \E d \in Numbers : DT!BiosDisk(c.from).secs = Extent(d, 0, 0)
      BY <1>2, <1>4, <3>2, <3>5, WholeSectors
    <3>7. DT!MapWhole(c)
      BY <1>1, <3>1, <3>4, <3>6, WholeIs
    <3>8. DT!Map(c)
      BY <1>4, <3>2, <3>7 DEF DT!Map
    <3> QED
      BY <2>1, <2>2, <3>8, Carried
  <2>3. CASE UNCHANGED mapTable /\ command' = [op |-> "map", c |-> c, done |-> FALSE]
    BY <1>5, <2>3
  <2> QED
    BY <1>7, <2>2, <2>3, Deleted
<1> QED
  BY <1>5, <1>6, <1>7 DEF MapDirect, Ask


---------------------------------------------------------------------------
(* A copy in memory. *)

\* The room that is found for a disk is in no disk of the table.
LEMMA RoomIsFree ==
  ASSUME MapInv, NEW i \in DOMAIN Regions, NEW total \in Nat,
         Base(Regions[i], total) >= MinEmuBase,
         NEW a \in Base(Regions[i], total) .. Base(Regions[i], total) + total - 1
  PROVE  a \in MemSectors /\ <<Mem, a>> \in DT!Free
<1>1. PICK base \in Nat : /\ base = Base(Regions[i], total)
                          /\ Regions[i].base <= base /\ base + total <= Regions[i].top
  BY BaseInRegion
<1>2. PICK low \in Nat, top \in Nat : low = Regions[i].base /\ top = Regions[i].top
  BY RegionType
<1>3. a \in Nat /\ low <= a /\ a < top /\ a < base + total
  BY <1>1, <1>2
<1>4. a \in MemSectors
  <2>1. a \in Regions[i].base .. Regions[i].top - 1
    BY <1>2, <1>3
  <2> QED
    BY <2>1 DEF MemSectors, ToSet
<1>5. ASSUME NEW d \in Numbers, <<Mem, a>> \in DT!Places(DiskOf(mapTable, d))
      PROVE  FALSE
  <2>1. mapTable \in Seq(GoodSlot)
    BY DEF MapInv
  <2>2. CASE DiskOf(mapTable, d) = DT!BiosDisk(d)
    <3>1. d \in 0 .. 254 /\ d # Mem
      BY NumberIs
    <3>2. DT!BiosDisk(d).secs = Extent(d, 0, 0)
      BY DEF DT!BiosDisk
    <3>3. PICK len \in Nat : Extent(d, 0, 0) = [k \in 1 .. len |-> <<d, 0 + k - 1>>]
      <4>1. PICK to \in Numbers \cup {Mem}, zero \in Nat : to = d /\ zero = 0
        OBVIOUS
      <4>2. \E len \in Nat :
              /\ Extent(to, zero, zero) = [k \in 1 .. len |-> <<to, zero + k - 1>>]
              /\ len = IF ~All(zero, zero) THEN zero ELSE IF to = Mem THEN 0 ELSE BiosSize[to]
        BY ExtentIs
      <4> QED
        BY <4>1, <4>2
    <3>4. PICK q : q = DiskOf(mapTable, d).secs /\ q = [k \in 1 .. len |-> <<d, 0 + k - 1>>]
      BY <2>2, <3>2, <3>3
    <3>5. PICK k \in 1 .. len : q[k] = <<Mem, a>>
      BY <1>5, <3>4 DEF DT!Places
    <3> QED
      BY <3>1, <3>4, <3>5
  <2>3. ASSUME NEW j \in 1 .. Len(mapTable), DiskOf(mapTable, d) = SlotDisk(mapTable[j])
        PROVE  FALSE
    <3>1. PICK s \in GoodSlot : s = mapTable[j]
      BY <2>1
    <3>2. s.start \in Nat /\ s.count \in Nat /\ s.to \in Numbers \cup {Mem}
      BY DEF GoodSlot, SlotType
    <3>3. CASE s.to # Mem
      <4>4. PICK to \in Numbers \cup {Mem}, start \in Nat, count \in Nat :
              to = s.to /\ start = s.start /\ count = s.count /\ to # Mem
        BY <3>2, <3>3
      <4>1. PICK len \in Nat :
              /\ Extent(to, start, count) = [k \in 1 .. len |-> <<to, start + k - 1>>]
              /\ len = IF ~All(start, count) THEN count ELSE IF to = Mem THEN 0 ELSE BiosSize[to]
        BY ExtentIs
      <4>2. PICK q : q = SlotDisk(s).secs /\ q = [k \in 1 .. len |-> <<to, start + k - 1>>]
        BY <4>1, <4>4 DEF SlotDisk
      <4>3. PICK k \in 1 .. len : q[k] = <<Mem, a>>
        BY <1>5, <2>3, <3>1, <4>2 DEF DT!Places
      <4> QED
        BY <4>2, <4>3, <4>4
    <3>4. CASE s.to = Mem
      <4>1. PICK start \in Nat, count \in Nat : start = s.start /\ count = s.count
        BY <3>2
      <4>2. <<Mem, a>> \in {<<Mem, x>> : x \in start .. start + count - 1}
        BY <1>5, <2>3, <3>1, <3>4, <4>1, MemoryPlaces
      <4>3. start <= a /\ a < start + count
        BY <1>3, <4>2
      <4>4. PICK h \in DOMAIN Regions :
              Regions[h].base <= start /\ start + count <= Regions[h].top
        BY <3>4, <4>1 DEF GoodSlot, Fits, InRegion
      <4>5. PICK floor \in Nat, roof \in Nat : floor = Regions[h].base /\ roof = Regions[h].top
        BY RegionType
      <4>6. floor <= a /\ a < roof /\ floor <= start
        BY <1>3, <4>3, <4>4, <4>5
      <4>7. h = i
        BY <1>2, <1>3, <4>5, <4>6, RegionsApart
      <4>8. start \in Regions[i].base .. Regions[i].top - 1
        BY <1>2, <1>3, <4>3, <4>5, <4>6, <4>7
      <4>9. base + total <= start
        <5>1. mapTable[j].to = Mem /\ mapTable[j].start = start
          BY <3>1, <3>4, <4>1
        <5> QED
          BY <1>1, <4>8, <5>1, BaseInRegion
      <4> QED
        BY <1>3, <4>3, <4>9
    <3> QED
      BY <3>3, <3>4
  <2> QED
    BY <2>1, <2>2, <2>3, DiskIs
<1> QED
  BY <1>4, <1>5 DEF DT!Free

LEMMA NeededIs ==
  ASSUME NEW c \in Commands, NEW n \in Nat
  PROVE  Needed(c, n) % 2 = 0 /\ n + Ahead(c) <= Needed(c, n) /\ Ahead(c) \in {0, c.img.spt}
<1>1. c.reserve \in Nat /\ c.img.room \in Nat /\ Ahead(c) \in {0, c.img.spt} /\ Ahead(c) \in Nat
  BY CommandIs DEF Ahead
<1>2. PICK m \in Nat : m = Max({n, c.reserve, c.img.room}) /\ n <= m
  BY <1>1, MaxOfThree
<1>3. PICK k \in Nat : k = m + Ahead(c) /\ n + Ahead(c) <= k
  BY <1>1, <1>2
<1>4. PICK h \in Nat : h = (k + 1) \div 2 /\ k <= h * 2
  BY SMT
<1>5. Needed(c, n) = h * 2
  BY <1>2, <1>3, <1>4 DEF Needed, RoundUp
<1>6. (h * 2) % 2 = 0
  BY SMT
<1> QED
  BY <1>1, <1>3, <1>4, <1>5, <1>6

Room(base, total) == {<<Mem, a>> : a \in base .. base + total - 1}

LEMMA SourceIs ==
  ASSUME MapInv, NEW c \in Commands, ImageOpens(c),
         NEW n, n = IF c.img.whole THEN Len(SeenSectors(c.to)) ELSE c.img.count
  PROVE  /\ n \in Nat \ {0}
         /\ SubSeq(SeenSectors(c.to), c.img.start + 1, c.img.start + n) = DT!Image(c)
         /\ Len(DT!Image(c)) = n /\ DOMAIN DT!Image(c) = 1 .. n
<1>1. PICK to \in Numbers \cup {Mem}, from \in Nat, count \in Nat :
        ShownDisk[c.to].secs = Extent(to, from, count) /\ SeenSectors(c.to) = Extent(to, from, count)
  BY SeenFrom
<1>2. PICK len \in Nat :
        /\ Extent(to, from, count) = [i \in 1 .. len |-> <<to, from + i - 1>>]
        /\ len = IF ~All(from, count) THEN count ELSE IF to = Mem THEN 0 ELSE BiosSize[to]
  BY ExtentIs
<1>3. PICK q : /\ q = ShownDisk[c.to].secs /\ q = SeenSectors(c.to)
               /\ q = [i \in 1 .. len |-> <<to, from + i - 1>>] /\ Len(q) = len
  BY <1>1, <1>2
<1>4. PICK at \in Nat, size \in Nat : at = c.img.start /\ size = c.img.count
  BY CommandIs
<1>5. at + size <= len /\ len # 0
  BY <1>3, <1>4 DEF ImageOpens
<1>6. CASE c.img.whole
  <2>1. at = 0 /\ n = len
    BY <1>3, <1>4, <1>6, CommandIs
  <2>2. SubSeq(q, 1, len) = q
    BY <1>3
  <2>3. SubSeq(q, at + 1, at + n) = q
    BY <2>1, <2>2
  <2>4. DT!Image(c) = q
    BY <1>3, <1>6 DEF DT!Image
  <2> QED
    BY <1>3, <1>4, <1>5, <2>1, <2>3, <2>4
<1>7. CASE ~c.img.whole
  <2>1. n = size /\ size > 0
    BY <1>4, <1>7, CommandIs
  <2>2. SubSeq(q, at + 1, at + size) = [i \in 1 .. size |-> q[at + i]]
    BY <1>3, <1>5
  <2>3. DT!Image(c) = SubSeq(q, at + 1, at + size)
    BY <1>3, <1>4, <1>7 DEF DT!Image
  <2>4. PICK part : part = SubSeq(q, at + 1, at + size) /\ part = [i \in 1 .. size |-> q[at + i]]
    BY <2>2
  <2>5. Len(part) = size /\ DOMAIN part = 1 .. size
    BY <2>4
  <2>6. n \in Nat \ {0}
    BY <2>1
  <2>7. SubSeq(SeenSectors(c.to), c.img.start + 1, c.img.start + n) = part
    BY <1>3, <1>4, <2>1, <2>4
  <2>8. DT!Image(c) = part
    BY <2>3, <2>4
  <2> QED
    BY <2>1, <2>5, <2>6, <2>7, <2>8
<1> QED
  BY <1>6, <1>7

\* The copy is true where it does not begin to overwrite its source.
Made(c, base, total, source) ==
  /\ stored' = [p \in AllPlaces |-> stored'[p]]
  /\ \A p \in AllPlaces \ Room(base, total) : stored'[p] = stored[p]
  /\ (\A i \in DOMAIN source : source[i] \notin Room(base, total)) =>
       \A i \in DOMAIN source : stored'[<<Mem, base + Ahead(c) + i - 1>>] \in
         IF i = 1 THEN DT!Copied(stored[source[i]]) ELSE {stored[source[i]]}

LEMMA Transferred ==
  ASSUME NEW c \in Commands, NEW base \in Nat, NEW total \in Nat, NEW n \in Nat,
         NEW source, Len(source) = n, DOMAIN source = 1 .. n, n + Ahead(c) <= total,
         Room(base, total) \subseteq AllPlaces, Ahead(c) \in Nat,
         stored' = Transfer(c, base, total, source)
  PROVE  Made(c, base, total, source)
<1>5. PICK room : room = {<<Mem, a>> : a \in base .. base + total - 1} /\ room = Room(base, total)
  BY DEF Room
<1>6. PICK ahead \in Nat : ahead = Ahead(c) /\ n + ahead <= total
  OBVIOUS
<1> DEFINE first == base + ahead
           copy(i) == IF \E j \in DOMAIN source : source[j] \in room THEN <<"junk">>
                      ELSE IF i = 1 /\ ahead > 0 THEN <<"adjusted">> \o stored[source[i]]
                      ELSE stored[source[i]]
           value(p) == IF p[1] # Mem \/ p[2] \notin base..first + n - 1 THEN stored[p]
                       ELSE IF p[2] >= first THEN copy(p[2] - first + 1)
                       ELSE IF p[2] = base THEN <<"mbr">> ELSE stored[p]
<1>1. stored' = [p \in AllPlaces |-> value(p)]
  BY <1>5, <1>6 DEF Transfer
<1>2. ASSUME NEW p \in AllPlaces \ room PROVE value(p) = stored[p]
  <2>1. CASE p[1] = Mem /\ p[2] \in base..first + n - 1
    <3>1. p = <<Mem, p[2]>>
      <4>1. PICK x, y : p = <<x, y>>
        <5> DEFINE of(d) == {<<d, i>> : i \in 0..BiosSize[d] - 1}
                   disks == UNION {of(d) : d \in Numbers}
                   memory == {<<Mem, a>> : a \in MemSectors}
        <5>1. CASE p \in memory
          BY <5>1
        <5>2. CASE p \in disks
          <6>1. PICK d \in Numbers : p \in of(d)
            <7> HIDE DEF of
            <7> QED
              BY <5>2
          <6> QED
            BY <6>1
        <5>3. AllPlaces = disks \cup memory
          BY DEF AllPlaces
        <5> HIDE DEF disks, memory
        <5> QED
          BY <5>1, <5>2, <5>3
      <4> QED
        BY <2>1, <4>1
    <3>2. p[2] \in base .. base + total - 1
      BY <1>6, <2>1
    <3> QED
      BY <1>5, <3>1, <3>2
  <2>2. CASE ~(p[1] = Mem /\ p[2] \in base..first + n - 1)
    BY <2>2
  <2> QED
    BY <2>1, <2>2
<1>3. ASSUME \A i \in 1 .. n : source[i] \notin room, NEW i \in 1 .. n
      PROVE  stored'[<<Mem, first + i - 1>>] \in
                IF i = 1 THEN DT!Copied(stored[source[i]]) ELSE {stored[source[i]]}
  <2>1. PICK a \in Nat : a = first + i - 1 /\ a \in base .. first + n - 1 /\ a >= first
                         /\ a - first + 1 = i /\ a \in base .. base + total - 1
    <3>1. first + i - 1 \in Nat /\ base <= first + i - 1 /\ first <= first + i - 1
      OBVIOUS
    <3>2. first + i - 1 <= first + n - 1 /\ first + n <= base + total
      BY <1>6
    <3>3. (first + i - 1) - first + 1 = i
      OBVIOUS
    <3> QED
      BY <3>1, <3>2, <3>3
  <2>2. <<Mem, a>> \in AllPlaces
    BY <1>5, <2>1
  <2>3. ~\E j \in DOMAIN source : source[j] \in room
    BY <1>3
  <2>4. PICK v, w : v = stored[source[i]] /\ w = <<"adjusted">> \o v
    OBVIOUS
  <2>5. copy(i) = IF i = 1 /\ ahead > 0 THEN w ELSE v
    BY <2>3, <2>4
  <2>6. value(<<Mem, a>>) = copy(i)
    <3> HIDE DEF copy
    <3>1. <<Mem, a>>[1] = Mem /\ <<Mem, a>>[2] = a
      OBVIOUS
    <3> QED
      BY <2>1, <3>1
  <2>7. stored'[<<Mem, a>>] = copy(i)
    <3> HIDE DEF value
    <3> QED
      BY <1>1, <2>2, <2>6
  <2>8. DT!Copied(v) = {v, w}
    BY <2>4 DEF DT!Copied
  <2> HIDE DEF copy
  <2> QED
    BY <2>1, <2>4, <2>5, <2>7, <2>8
<1> HIDE DEF value
<1>4. \A p \in AllPlaces : stored'[p] = value(p)
  BY <1>1
<1> QED
  BY <1>1, <1>2, <1>3, <1>4, <1>5, <1>6 DEF Made

InMemory(disk, base, total) ==
  /\ disk.secs = [k \in 1 .. total |-> <<Mem, base + k - 1>>]
  /\ disk.emulated /\ DT!Places(disk) = Room(base, total)

LEMMA CopyIs ==
  ASSUME NEW c \in Commands, NEW base \in Nat, NEW total \in Nat, NEW n \in Nat,
         DOMAIN stored = AllPlaces, DT!Gives(c), InMemory(DiskOf(mapTable', c.from), base, total),
         Room(base, total) \subseteq DT!Free,
         Len(DT!Image(c)) = n, DOMAIN DT!Image(c) = 1 .. n, n + Ahead(c) <= total,
         Made(c, base, total, DT!Image(c))
  PROVE  DT!MapCopy(c)
<1>1. c.from \in Numbers /\ c.img.spt \in Nat
  BY CommandIs
<1>2. PICK new : /\ new = DiskOf(mapTable', c.from)
                 /\ new = [d \in Numbers |-> DiskOf(mapTable, d)]'[c.from]
  BY <1>1
<1>3. /\ new.secs = [k \in 1 .. total |-> <<Mem, base + k - 1>>]
      /\ new.emulated /\ DT!Places(new) = Room(base, total)
  BY <1>2 DEF InMemory
<1>4. DT!Places(new) \subseteq {<<Mem, a>> : a \in MemSectors} \ DT!UsedBut(c.from)
  BY <1>3 DEF DT!Free, DT!UsedBut
<1>5. PICK front \in {0, c.img.spt} : front = Ahead(c) /\ front \in Nat
  BY <1>1, NeededIs
<1>6. Len(new.secs) >= front + n
  BY <1>3, <1>5
<1>7. PICK from : from = DT!Image(c) /\ Len(from) = n /\ DOMAIN from = 1 .. n
  OBVIOUS
<1>8. ASSUME \A i \in DOMAIN from : from[i] \notin DT!Free, NEW i \in DOMAIN from
      PROVE  stored'[new.secs[front + i]] \in
               IF i = 1 THEN DT!Copied(stored[from[i]]) ELSE {stored[from[i]]}
  <2>1. \A k \in DOMAIN from : from[k] \notin Room(base, total)
    BY <1>8
  <2>2. stored'[<<Mem, base + front + i - 1>>] \in
          IF i = 1 THEN DT!Copied(stored[from[i]]) ELSE {stored[from[i]]}
    BY <1>5, <1>7, <2>1 DEF Made
  <2>3. PICK k \in 1 .. total : k = front + i /\ base + k - 1 = base + front + i - 1
    <3>1. i \in 1 .. n /\ n + front <= total
      BY <1>5, <1>7
    <3>2. front + i \in 1 .. total /\ base + (front + i) - 1 = base + front + i - 1
      BY <1>5, <3>1
    <3> QED
      BY <3>2
  <2>4. new.secs[front + i] = <<Mem, base + front + i - 1>>
    BY <1>3, <2>3
  <2> QED
    BY <2>2, <2>4
<1>9. \A p \in DOMAIN stored \ DT!Places(new) : stored'[p] = stored[p]
  BY <1>3 DEF Made
<1> DEFINE given == [d \in Numbers |-> DiskOf(mapTable, d)]'[c.from]
<1>10. given.emulated
       /\ DT!Places(given) \subseteq {<<Mem, a>> : a \in MemSectors} \ DT!UsedBut(c.from)
  BY <1>2, <1>3, <1>4, Zenon
<1>11. \A p \in DOMAIN stored \ DT!Places(given) : stored'[p] = stored[p]
  BY <1>2, <1>9, Zenon
<1>12. \E f \in {0, c.img.spt} :
         /\ Len(given.secs) >= f + Len(DT!Image(c))
         /\ (\A i \in DOMAIN DT!Image(c) : DT!Image(c)[i] \notin DT!Free) =>
              \A i \in DOMAIN DT!Image(c) :
                stored'[given.secs[f + i]] \in
                  IF i = 1 THEN DT!Copied(stored[DT!Image(c)[i]]) ELSE {stored[DT!Image(c)[i]]}
  <2> HIDE DEF given
  <2>1. new = given /\ from = DT!Image(c)
    BY <1>2, <1>7 DEF given
  <2>2. Len(given.secs) >= front + Len(DT!Image(c))
    BY <1>6, <1>7, <2>1
  <2>3. ASSUME \A i \in DOMAIN DT!Image(c) : DT!Image(c)[i] \notin DT!Free,
               NEW i \in DOMAIN DT!Image(c)
        PROVE  stored'[given.secs[front + i]] \in
                 IF i = 1 THEN DT!Copied(stored[DT!Image(c)[i]]) ELSE {stored[DT!Image(c)[i]]}
    BY <1>8, <2>1, <2>3
  <2> QED
    BY <2>2, <2>3
<1> QED
  BY <1>10, <1>11, <1>12, Zenon DEF DT!MapCopy

LEMMA CopyGives ==
  ASSUME TableInv, NEW c \in Commands, MapMemory(c)
  PROVE  DT!Command /\ TableInv'
<1> DEFINE n      == IF c.img.whole THEN Len(SeenSectors(c.to)) ELSE c.img.count
           source == SubSeq(SeenSectors(c.to), c.img.start + 1, c.img.start + n)
           need   == Needed(c, n)
           h      == Min(Fitting(need))
           place  == Base(Regions[h], need)
           s      == Slot(c.from, Mem, place, need, c.img.spt, Resolved(c).o)
           disk   == ShownDisk[c.to]
<1>1. MapInv /\ mapTable \in Seq(GoodSlot) /\ Distinct(mapTable)
  BY DEF TableInv, MapInv
<1>2. MapInv' /\ UNCHANGED <<hookedMap, int13>>
  BY <1>1, MemoryKeeps DEF MapMemory, Ask
<1>3. /\ c.from \in Numbers /\ c.to \in Numbers /\ c.img.spt \in Nat \ {0} /\ c.mem
      /\ ~DT!AllOf(c) /\ c.img.spt = DT!Track(c)
  BY CommandIs DEF MapMemory, DT!Track
<1>4. CASE UNCHANGED <<mapTable, stored>> /\ Ask(c, FALSE)
  <2>1. DT!Command
    BY <1>2, <1>4, NothingHappens, Refused DEF Ask
  <2> QED
    BY <1>1, <1>2, <1>4, <2>1 DEF TableInv
<1>5. /\ n \in Nat \ {0} /\ source = DT!Image(c)
      /\ Len(DT!Image(c)) = n /\ DOMAIN DT!Image(c) = 1 .. n
  BY <1>1, SourceIs DEF MapMemory
<1>6. PICK total \in Nat : /\ total = need /\ total % 2 = 0 /\ n + Ahead(c) <= total
  BY <1>5, NeededIs, NeededIsNumber
<1>7. PICK ahead \in Nat : ahead = Ahead(c) /\ ahead \in {0, c.img.spt}
  BY <1>3, NeededIs, <1>5
<1>8. CASE /\ Fitting(need) # {}
           /\ \/ /\ Ask(c, TRUE)
                 /\ stored' = Transfer(c, place, need, source)
                 /\ mapTable' = WithSlot(s)
              \/ /\ Ask(c, FALSE)
                 /\ stored' = [stored EXCEPT ![<<Mem, place + Ahead(c)>>] = <<"junk">>]
                 /\ UNCHANGED mapTable
  <2>1. h \in DOMAIN Regions /\ Base(Regions[h], need) >= MinEmuBase
    <3>1. Fitting(need) \in SUBSET Nat
      BY DriveMapAssumption DEF Fitting
    <3>2. h \in Fitting(need)
      BY <1>8, <3>1, Least
    <3> QED
      BY <3>2 DEF Fitting
  <2>2. PICK base \in Nat : base = place /\ base > 0 /\ Fits(Mem, base, total)
    <3>1. place \in Nat \ {0} /\ Fits(Mem, place, total)
      BY <1>1, <1>6, <2>1, BaseInRegion
    <3> QED
      BY <3>1
  <2> DEFINE room == Room(base, total)
  <2>3. ASSUME NEW a \in base .. base + total - 1
        PROVE  a \in MemSectors /\ <<Mem, a>> \in DT!Free
    BY <1>1, <1>6, <2>1, <2>2, RoomIsFree
  <2>4. room \subseteq DT!Free /\ room \subseteq AllPlaces
    <3>1. room \subseteq {<<Mem, a>> : a \in MemSectors}
      BY <2>3 DEF Room
    <3>2. {<<Mem, a>> : a \in MemSectors} \subseteq AllPlaces
      BY DEF AllPlaces
    <3> QED
      BY <2>3, <3>1, <3>2 DEF Room
  <2>5. CASE /\ Ask(c, FALSE) /\ UNCHANGED mapTable
             /\ stored' = [stored EXCEPT ![<<Mem, place + Ahead(c)>>] = <<"junk">>]
    <3>1. PICK at : at = <<Mem, place + Ahead(c)>> /\ at \in DT!Free
      <4>1. base + ahead \in base .. base + total - 1
        BY <1>5, <1>6, <1>7
      <4> QED
        BY <1>7, <2>2, <2>3, <4>1
    <3>2. stored' = [stored EXCEPT ![at] = <<"junk">>]
      BY <2>5, <3>1
    <3>3. \A p \in DOMAIN stored : stored'[p] = stored[p] \/ p \in DT!Free
      BY <3>1, <3>2
    <3>4. stored' = [p \in AllPlaces |-> stored'[p]]
      BY <3>2 DEF TableInv
    <3>5. DT!Fails
      BY <1>2, <2>5, <3>3 DEF DT!Fails, ShownDisk
    <3>6. DT!Command
      BY <2>5, <3>5, Refused DEF Ask
    <3> QED
      BY <1>1, <1>2, <2>5, <3>4, <3>6 DEF TableInv
  <2>6. CASE /\ Ask(c, TRUE) /\ mapTable' = WithSlot(s)
             /\ stored' = Transfer(c, place, need, source)
    <3>1. /\ s \in GoodSlot /\ s.from = c.from /\ s.to = Mem
          /\ s.start = base /\ s.count = total
      <4>1. Resolved(c).o \in OptionType
        BY <1>1, ResolvedFits
      <4>2. s \in GoodSlot
        BY <1>3, <1>6, <2>2, <4>1, SlotIsGood
      <4> QED
        BY <1>6, <2>2, <4>2 DEF Slot
    <3>2. PICK new : new = SlotDisk(s)
      OBVIOUS
    <3>3. InMemory(new, base, total)
      <4>1. /\ SlotDisk(s).secs = [k \in 1 .. s.count |-> <<Mem, s.start + k - 1>>]
            /\ SlotDisk(s).emulated
            /\ DT!Places(SlotDisk(s)) = {<<Mem, a>> : a \in s.start .. s.start + s.count - 1}
        BY <3>1, MemoryPlaces
      <4>2. PICK t : t = s
        OBVIOUS
      <4>3. /\ new.secs = [k \in 1 .. t.count |-> <<Mem, t.start + k - 1>>]
            /\ new.emulated
            /\ DT!Places(new) = {<<Mem, a>> : a \in t.start .. t.start + t.count - 1}
        BY <3>2, <4>1, <4>2, Zenon
      <4>4. t.start = base /\ t.count = total
        BY <3>1, <4>2, Zenon
      <4> QED
        BY <4>3, <4>4 DEF InMemory, Room
    <3>4. /\ Distinct(mapTable') /\ new = DiskOf(mapTable', c.from)
          /\ \A d \in Numbers \ {c.from} : DiskOf(mapTable', d) = DiskOf(mapTable, d)
      BY <1>1, <2>6, <3>1, <3>2, GivesSlot
    <3>5. DT!Obeys(new, disk, c)
      <4>1. total % 2 = 1 <=> ~c.mem /\ c.img.count % 2 = 1
        BY <1>3, <1>6
      <4>2. Mem \in Numbers \cup {Mem}
        OBVIOUS
      <4> QED
        BY <1>1, <1>3, <1>6, <2>2, <3>2, <4>1, <4>2, NewObeys
    <3>6. DT!Gives(c)
      BY <1>2, <3>4, <3>5, GivesOne
    <3>7. stored' = Transfer(c, base, total, DT!Image(c))
      BY <1>5, <1>6, <2>2, <2>6
    <3>9. Made(c, base, total, DT!Image(c))
      BY <1>5, <1>6, <1>7, <2>4, <3>7, Transferred
    <3>13. DT!MapCopy(c)
      <4>1. InMemory(DiskOf(mapTable', c.from), base, total)
        BY <3>3, <3>4, Zenon
      <4>2. DOMAIN stored = AllPlaces
        BY DEF TableInv
      <4> QED
        BY <1>5, <1>6, <2>4, <3>6, <3>9, <4>1, <4>2, CopyIs
    <3>14. DT!Map(c)
      BY <1>3, <3>13, Zenon DEF DT!Map
    <3>15. DT!Command
      BY <2>6, <3>14, Carried DEF Ask
    <3> QED
      BY <1>2, <3>4, <3>9, <3>15 DEF TableInv, Made
  <2> QED
    BY <1>8, <2>5, <2>6
<1> QED
  BY <1>4, <1>8 DEF MapMemory

---------------------------------------------------------------------------
(* The other steps. *)

LEMMA NoSlots == \A d \in Numbers : DiskOf(<<>>, d) = DT!BiosDisk(d)
<1>1. <<>> \in Seq(GoodSlot)
  OBVIOUS
<1>2. ASSUME NEW d \in Numbers PROVE \A i \in 1 .. Len(<<>>) : <<>>[i].from # d
  OBVIOUS
<1> QED
  BY <1>1, <1>2, DiskOfNone

\* Without slots there is no handler, and no number was given a disk.
LEMMA HookShows ==
  ASSUME TableInv, HookMap
  PROVE  DT!Command /\ TableInv'
<1>1. UNCHANGED <<mapTable, stored>> /\ command' = [op |-> "hook", done |-> mapTable # <<>>]
  BY DEF HookMap
<1>2. ASSUME NEW d \in Numbers
      PROVE  DiskOf(IF int13' THEN hookedMap' ELSE <<>>, d) = DiskOf(mapTable, d)
  BY DEF HookMap
<1>3. ShownDisk' = [d \in Numbers |-> DiskOf(mapTable, d)]
  BY <1>2 DEF ShownDisk
<1>4. DT!Hook
  BY <1>1, <1>3 DEF DT!Hook
<1>5. DT!Command
  BY <1>1, <1>4 DEF DT!Command
<1>6. MapInv'
  BY DEF TableInv, MapInv, HookMap
<1> QED
  BY <1>1, <1>5, <1>6 DEF TableInv

LEMMA UnhookShows ==
  ASSUME TableInv, UnhookMap
  PROVE  DT!Command /\ TableInv'
<1>1. /\ UNCHANGED <<mapTable, hookedMap, stored>> /\ int13' = FALSE
      /\ command' = [op |-> "unhook", done |-> TRUE]
  BY DEF UnhookMap
<1>2. ShownDisk' = [d \in Numbers |-> DT!BiosDisk(d)]
  BY <1>1, NoSlots DEF ShownDisk
<1>3. DT!Unhook
  BY <1>1, <1>2 DEF DT!Unhook
<1>4. DT!Command
  BY <1>1, <1>3 DEF DT!Command
<1> QED
  BY <1>1, <1>4 DEF TableInv, MapInv

LEMMA WriteServed ==
  ASSUME TableInv, NEW d \in Numbers, NEW r, r = Request(d, "lba", TRUE, 1, 1), WriteThrough(r)
  PROVE  DT!Command /\ TableInv'
<1>1. /\ UNCHANGED <<mapTable, hookedMap, int13>> /\ int13
      /\ command' = [op |-> "write", c |-> r]
      /\ stored' = [p \in AllPlaces |->
           IF \E i \in DOMAIN Int13(r).moved : Int13(r).moved[i] = p THEN r.value ELSE stored[p]]
  BY DEF WriteThrough
<1>2. PICK out : out = Int13(r)
  OBVIOUS
<1>3. out \in DT!Serve(ShownDisk[d], r)
  <2>1. ServesAll
    BY Serves DEF TableInv
  <2>2. 1 \in Nat \ {0} /\ "lba" \in {"chs", "lba"} /\ TRUE \in BOOLEAN
    OBVIOUS
  <2>3. Int13(Request(d, "lba", TRUE, 1, 1)) \in
          DT!Serve(ShownDisk[d], Request(d, "lba", TRUE, 1, 1))
    BY <1>1, <2>1, <2>2 DEF ServesAll
  <2> QED
    BY <1>2, <2>3, Zenon
<1>4. r.drive = d
  BY DEF Request
<1>5. DOMAIN stored = AllPlaces
  BY DEF TableInv
<1>6. stored' = [p \in DOMAIN stored |->
                   IF \E i \in DOMAIN out.moved : out.moved[i] = p THEN r.value ELSE stored[p]]
  BY <1>1, <1>2, <1>5, Zenon
<1>7. ShownDisk' = ShownDisk
  BY <1>1 DEF ShownDisk
<1>8. DT!Write(r)
  <2>1. out \in DT!Serve(ShownDisk[r.drive], r)
    BY <1>3, <1>4
  <2>2. UNCHANGED [n \in Numbers |-> DiskOf(mapTable, n)]
    BY <1>1
  <2> QED
    BY <1>6, <1>7, <2>1, <2>2, Zenon DEF DT!Write
<1>9. DT!Command
  BY <1>1, <1>8 DEF DT!Command
<1>10. stored' = [p \in AllPlaces |-> stored'[p]]
  BY <1>1
<1> QED
  BY <1>1, <1>9, <1>10 DEF TableInv, MapInv

LEMMA TableInit == MapInit => DT!TableInit /\ TableInv
<1> SUFFICES ASSUME MapInit PROVE DT!TableInit /\ TableInv
  OBVIOUS
<1>1. mapTable = <<>> /\ int13 = FALSE /\ command = [op |-> "none"]
  BY DEF MapInit
<1>2. /\ [d \in Numbers |-> DiskOf(mapTable, d)] = [d \in Numbers |-> DT!BiosDisk(d)]
      /\ ShownDisk = [d \in Numbers |-> DT!BiosDisk(d)]
  BY <1>1, NoSlots DEF ShownDisk
<1>3. Distinct(mapTable)
  BY <1>1 DEF Distinct
<1>4. stored = [p \in AllPlaces |-> stored[p]]
  <2>1. stored = [p \in AllPlaces |-> p]
    BY DEF MapInit
  <2> QED
    BY <2>1
<1> QED
  BY <1>1, <1>2, <1>3, <1>4, MapInvInit DEF DT!TableInit, TableInv

LEMMA TableStep == TableInv /\ [MapNext]_mapVars => [DT!Command]_(DT!tableVars) /\ TableInv'
<1> SUFFICES ASSUME TableInv, [MapNext]_mapVars PROVE [DT!Command]_(DT!tableVars) /\ TableInv'
  OBVIOUS
<1>1. CASE UNCHANGED mapVars
  <2>1. UNCHANGED <<mapTable, hookedMap, int13, stored, command>>
    BY <1>1 DEF mapVars
  <2>2. UNCHANGED DT!tableVars
    BY <2>1 DEF DT!tableVars, ShownDisk
  <2> QED
    BY <2>1, <2>2 DEF TableInv, MapInv
<1>2. ASSUME NEW c \in Commands, MapDelete(c) PROVE DT!Command /\ TableInv'
  BY <1>2, DeleteUnmaps
<1>3. ASSUME NEW c \in Commands, MapDirect(c) PROVE DT!Command /\ TableInv'
  BY <1>3, DirectGives
<1>4. ASSUME NEW c \in Commands, MapMemory(c) PROVE DT!Command /\ TableInv'
  BY <1>4, CopyGives
<1>5. CASE HookMap
  BY <1>5, HookShows
<1>6. CASE UnhookMap
  BY <1>6, UnhookShows
<1>7. ASSUME NEW d \in Numbers, WriteThrough(Request(d, "lba", TRUE, 1, 1))
      PROVE  DT!Command /\ TableInv'
  BY <1>7, WriteServed
<1> QED
  BY <1>1, <1>2, <1>3, <1>4, <1>5, <1>6, <1>7 DEF MapNext

\* DriveMap implements DriveTable, for every table size, disk, memory and set
\* of commands: whatever is mapped, remapped, deleted, hooked and unhooked, a
\* number shows from the next hook on the disk it was given, and what a disk
\* in memory was given is a true copy in memory that no other disk uses
\* (ImplementsDriveTable, map_func).
THEOREM MapImplementsTable == MapSpec => ImplementsDriveTable
BY TableInit, TableStep, PTL DEF MapSpec, ImplementsDriveTable, DT!TableSpec
=============================================================================
