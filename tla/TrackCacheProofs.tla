------------------------- MODULE TrackCacheProofs -------------------------
(***************************************************************************)
(* Theorems about the track cache, for any drives, disks, sizes and track  *)
(* lengths: it is coherent with the disks, and the layer implements a disk *)
(* without a cache.                                                        *)
(***************************************************************************)
EXTENDS TrackCache, TLAPS

\* m sectors of a disk with the contents c, from sector a.
Piece(c, a, m) == [i \in 1 .. m |-> c[a + i - 1]]

\* The sectors rawread has copied when it is about to read `sector'.
Prefix(k) == Piece(content[k], asked.from,
                   Lowest(sector, asked.to + 1) - asked.from)

\* What a read has given its caller is the first part of what it was asked
\* for, as it is on the disk; a write is to the cache's drive.
CallUnderway ==
  /\ asked.op = "read" =>
       /\ asked.value = NoValue
       /\ asked.from <= sector
       /\ bufDrive # asked.drive => sector = asked.from
       /\ got = Prefix(unit[asked.drive])
       /\ sector > asked.from =>
            Lowest(sector, asked.to + 1) <= Size[unit[asked.drive]]
  /\ asked.op = "write" =>
       /\ asked.value \in Values
       /\ asked.to = asked.from
       /\ bufDrive = asked.drive

Inv == TypeOK /\ CacheCoherent /\ CallUnderway

---------------------------------------------------------------------------
(***************************************************************************)
(* Facts about numbers and sequences.                                      *)
(***************************************************************************)

\* sector - sector % p is the first sector of a track of p sectors.
LEMMA TrackStart ==
  ASSUME NEW p \in Nat \ {0}, NEW s \in Nat
  PROVE  /\ s % p \in 0 .. p - 1
         /\ s - (s % p) \in Nat
         /\ (s - (s % p)) % p = 0
<1>1. s % p \in 0 .. p - 1
  BY SMT
<1>2. s = p * (s \div p) + (s % p) /\ s \div p \in Nat
  BY SMT
<1>3. s - (s % p) = p * (s \div p) /\ p * (s \div p) \in Nat
  BY <1>1, <1>2, SMT
<1>4. (p * (s \div p)) % p = 0
  <2>1. PICK q \in Nat : q = s \div p
    BY <1>2
  <2>2. (p * q) % p = 0
    BY SMT
  <2> QED BY <2>1, <2>2
<1> QED BY <1>1, <1>3, <1>4

\* Every sector of the track that starts at t is found to be of that track.
LEMMA OneTrack ==
  ASSUME NEW p \in Nat \ {0}, NEW t \in Nat, NEW i \in 0 .. p - 1, t % p = 0
  PROVE  (t + i) - ((t + i) % p) = t
<1>1. PICK q \in Nat : t = p * q
  BY SMT
<1>2. ((p * q) + i) % p = i
  BY SMT
<1> QED BY <1>1, <1>2, SMT

\* Two pieces of a disk that follow each other make one piece.
LEMMA Joined ==
  ASSUME NEW c, NEW a \in Nat, NEW m \in Nat, NEW n \in Nat
  PROVE  Piece(c, a, m) \o Piece(c, a + m, n) = Piece(c, a, m + n)
<1> DEFINE S == {c[j] : j \in Nat}
<1> DEFINE f == Piece(c, a, m)
<1> DEFINE g == Piece(c, a + m, n)
<1>1. f \in Seq(S) /\ Len(f) = m
  BY SMT DEF Piece
<1>2. g \in Seq(S) /\ Len(g) = n
  BY SMT DEF Piece
<1>3. f \o g \in Seq(S) /\ Len(f \o g) = m + n
  BY <1>1, <1>2, SMT
<1>4. ASSUME NEW i \in 1 .. m + n PROVE (f \o g)[i] = c[a + i - 1]
  <2>1. (f \o g)[i] = IF i <= m THEN f[i] ELSE g[i - m]
    BY <1>1, <1>2, SMT
  <2> QED BY <2>1, SMT DEF Piece
<1> QED BY <1>3, <1>4, SMT DEF Piece

---------------------------------------------------------------------------
(***************************************************************************)
(* The invariant is inductive.                                             *)
(***************************************************************************)

\* The machine starts in it.
LEMMA InitInv == Init => Inv
<1> SUFFICES ASSUME Init PROVE Inv
  OBVIOUS
<1>1. TypeOK
  BY DisksAssumption DEF Init, TypeOK, Idle, Call, Failed, Junk
<1>2. CacheCoherent
  BY DEF Init, CacheCoherent
<1>3. CallUnderway
  BY DEF Init, CallUnderway, Idle, Call
<1> QED BY <1>1, <1>2, <1>3 DEF Inv

\* get_diskinfo's geometry is a track that fits the buffer.
LEMMA GeometryFits ==
  ASSUME NEW k \in Disks
  PROVE  Geometry(k) \in 1 .. BufferLen
BY DisksAssumption DEF Geometry, Lowest

\* Actions between the calls.
LEMMA BetweenInv == Inv /\ Between => Inv'
<1> SUFFICES ASSUME Inv, Between PROVE Inv'
  OBVIOUS
<1> USE DEF machine, cache, call
<1>1. ASSUME NEW d \in Removable, NEW k \in Disks \cup {NoDisk}, Exchange(d, k)
      PROVE  Inv'
  <2>1. asked = Idle
    BY <1>1 DEF Inv, TypeOK, Exchange, Call, Idle
  <2>2. TypeOK'
    BY <1>1, <2>1, DisksAssumption DEF Inv, TypeOK, Exchange
  <2>3. CacheCoherent'
    BY <1>1 DEF CacheCoherent, Exchange
  <2>4. CallUnderway'
    BY <1>1, <2>1 DEF CallUnderway, Exchange, Idle, Call
  <2> QED BY <2>2, <2>3, <2>4 DEF Inv
<1>2. CASE StartCommand
  <2>1. asked = Idle
    BY <1>2 DEF Inv, TypeOK, StartCommand, Call, Idle
  <2>2. TypeOK'
    BY <1>2, <2>1 DEF Inv, TypeOK, StartCommand
  <2>3. CacheCoherent'
    BY <1>2 DEF CacheCoherent, StartCommand
  <2>4. CallUnderway'
    BY <1>2, <2>1 DEF CallUnderway, StartCommand, Idle, Call
  <2> QED BY <2>2, <2>3, <2>4 DEF Inv
<1>3. CASE EndCommand
  <2>2. TypeOK'
    BY <1>3 DEF Inv, TypeOK, EndCommand
  <2>3. CacheCoherent'
    BY <1>3 DEF CacheCoherent, EndCommand
  <2>4. CallUnderway'
    BY <1>3 DEF CallUnderway, EndCommand, Idle, Call
  <2> QED BY <2>2, <2>3, <2>4 DEF Inv
<1>4. ASSUME NEW d \in Drives, NEW e \in Drives, Hook(d, e)
      PROVE  Inv'
  <2>2. TypeOK'
    BY <1>4 DEF Inv, TypeOK, Hook
  <2>3. CacheCoherent'
    BY <1>4 DEF CacheCoherent, Hook
  <2>4. CallUnderway'
    BY <1>4 DEF CallUnderway, Hook, Idle, Call
  <2> QED BY <2>2, <2>3, <2>4 DEF Inv
<1>5. ASSUME NEW d \in Drives, OpenPartition(d)
      PROVE  Inv'
  <2>1. Geometry(unit[d]) \in 1 .. BufferLen
    BY <1>5, GeometryFits DEF OpenPartition
  <2>2. TypeOK'
    BY <1>5, <2>1, DisksAssumption DEF Inv, TypeOK, OpenPartition, TakeGeometry
  <2>3. CacheCoherent'
    BY <1>5 DEF Inv, CacheCoherent, OpenPartition, TakeGeometry
  <2>4. CallUnderway'
    BY <1>5 DEF CallUnderway, OpenPartition, Idle, Call
  <2> QED BY <2>2, <2>3, <2>4 DEF Inv
<1> QED BY <1>1, <1>2, <1>3, <1>4, <1>5 DEF Between

\* The beginning of a call.
LEMMA AskingInv == Inv /\ Asking => Inv'
<1> SUFFICES ASSUME Inv, Asking PROVE Inv'
  OBVIOUS
<1> USE DEF machine, cache, call
<1>1. ASSUME NEW d \in Drives, NEW from \in Wanted, NEW to \in Wanted,
             AskRead(d, from, to)
      PROVE  Inv'
  <2>1. from \in Nat /\ to \in Nat
    BY DisksAssumption
  <2>2. TypeOK'
    BY <1>1, <2>1 DEF Inv, TypeOK, AskRead, Begin, Call, Failed
  <2>3. CacheCoherent'
    BY <1>1 DEF Inv, CacheCoherent, AskRead, Begin
  <2>4. CallUnderway'
    <3>1. /\ asked' = Call("read", d, from, to, NoValue)
          /\ sector' = from /\ got' = <<>>
      BY <1>1 DEF AskRead, Begin, Call
    <3>2. Lowest(from, to + 1) - from = 0
      BY <1>1, <2>1 DEF Lowest, AskRead
    <3>3. got' = Prefix(unit[asked.drive])'
      BY <3>1, <3>2, <2>1 DEF Prefix, Piece, Call
    <3> QED BY <3>1, <3>3, <2>1 DEF CallUnderway, Call
  <2> QED BY <2>2, <2>3, <2>4 DEF Inv
<1>2. ASSUME NEW d \in Drives, NEW s \in Targets, NEW v \in Written,
             AskWrite(d, s, v)
      PROVE  Inv'
  <2>1. s \in Nat /\ v \in Values
    BY DisksAssumption
  <2>2. TypeOK'
    BY <1>2, <2>1 DEF Inv, TypeOK, AskWrite, Begin, Call, Failed
  <2>3. CacheCoherent'
    BY <1>2 DEF Inv, CacheCoherent, AskWrite, Begin
  <2>4. CallUnderway'
    BY <1>2, <2>1 DEF CallUnderway, AskWrite, Begin, Call
  <2> QED BY <2>2, <2>3, <2>4 DEF Inv
<1> QED BY <1>1, <1>2 DEF Asking

\* What rawread knows as it goes round its loop.
LEMMA Loop ==
  ASSUME Inv, Looping
  PROVE  /\ unit[asked.drive] \in Disks
         /\ geom \in Nat \ {0} /\ geom <= BufferLen /\ VTrack = geom
         /\ Soff \in 0 .. geom - 1
         /\ sector \in Nat
         /\ Track \in Nat /\ Track % geom = 0 /\ sector = Track + Soff
         /\ NumSect = geom - Soff
         /\ Slen \in Nat \ {0}
         /\ asked.from \in Nat /\ asked.to \in Nat /\ asked.from <= sector
         /\ pc = "command" /\ bufDrive # NoDrive
<1>1. /\ asked.drive \in Drives /\ asked.from \in Nat /\ asked.to \in Nat
      /\ pc = "command" /\ sector \in Nat /\ bufDrive # NoDrive
      /\ asked.from <= sector
  BY DisksAssumption DEF Inv, TypeOK, CallUnderway, Looping, Idle, Call
<1>2. unit[asked.drive] \in Disks /\ geom = Geometry(unit[asked.drive])
  BY <1>1 DEF Inv, CacheCoherent, Looping
<1>3. geom \in 1 .. BufferLen
  BY <1>2, GeometryFits
<1>4. VTrack = geom
  <2>1. BufferLen \in Nat /\ geom \in Nat /\ geom <= BufferLen
    BY <1>3, DisksAssumption
  <2> QED BY <2>1 DEF VTrack, Lowest
<1>5. /\ sector % geom \in 0 .. geom - 1
      /\ sector - (sector % geom) \in Nat
      /\ (sector - (sector % geom)) % geom = 0
  <2>1. PICK p \in Nat \ {0} : p = geom
    BY <1>3, DisksAssumption
  <2>2. PICK n \in Nat : n = sector
    BY <1>1
  <2> QED BY <2>1, <2>2, TrackStart
<1>6. Soff = sector % geom /\ Track = sector - (sector % geom)
      /\ NumSect = geom - Soff
  BY <1>4 DEF Soff, Track, NumSect
<1>7. Slen \in Nat \ {0}
  BY <1>1 DEF Slen, Looping
<1>8. /\ Soff \in 0 .. geom - 1
      /\ Track \in Nat /\ Track % geom = 0
  BY <1>5, <1>6
<1>9. sector = Track + Soff
  <2>1. PICK r \in Nat : r = sector % geom
    BY <1>5
  <2> QED BY <2>1, <1>1, <1>6
<1>10. geom \in Nat \ {0} /\ geom <= BufferLen
  BY <1>3, DisksAssumption
<1> QED BY <1>1, <1>2, <1>4, <1>6, <1>7, <1>8, <1>9, <1>10

\* A turn of the loop that copies the right sectors keeps the call on course.
LEMMA TurnOfLoop ==
  ASSUME Inv, Looping, NEW at \in Nat, NEW buf,
         \A n \in 1 .. Size1 :
            buf[at + n - 1] = content[unit[asked.drive]][sector + n - 1],
         sector + Size1 <= Size[unit[asked.drive]],
         Advance(buf, at), UNCHANGED <<unit, content, bufDrive>>
  PROVE  CallUnderway' /\ sector' \in Nat
<1> DEFINE k == unit[asked.drive]
<1> DEFINE m == sector - asked.from
<1>1. /\ m \in Nat /\ asked.from \in Nat /\ asked.to \in Nat /\ sector \in Nat
      /\ NumSect \in Nat \ {0} /\ sector <= asked.to
      /\ Slen = asked.to - sector + 1
  BY Loop DEF Looping, Slen
<1>2. Size1 \in Nat /\ sector + Size1 = Lowest(sector + NumSect, asked.to + 1)
  BY <1>1 DEF Size1, Lowest
<1>3. got = Piece(content[k], asked.from, m)
  <2>1. Lowest(sector, asked.to + 1) - asked.from = m
    BY <1>1 DEF Lowest
  <2>2. got = Prefix(k)
    BY DEF Inv, CallUnderway, Looping
  <2> QED BY <2>1, <2>2 DEF Prefix
<1>4. got' = Piece(content[k], asked.from, m + Size1)
  <2>1. got' = got \o Copied(buf, at)
    BY DEF Advance
  <2>2. Copied(buf, at) = Piece(content[k], asked.from + m, Size1)
    BY <1>1, <1>2 DEF Copied, Piece
  <2>3. PICK a \in Nat : a = asked.from
    BY <1>1
  <2>4. PICK x \in Nat : x = m
    BY <1>1
  <2>5. PICK y \in Nat : y = Size1
    BY <1>2
  <2>6. PICK c : c = content[k]
    OBVIOUS
  <2>7. Piece(c, a, x) \o Piece(c, a + x, y) = Piece(c, a, x + y)
    BY Joined
  <2> QED BY <2>1, <2>2, <2>3, <2>4, <2>5, <2>6, <2>7, <1>3
<1>5. sector' = sector + NumSect /\ asked' = asked
  BY DEF Advance
<1>6. (Lowest(sector, asked.to + 1) - asked.from)' = m + Size1
  BY <1>1, <1>2, <1>5
<1>7. got' = Prefix(k)'
  BY <1>4, <1>5, <1>6 DEF Prefix
<1>8. Lowest(sector, asked.to + 1)' <= Size[k]
  BY <1>1, <1>2, <1>5
<1> QED BY <1>1, <1>5, <1>7, <1>8 DEF Inv, CallUnderway, Looping

\* What a transfer leaves in the buffer.
LEMMA Transferred ==
  ASSUME Inv, NEW d \in Drives, NEW s \in Nat, NEW n \in 0 .. BufferLen,
         InReach(d, s, n)
  PROVE  /\ Loaded(d, s, n) \in [0 .. BufferLen - 1 -> Values \cup {NoValue}]
         /\ \A i \in 0 .. n - 1 : Loaded(d, s, n)[i] = content[unit[d]][s + i]
<1>1. /\ unit[d] \in Disks
      /\ content[unit[d]] \in [0 .. Size[unit[d]] - 1 -> Values]
      /\ Size[unit[d]] \in Nat /\ s + n <= Size[unit[d]]
  BY DisksAssumption DEF InReach, Inv, TypeOK, SectorsOf
<1>2. ASSUME NEW i \in 0 .. n - 1 PROVE content[unit[d]][s + i] \in Values
  <2>1. PICK z \in Nat : z = Size[unit[d]]
    BY <1>1
  <2>2. n \in Nat
    BY DisksAssumption
  <2>3. s + i \in 0 .. z - 1
    BY <1>1, <2>1, <2>2
  <2> QED BY <1>1, <2>1, <2>3
<1>3. buffer \in [0 .. BufferLen - 1 -> Values \cup {NoValue}]
  BY DEF Inv, TypeOK
<1>4. \A i \in 0 .. n - 1 : i \in 0 .. BufferLen - 1 /\ i < n
  BY DisksAssumption
<1>5. ASSUME NEW i \in 0 .. BufferLen - 1
      PROVE  Loaded(d, s, n)[i] \in Values \cup {NoValue}
  <2>1. CASE i < n
    <3>1. i \in 0 .. n - 1
      BY <2>1, DisksAssumption
    <3> QED BY <3>1, <2>1, <1>2 DEF Loaded
  <2>2. CASE ~ (i < n)
    BY <2>2, <1>3 DEF Loaded
  <2> QED BY <2>1, <2>2
<1>6. \A i \in 0 .. n - 1 : Loaded(d, s, n)[i] = content[unit[d]][s + i]
  BY <1>4 DEF Loaded
<1>7. Loaded(d, s, n) = [i \in 0 .. BufferLen - 1 |-> Loaded(d, s, n)[i]]
  BY DEF Loaded
<1> QED BY <1>5, <1>6, <1>7

\* The turns of rawread's loop.
LEMMA ReadHitInv == Inv /\ ReadHit => Inv'
<1> SUFFICES ASSUME Inv, ReadHit PROVE Inv'
  OBVIOUS
<1> USE DEF machine, cache, call
<1> DEFINE k == unit[asked.drive]
<1>1. Looping /\ Track = bufTrack /\ Advance(buffer, Soff)
      /\ UNCHANGED <<unit, content, pc, bufDrive, bufTrack, geom, buffer>>
  BY DEF ReadHit
<1>2. /\ Soff \in 0 .. geom - 1 /\ geom \in Nat /\ Track \in Nat
      /\ sector = Track + Soff /\ sector \in Nat /\ pc = "command"
      /\ bufDrive # NoDrive /\ NumSect = geom - Soff /\ Slen \in Nat
  BY <1>1, Loop
<1>3. Size1 \in Nat /\ Size1 <= geom - Soff
  BY <1>2 DEF Size1, Lowest
<1>4. /\ Track + geom <= Size[k]
      /\ \A i \in 0 .. geom - 1 : buffer[i] = content[k][Track + i]
  BY <1>1, <1>2 DEF Inv, CacheCoherent, Looping
<1>5. \A n \in 1 .. Size1 : buffer[Soff + n - 1] = content[k][sector + n - 1]
  <2> SUFFICES ASSUME NEW n \in 1 .. Size1
               PROVE  buffer[Soff + n - 1] = content[k][sector + n - 1]
    OBVIOUS
  <2>1. Soff + n - 1 \in 0 .. geom - 1
        /\ sector + n - 1 = Track + (Soff + n - 1)
    BY <1>2, <1>3
  <2> QED BY <2>1, <1>4
<1>6. Size[k] \in Nat
  BY <1>1, Loop, DisksAssumption
<1>7. sector + Size1 <= Size[k]
  BY <1>2, <1>3, <1>4, <1>6
<1>8. CallUnderway' /\ sector' \in Nat
  <2>1. PICK buf : buf = buffer
    OBVIOUS
  <2>2. PICK at \in Nat : at = Soff
    BY <1>2
  <2>3. \A n \in 1 .. Size1 :
           buf[at + n - 1] = content[unit[asked.drive]][sector + n - 1]
    BY <2>1, <2>2, <1>5
  <2>4. Advance(buf, at) /\ UNCHANGED <<unit, content, bufDrive>>
    BY <2>1, <2>2, <1>1
  <2> HIDE DEF k
  <2>5. sector + Size1 <= Size[unit[asked.drive]]
    BY <1>7 DEF k
  <2> QED BY <2>3, <2>4, <2>5, <1>1, TurnOfLoop
<1>9. TypeOK'
  BY <1>1, <1>8 DEF Inv, TypeOK, Advance
<1>10. CacheCoherent'
  BY <1>1 DEF Inv, CacheCoherent
<1> QED BY <1>8, <1>9, <1>10 DEF Inv

LEMMA ReadTrackInv == Inv /\ ReadTrack => Inv'
<1> SUFFICES ASSUME Inv, ReadTrack PROVE Inv'
  OBVIOUS
<1> USE DEF machine, cache, call
<1> DEFINE k == unit[asked.drive]
<1>1. Looping /\ Advance(buffer', Soff) /\ bufTrack' = Track
      /\ InReach(asked.drive, Track, VTrack)
      /\ buffer' = Loaded(asked.drive, Track, VTrack)
      /\ UNCHANGED <<unit, content, pc, bufDrive, geom>>
  BY DEF ReadTrack
<1>2. /\ Soff \in 0 .. geom - 1 /\ geom \in Nat /\ Track \in Nat
      /\ sector = Track + Soff /\ sector \in Nat /\ pc = "command"
      /\ bufDrive # NoDrive /\ NumSect = geom - Soff /\ Slen \in Nat
      /\ VTrack = geom /\ geom <= BufferLen /\ Track % geom = 0
      /\ k \in Disks
  BY <1>1, Loop
<1>3. Size1 \in Nat /\ Size1 <= geom - Soff
  BY <1>2 DEF Size1, Lowest
<1>4. asked.drive \in Drives
  BY <1>1 DEF Inv, TypeOK, Looping, Idle, Call
<1>5. /\ buffer' \in [0 .. BufferLen - 1 -> Values \cup {NoValue}]
      /\ \A i \in 0 .. geom - 1 : buffer'[i] = content[k][Track + i]
  <2>1. PICK d \in Drives : d = asked.drive
    BY <1>4
  <2>2. PICK s \in Nat : s = Track
    BY <1>2
  <2>3. PICK n \in 0 .. BufferLen : n = geom
    BY <1>2, DisksAssumption
  <2>4. InReach(d, s, n)
    BY <1>1, <1>2, <2>1, <2>2, <2>3
  <2>5. /\ Loaded(d, s, n) \in [0 .. BufferLen - 1 -> Values \cup {NoValue}]
        /\ \A i \in 0 .. n - 1 : Loaded(d, s, n)[i] = content[unit[d]][s + i]
    BY <2>4, Transferred
  <2> QED BY <2>1, <2>2, <2>3, <2>5, <1>1, <1>2
<1>6. Track + geom <= Size[k] /\ Size[k] \in Nat
  BY <1>1, <1>2, DisksAssumption DEF InReach
<1>7. \A n \in 1 .. Size1 : buffer'[Soff + n - 1] = content[k][sector + n - 1]
  <2> SUFFICES ASSUME NEW n \in 1 .. Size1
               PROVE  buffer'[Soff + n - 1] = content[k][sector + n - 1]
    OBVIOUS
  <2>1. Soff + n - 1 \in 0 .. geom - 1
        /\ sector + n - 1 = Track + (Soff + n - 1)
    BY <1>2, <1>3
  <2> QED BY <2>1, <1>5
<1>8. sector + Size1 <= Size[k]
  BY <1>2, <1>3, <1>6
<1>9. CallUnderway' /\ sector' \in Nat
  <2>1. PICK buf : buf = buffer'
    OBVIOUS
  <2>2. PICK at \in Nat : at = Soff
    BY <1>2
  <2>3. \A n \in 1 .. Size1 :
           buf[at + n - 1] = content[unit[asked.drive]][sector + n - 1]
    BY <2>1, <2>2, <1>7
  <2>4. Advance(buf, at) /\ UNCHANGED <<unit, content, bufDrive>>
    BY <2>1, <2>2, <1>1
  <2>5. sector + Size1 <= Size[unit[asked.drive]]
    BY <1>8
  <2> QED BY <2>3, <2>4, <2>5, <1>1, TurnOfLoop
<1>10. TypeOK'
  BY <1>1, <1>2, <1>5, <1>9 DEF Inv, TypeOK, Advance
<1>11. CacheCoherent'
  <2>1. geom = Geometry(k) /\ bufDrive = asked.drive
    BY <1>1, <1>2 DEF Inv, CacheCoherent, Looping
  <2>2. geom' = geom /\ bufTrack' = Track /\ bufDrive' = asked.drive
        /\ unit' = unit /\ content' = content
    BY <1>1, <2>1
  <2> QED BY <1>2, <1>5, <1>6, <2>1, <2>2 DEF CacheCoherent, Geometry
<1> QED BY <1>9, <1>10, <1>11 DEF Inv

LEMMA ReadPartInv == Inv /\ ReadPart => Inv'
<1> SUFFICES ASSUME Inv, ReadPart PROVE Inv'
  OBVIOUS
<1> USE DEF machine, cache, call
<1> DEFINE k == unit[asked.drive]
<1>1. Looping /\ Advance(buffer', 0) /\ bufTrack' = -1 /\ Slen > NumSect
      /\ InReach(asked.drive, sector, NumSect)
      /\ buffer' = Loaded(asked.drive, sector, NumSect)
      /\ UNCHANGED <<unit, content, pc, bufDrive, geom>>
  BY DEF ReadPart
<1>2. /\ Soff \in 0 .. geom - 1 /\ geom \in Nat /\ Slen \in Nat
      /\ sector \in Nat /\ NumSect = geom - Soff
      /\ geom <= BufferLen /\ k \in Disks
  BY <1>1, Loop
<1>3. Size1 = NumSect /\ NumSect \in 0 .. BufferLen
  BY <1>1, <1>2, DisksAssumption DEF Size1, Lowest
<1>4. asked.drive \in Drives
  BY <1>1 DEF Inv, TypeOK, Looping, Idle, Call
<1>5. /\ buffer' \in [0 .. BufferLen - 1 -> Values \cup {NoValue}]
      /\ \A i \in 0 .. Size1 - 1 : buffer'[i] = content[k][sector + i]
  <2>1. PICK d \in Drives : d = asked.drive
    BY <1>4
  <2>2. PICK s \in Nat : s = sector
    BY <1>2
  <2>3. PICK n \in 0 .. BufferLen : n = NumSect
    BY <1>3
  <2>4. InReach(d, s, n)
    BY <1>1, <2>1, <2>2, <2>3
  <2>5. /\ Loaded(d, s, n) \in [0 .. BufferLen - 1 -> Values \cup {NoValue}]
        /\ \A i \in 0 .. n - 1 : Loaded(d, s, n)[i] = content[unit[d]][s + i]
    BY <2>4, Transferred
  <2> QED BY <2>1, <2>2, <2>3, <2>5, <1>1, <1>3
<1>6. sector + Size1 <= Size[k]
  BY <1>1, <1>3 DEF InReach
<1>7. \A n \in 1 .. Size1 : buffer'[0 + n - 1] = content[k][sector + n - 1]
  <2> SUFFICES ASSUME NEW n \in 1 .. Size1
               PROVE  buffer'[0 + n - 1] = content[k][sector + n - 1]
    OBVIOUS
  <2>1. n - 1 \in 0 .. Size1 - 1 /\ 0 + n - 1 = n - 1
        /\ sector + n - 1 = sector + (n - 1)
    BY <1>2, <1>3, DisksAssumption
  <2> QED BY <2>1, <1>5
<1>8. CallUnderway' /\ sector' \in Nat
  <2>1. PICK buf : buf = buffer'
    OBVIOUS
  <2>2. \A n \in 1 .. Size1 :
           buf[0 + n - 1] = content[unit[asked.drive]][sector + n - 1]
    BY <2>1, <1>7
  <2>3. Advance(buf, 0) /\ UNCHANGED <<unit, content, bufDrive>>
    BY <2>1, <1>1
  <2>4. sector + Size1 <= Size[unit[asked.drive]]
    BY <1>6
  <2>5. PICK at \in Nat : at = 0
    OBVIOUS
  <2> QED BY <2>2, <2>3, <2>4, <2>5, <1>1, TurnOfLoop
<1>9. TypeOK'
  BY <1>1, <1>5, <1>8 DEF Inv, TypeOK, Advance
<1>10. CacheCoherent'
  <2>1. geom = Geometry(k) /\ bufDrive = asked.drive
    BY <1>1, Loop DEF Inv, CacheCoherent, Looping
  <2> QED BY <1>1, <1>2, <2>1 DEF CacheCoherent, Geometry
<1> QED BY <1>8, <1>9, <1>10 DEF Inv

\* The other steps of a call.
LEMMA GeometryInv == Inv /\ (NoGeometry \/ ReadGeometry) => Inv'
<1> SUFFICES ASSUME Inv, NoGeometry \/ ReadGeometry PROVE Inv'
  OBVIOUS
<1> USE DEF machine, cache, call
<1>1. CASE NoGeometry
  <2>1. TypeOK'
    BY <1>1 DEF Inv, TypeOK, NoGeometry, Return, Failed
  <2>2. CacheCoherent'
    BY <1>1 DEF Inv, CacheCoherent, NoGeometry, Return
  <2>3. CallUnderway'
    BY <1>1 DEF CallUnderway, NoGeometry, Return, Idle, Call
  <2> QED BY <2>1, <2>2, <2>3 DEF Inv
<1>2. CASE ReadGeometry
  <2>1. asked.drive \in Drives /\ bufDrive # asked.drive
        /\ asked.from \in Nat /\ asked.to \in Nat /\ asked.from <= asked.to
    BY <1>2 DEF Inv, TypeOK, ReadGeometry, Idle, Call
  <2>2. unit[asked.drive] \in Disks
    BY <1>2, <2>1 DEF Inv, TypeOK, ReadGeometry
  <2>3. Geometry(unit[asked.drive]) \in 1 .. BufferLen
    BY <2>2, GeometryFits
  <2>4. /\ bufDrive' = asked.drive /\ bufTrack' = -1
        /\ geom' = Geometry(unit[asked.drive])
        /\ UNCHANGED <<unit, content, pc, asked, answer, sector, got, buffer>>
    BY <1>2, <2>1 DEF ReadGeometry, TakeGeometry
  <2>5. TypeOK'
    BY <2>1, <2>3, <2>4, DisksAssumption DEF Inv, TypeOK
  <2>6. CacheCoherent'
    BY <2>2, <2>4 DEF CacheCoherent, Geometry
  <2>7. CallUnderway'
    <3>1. asked.op = "read"
      BY <1>2 DEF ReadGeometry
    <3>2. sector = asked.from /\ got = Prefix(unit[asked.drive])
          /\ asked.value = NoValue
      BY <2>1, <3>1 DEF Inv, CallUnderway
    <3>3. Prefix(unit[asked.drive])' = Prefix(unit[asked.drive])
      BY <2>4 DEF Prefix
    <3> QED BY <2>1, <2>4, <3>1, <3>2, <3>3 DEF CallUnderway
  <2> QED BY <2>5, <2>6, <2>7 DEF Inv
<1> QED BY <1>1, <1>2

LEMMA AnswerType ==
  Failed.ok \in BOOLEAN /\ \A data : Given(data).ok \in BOOLEAN
<1>1. Failed.ok = FALSE
  BY DEF Failed
<1>2. \A data : Given(data).ok = TRUE
  BY DEF Given
<1> QED BY <1>1, <1>2

LEMMA ReturnInv == Inv /\ (ReadError \/ ReadDone) => Inv'
<1> SUFFICES ASSUME Inv, ReadError \/ ReadDone PROVE Inv'
  OBVIOUS
<1> USE DEF machine, cache, call
<1>1. /\ asked' = Idle /\ sector' = 0
      /\ UNCHANGED <<unit, content, pc, bufDrive, geom>>
      /\ \/ UNCHANGED <<bufTrack, buffer>>
         \/ bufTrack' = -1 /\ buffer' = Junk
  BY DEF ReadError, ReadDone, Return
<1>5. answer'.ok \in BOOLEAN
  <2>1. answer' = Failed \/ answer' = Given(got)
    BY DEF ReadError, ReadDone, Return
  <2> QED BY <2>1, AnswerType
<1>2. TypeOK'
  BY <1>1, <1>5, DisksAssumption DEF Inv, TypeOK, Junk
<1>3. CacheCoherent'
  BY <1>1 DEF Inv, CacheCoherent
<1>4. CallUnderway'
  BY <1>1 DEF CallUnderway, Idle, Call
<1> QED BY <1>2, <1>3, <1>4 DEF Inv

\* The one sector written is patched in the buffer exactly when the buffer
\* holds it.
LEMMA WriteInv == Inv /\ (WriteSame \/ WriteSector \/ WriteError) => Inv'
<1> SUFFICES ASSUME Inv, WriteSame \/ WriteSector \/ WriteError PROVE Inv'
  OBVIOUS
<1> USE DEF machine, cache, call
<1>1. CASE WriteSame \/ WriteError
  <2>1. /\ asked' = Idle /\ sector' = 0
        /\ UNCHANGED <<unit, content, pc, bufDrive, geom, bufTrack, buffer>>
    BY <1>1 DEF WriteSame, WriteError, Return
  <2>5. answer'.ok \in BOOLEAN
    <3>1. answer' = Failed \/ answer' = Given(<<>>)
      BY <1>1 DEF WriteSame, WriteError, Return
    <3> QED BY <3>1, AnswerType
  <2>2. TypeOK'
    BY <2>1, <2>5, DisksAssumption DEF Inv, TypeOK
  <2>3. CacheCoherent'
    BY <2>1 DEF Inv, CacheCoherent
  <2>4. CallUnderway'
    BY <2>1 DEF CallUnderway, Idle, Call
  <2> QED BY <2>2, <2>3, <2>4 DEF Inv
<1>2. CASE WriteSector
  <2> DEFINE k == unit[asked.drive]
  <2> DEFINE s == asked.from
  <2> DEFINE v == asked.value
  <2>1. /\ asked' = Idle /\ sector' = 0 /\ answer'.ok \in BOOLEAN
        /\ UNCHANGED <<unit, pc, bufDrive, bufTrack, geom>>
        /\ content' = [content EXCEPT ![k][s] = v]
        /\ InReach(asked.drive, s, 1)
        /\ IF bufDrive = asked.drive /\ s - (s % geom) = bufTrack
           THEN buffer' = [buffer EXCEPT ![s - bufTrack] = v]
           ELSE UNCHANGED buffer
    BY <1>2 DEF WriteSector, Return, Given
  <2>2. /\ asked.drive \in Drives /\ bufDrive = asked.drive /\ pc = "command"
        /\ s \in Nat /\ v \in Values /\ bufDrive # NoDrive
        /\ bufTrack \in Nat \cup {-1}
        /\ buffer \in [0 .. BufferLen - 1 -> Values \cup {NoValue}]
    BY <1>2, DisksAssumption
       DEF Inv, TypeOK, CallUnderway, WriteSector, Idle, Call
  <2>3. k \in Disks /\ s < Size[k] /\ Size[k] \in Nat
    BY <2>1, <2>2, DisksAssumption DEF InReach
  <2>4. /\ geom = Geometry(k) /\ geom \in 1 .. BufferLen
    BY <2>2, <2>3, GeometryFits DEF Inv, CacheCoherent
  <2>5. bufTrack # -1 =>
          /\ bufTrack % geom = 0
          /\ bufTrack + geom <= Size[k]
          /\ \A i \in 0 .. geom - 1 : buffer[i] = content[k][bufTrack + i]
    BY <2>2 DEF Inv, CacheCoherent
  <2>6. \A j \in Disks : content[j] \in [SectorsOf(j) -> Values]
    BY DEF Inv, TypeOK
  <2>7. TypeOK'
    <3>1. content' = [j \in Disks |-> content'[j]]
          /\ \A j \in Disks : content'[j] \in [SectorsOf(j) -> Values]
      BY <2>1, <2>2, <2>6 DEF Inv, TypeOK
    <3>2. buffer' \in [0 .. BufferLen - 1 -> Values \cup {NoValue}]
      BY <2>1, <2>2
    <3> QED BY <2>1, <3>1, <3>2, <2>2 DEF Inv, TypeOK
  <2>8. CacheCoherent'
    <3>1. CASE bufTrack = -1
      BY <2>1, <2>2, <2>3, <2>4, <3>1 DEF CacheCoherent, Geometry
    <3>2. CASE bufTrack # -1
      <4>1. bufTrack \in Nat /\ geom \in Nat \ {0}
        BY <2>2, <2>4, <3>2, DisksAssumption
      <4>2. ASSUME NEW i \in 0 .. geom - 1
            PROVE  buffer'[i] = content'[k][bufTrack + i]
        <5>1. bufTrack + i \in SectorsOf(k)
          BY <4>1, <2>5, <3>2, <2>3 DEF SectorsOf
        <5>2. content'[k][bufTrack + i]
                = IF bufTrack + i = s THEN v ELSE content[k][bufTrack + i]
          BY <5>1, <2>1, <2>3, <2>6 DEF Inv, TypeOK
        <5>3. buffer[i] = content[k][bufTrack + i]
          BY <2>5, <3>2
        <5>4. CASE bufTrack + i = s
          <6>1. s - (s % geom) = bufTrack
            <7>1. PICK p \in Nat \ {0} : p = geom
              BY <4>1
            <7>2. PICK t \in Nat : t = bufTrack
              BY <4>1
            <7>3. t % p = 0 /\ i \in 0 .. p - 1
              BY <7>1, <7>2, <2>5, <3>2
            <7>4. (t + i) - ((t + i) % p) = t
              BY <7>3, OneTrack
            <7> QED BY <7>1, <7>2, <7>4, <5>4
          <6>2. buffer' = [buffer EXCEPT ![s - bufTrack] = v]
            BY <6>1, <2>1, <2>2
          <6>3. s - bufTrack = i /\ i \in 0 .. BufferLen - 1
            BY <5>4, <4>1, <2>4, DisksAssumption
          <6> QED BY <6>2, <6>3, <5>2, <5>4, <2>2
        <5>5. CASE bufTrack + i # s
          <6>1. s - bufTrack # i
            BY <5>5, <4>1, <2>2
          <6>2. buffer'[i] = buffer[i]
            BY <6>1, <2>1, <2>2, <2>4, DisksAssumption
          <6> QED BY <6>2, <5>2, <5>3, <5>5
        <5> QED BY <5>4, <5>5
      <4> QED BY <4>2, <2>1, <2>2, <2>3, <2>4, <2>5, <3>2
              DEF CacheCoherent, Geometry
    <3> QED BY <3>1, <3>2
  <2>9. CallUnderway'
    BY <2>1 DEF CallUnderway, Idle, Call
  <2> QED BY <2>7, <2>8, <2>9 DEF Inv
<1> QED BY <1>1, <1>2

LEMMA StepInv == Inv /\ [Next]_vars => Inv'
<1> SUFFICES ASSUME Inv, [Next]_vars PROVE Inv'
  OBVIOUS
<1>1. CASE UNCHANGED vars
  <2>1. TypeOK'
    BY <1>1 DEF Inv, TypeOK, vars, machine, cache, call
  <2>2. CacheCoherent'
    BY <1>1 DEF Inv, CacheCoherent, vars, machine, cache, call
  <2>3. CallUnderway'
    BY <1>1 DEF Inv, CallUnderway, Prefix, vars, machine, cache, call
  <2> QED BY <2>1, <2>2, <2>3 DEF Inv
<1>2. CASE Between
  BY <1>2, BetweenInv
<1>3. CASE Asking
  BY <1>3, AskingInv
<1>4. CASE Answering
  BY <1>4, GeometryInv, ReadHitInv, ReadTrackInv, ReadPartInv, ReturnInv,
     WriteInv DEF Answering
<1> QED BY <1>1, <1>2, <1>3, <1>4 DEF Next

---------------------------------------------------------------------------
(***************************************************************************)
(* The theorems.                                                           *)
(***************************************************************************)

LEMMA Invariant == Spec => []Inv
BY InitInv, StepInv, PTL DEF Spec

\* The types, and the fit of every track in the buffer, for any disks.
THEOREM TypeCorrect == Spec => []TypeOK
<1>1. Inv => TypeOK
  BY DEF Inv
<1> QED BY <1>1, Invariant, PTL

\* The cache is what the disk in the drive holds, whatever is read, written,
\* exchanged and whatever fails.
THEOREM CacheIsCoherent == Spec => []CacheCoherent
<1>1. Inv => CacheCoherent
  BY DEF Inv
<1> QED BY <1>1, Invariant, PTL

LEMMA InitIsDiskInit == Init => Disk!DiskInit
<1> SUFFICES ASSUME Init PROVE Disk!DiskInit
  OBVIOUS
<1>1. /\ unit \in [Drives -> Disks \cup {NoDisk}]
      /\ \A k \in Disks : content[k] \in [SectorsOf(k) -> Values]
  BY DisksAssumption DEF Init
<1>2. asked = Disk!Idle /\ answer = Disk!Failed
  BY DEF Init, Idle, Call, Failed, Disk!Idle, Disk!Call, Disk!Failed
<1> QED BY <1>1, <1>2 DEF Disk!DiskInit, Disk!SectorsOf, SectorsOf

\* Every step of the layer is a step of the disk, or none that shows.
LEMMA StepIsDiskStep ==
  Inv /\ Inv' /\ [Next]_vars => [Disk!DiskNext]_(Disk!diskVars)
<1> SUFFICES ASSUME Inv, Inv', [Next]_vars PROVE [Disk!DiskNext]_(Disk!diskVars)
  OBVIOUS
<1> USE DEF machine, cache, call
<1>1. Idle = Disk!Idle /\ Failed = Disk!Failed
      /\ \A data : Given(data) = Disk!Given(data)
  BY DEF Idle, Call, Failed, Given,
         Disk!Idle, Disk!Call, Disk!Failed, Disk!Given
<1>2. CASE UNCHANGED vars
  BY <1>2 DEF vars, Disk!diskVars
<1>3. ASSUME NEW d \in Removable, NEW k \in Disks \cup {NoDisk}, Exchange(d, k)
      PROVE  Disk!Change
  <2>1. asked = Idle
    BY <1>3 DEF Inv, TypeOK, Exchange
  <2> QED BY <1>1, <1>3, <2>1 DEF Exchange, Disk!Change, Inv, TypeOK
<1>4. CASE StartCommand \/ EndCommand
  BY <1>4 DEF StartCommand, EndCommand, Disk!diskVars
<1>5. ASSUME NEW d \in Drives, NEW e \in Drives, Hook(d, e)
      PROVE  Disk!Change
  BY <1>1, <1>5 DEF Hook, Disk!Change, Inv, TypeOK
<1>6. ASSUME NEW d \in Drives, OpenPartition(d)
      PROVE  UNCHANGED Disk!diskVars
  BY <1>6 DEF OpenPartition, Disk!diskVars
<1>7. ASSUME NEW d \in Drives, NEW from \in Wanted, NEW to \in Wanted,
             AskRead(d, from, to)
      PROVE  Disk!Ask
  <2>1. from \in Nat /\ to \in Nat
    BY DisksAssumption
  <2>2. asked' = Call("read", d, from, to, NoValue) /\ asked = Idle
        /\ answer' = Failed /\ UNCHANGED <<unit, content>>
    BY <1>7 DEF AskRead, Begin
  <2>3. Disk!IsRead(asked')
    BY <2>1, <2>2 DEF Call, Disk!IsRead, Disk!Reading, Disk!Call
  <2> QED BY <1>1, <2>2, <2>3 DEF Disk!Ask
<1>8. ASSUME NEW d \in Drives, NEW s \in Targets, NEW v \in Written,
             AskWrite(d, s, v)
      PROVE  Disk!Ask
  <2>1. s \in Nat /\ v \in Values
    BY DisksAssumption
  <2>2. asked' = Call("write", d, s, s, v) /\ asked = Idle
        /\ answer' = Failed /\ UNCHANGED <<unit, content>>
    BY <1>8 DEF AskWrite, Begin
  <2>3. Disk!IsWrite(asked')
    BY <2>1, <2>2 DEF Call, Disk!IsWrite, Disk!Writing, Disk!Call
  <2> QED BY <1>1, <2>2, <2>3 DEF Disk!Ask
<1>9. CASE NoGeometry \/ ReadError
  BY <1>1, <1>9
     DEF NoGeometry, ReadError, Looping, Return, Disk!AnswerRead, Disk!DiskNext
<1>10. CASE ReadGeometry \/ ReadHit \/ ReadTrack \/ ReadPart
  BY <1>10 DEF ReadGeometry, ReadHit, ReadTrack, ReadPart, Advance, Disk!diskVars
<1>11. CASE ReadDone
  <2> DEFINE k == unit[asked.drive]
  <2>1. /\ asked.op = "read" /\ bufDrive = asked.drive /\ sector > asked.to
        /\ asked' = Idle /\ answer' = Given(got) /\ UNCHANGED <<unit, content>>
    BY <1>11 DEF ReadDone, Return
  <2>2. /\ asked.from \in Nat /\ asked.to \in Nat /\ asked.from <= asked.to
        /\ pc = "command" /\ sector \in Nat /\ bufDrive # NoDrive
    BY <2>1, DisksAssumption DEF Inv, TypeOK, Idle, Call
  <2>3. k \in Disks
    BY <2>1, <2>2 DEF Inv, CacheCoherent
  <2>4. Lowest(sector, asked.to + 1) = asked.to + 1
    BY <2>1, <2>2 DEF Lowest
  <2>5. asked.to < Size[k]
    <3>1. asked.to + 1 <= Size[k]
      BY <2>1, <2>2, <2>4 DEF Inv, CallUnderway
    <3> QED BY <3>1, <2>2, <2>3, DisksAssumption
  <2>6. got = Disk!Contents(k, asked.from, asked.to)
    <3>1. got = Prefix(k)
      BY <2>1 DEF Inv, CallUnderway
    <3>2. Prefix(k) = Piece(content[k], asked.from, (asked.to + 1) - asked.from)
      BY <2>4, Zenon DEF Prefix
    <3>3. (asked.to + 1) - asked.from = (asked.to - asked.from) + 1
      BY <2>2
    <3>4. Piece(content[k], asked.from, (asked.to - asked.from) + 1)
            = Disk!Contents(k, asked.from, asked.to)
      BY DEF Piece, Disk!Contents
    <3> QED BY <3>1, <3>2, <3>3, <3>4, Zenon
  <2> QED BY <1>1, <2>1, <2>3, <2>5, <2>6 DEF Disk!AnswerRead, Disk!DiskNext
<1>12. CASE WriteError
  BY <1>1, <1>12 DEF WriteError, Return, Disk!AnswerWrite, Disk!DiskNext
<1>13. CASE WriteSame \/ WriteSector
  <2> DEFINE k == unit[asked.drive]
  <2>1. /\ asked.op = "write" /\ InReach(asked.drive, asked.from, 1)
        /\ asked' = Idle /\ answer' = Given(<<>>) /\ UNCHANGED unit
    BY <1>13 DEF WriteSame, WriteSector, Return
  <2>2. asked.from \in Nat
    BY <2>1 DEF Inv, TypeOK, Idle, Call
  <2>3. k \in Disks /\ asked.from \in 0 .. Size[k] - 1
    BY <2>1, <2>2, DisksAssumption DEF InReach
  <2>4. content' = [content EXCEPT ![k][asked.from] = asked.value]
    <3>1. CASE WriteSame
      <4>1. content[k][asked.from] = asked.value /\ content' = content
        BY <3>1 DEF WriteSame
      <4>2. content[k] \in [0 .. Size[k] - 1 -> Values]
        BY <2>3 DEF Inv, TypeOK, SectorsOf
      <4>3. content[k] = [content[k] EXCEPT ![asked.from] = asked.value]
        BY <4>1, <4>2, <2>3
      <4>4. content = [j \in Disks |-> content[j]]
        BY DisksAssumption DEF Inv, TypeOK
      <4> QED BY <4>1, <4>3, <4>4, <2>3
    <3>2. CASE WriteSector
      BY <3>2 DEF WriteSector
    <3> QED BY <1>13, <3>1, <3>2
  <2> QED BY <1>1, <2>1, <2>3, <2>4
          DEF Disk!AnswerWrite, Disk!SectorsOf, Disk!DiskNext
<1> QED BY <1>2, <1>3, <1>4, <1>5, <1>6, <1>7, <1>8, <1>9, <1>10, <1>11,
          <1>12, <1>13 DEF Next, Between, Asking, Answering, Disk!DiskNext

\* The layer with its cache is a disk without one.
THEOREM CacheImplementsDisk == Spec => ImplementsDisk
<1> QED BY Invariant, InitIsDiskInit, StepIsDiskStep, PTL
        DEF Spec, ImplementsDisk, Disk!DiskSpec
===========================================================================
