---------------------------- MODULE MgBitmapProofs ----------------------------
(* Theorems about MgBitmap for every width of a number, size of the map,   *)
(* range and content of the uncleared memory.                              *)
EXTENDS MgBitmap, TLAPS

\* Ranges above 0 that lie in the map and have room between the bounds, for
\* clients that free only what they hold.
ProperUse ==
    /\ \A r \in Ranges : 0 < r[1] /\ r[1] + 1 < r[2] /\ r[2] <= 4 * MapWords
    /\ Careless = {}

\* How far into the scan the number o is looked at.
Ahead(o) == IF o > last THEN o - last ELSE o - last + (max - min - 1)

Closed ==
    pc = "none" => /\ min = 0 /\ max = 0 /\ last = 0 /\ map = {}
                   /\ \A o \in Offset : held[o] = 0

Open ==
    pc \in {"idle", "scan"} =>
        /\ 0 < min /\ min + 1 < max /\ max <= 4 * MapWords
        /\ last \in min .. max - 1

\* Who holds a number holds it alone, and its bit is set.
HeldMarked ==
    \A o \in Offset :
        held[o] > 0 => held[o] = 1 /\ o \in Ids /\ Cell(o) \in map

\* All that was looked at is taken, and the scan is count numbers on its way.
Scanned ==
    pc = "scan" =>
        /\ count <= max - min
        /\ \A o \in Ids : Ahead(o) <= count => Cell(o) \in map
        /\ offset \in min .. max - 1
        /\ count = 0 => offset = last
        /\ count > 0 => offset \in Ids
        /\ (count > 0 /\ count <= max - min - 1) => Ahead(offset) = count

BitmapInv ==
    /\ BitmapTypeOK /\ pc # "crashed"
    /\ Closed /\ Open /\ HeldMarked /\ Scanned

\* Different numbers have different bits.
LEMMA CellInjective ==
    ASSUME NEW o \in Nat, NEW p \in Nat, Cell(o) = Cell(p) PROVE o = p
  BY DEF Cell

LEMMA CellType == ASSUME NEW o \in Nat PROVE Cell(o) \in Nat \X (0 .. 15)
  BY DEF Cell

\* The scan goes on to the next number of the range and keeps count.
LEMMA FollowingNext ==
    ASSUME BitmapInv, pc = "scan", BitmapAssumption
    PROVE  /\ Following \in Ids /\ Following \in Offset
           /\ Following = IF offset + 1 >= max THEN min + 1 ELSE offset + 1
           /\ count <= max - min - 2 => Ahead(Following) = count + 1
           /\ InMap(Following)
<1>1. /\ min \in Nat /\ max \in Nat /\ last \in Nat /\ offset \in Nat
      /\ count \in Nat /\ max <= OffsetMax /\ OffsetMax \in Nat
      /\ MapWords \in Nat
      /\ 0 < min /\ min + 1 < max /\ max <= 4 * MapWords
      /\ last \in min .. max - 1 /\ offset \in min .. max - 1
  BY DEF BitmapInv, BitmapTypeOK, Open, Scanned, Offset, BitmapAssumption
<1>2. Wrapped(offset + 1) = offset + 1 /\ Wrapped(min + 1) = min + 1
  BY <1>1 DEF Wrapped
<1>3. Following = IF offset + 1 >= max THEN min + 1 ELSE offset + 1
  BY <1>2 DEF Following
<1>4. Following \in Ids /\ Following \in Offset
  BY <1>1, <1>3 DEF Ids, Offset
<1>5. InMap(Following)
  BY <1>1, <1>3 DEF InMap
<1>6. ASSUME count <= max - min - 2 PROVE Ahead(Following) = count + 1
  <2>1. CASE count = 0
    <3>1. offset = last
      BY <2>1 DEF BitmapInv, Scanned
    <3>. QED  BY <1>1, <1>3, <2>1, <3>1 DEF Ahead
  <2>2. CASE count > 0
    <3>1. Ahead(offset) = count
      BY <1>1, <1>6, <2>2 DEF BitmapInv, Scanned
    <3>. QED  BY <1>1, <1>3, <1>6, <2>2, <3>1 DEF Ahead
  <2>. QED  BY <1>1, <2>1, <2>2
<1>. QED  BY <1>3, <1>4, <1>5, <1>6

\* The count of a scan that goes on does not wrap.
LEMMA CountWraps ==
    ASSUME BitmapInv, Scanning PROVE Wrapped(count + 1) = count + 1
<1>1. count + 1 \in Nat /\ count + 1 <= OffsetMax
  BY BitmapAssumption
  DEF BitmapAssumption, BitmapInv, BitmapTypeOK, Scanned, Scanning, Exhausted,
      Offset
<1>. QED  BY <1>1, BitmapAssumption DEF Wrapped, BitmapAssumption

\* When the scan has looked at as many numbers as the range has, or gives
\* up, all are taken.
LEMMA ScannedAll ==
    ASSUME BitmapInv, pc = "scan", BitmapAssumption, count >= max - min - 1,
           NEW o \in Ids
    PROVE  Cell(o) \in map
<1>1. /\ min \in Nat /\ max \in Nat /\ last \in Nat /\ count \in Nat
      /\ last \in min .. max - 1
  BY DEF BitmapInv, BitmapTypeOK, Open, Offset, BitmapAssumption
<1>2. Ahead(o) <= count
  BY <1>1 DEF Ahead, Ids
<1>. QED  BY <1>2 DEF BitmapInv, Scanned

-----------------------------------------------------------------------------
(* The invariant.                                                          *)

LEMMA BitmapInit == Init => BitmapInv
  BY BitmapAssumption
  DEF BitmapAssumption, Init, BitmapInv, BitmapTypeOK, Closed, Open,
      HeldMarked, Scanned, Offset

LEMMA InvInit ==
    ASSUME ProperUse, BitmapInv, NEW range \in Ranges, NEW g \in Garbage,
           MgbitmapInit(range, g)
    PROVE  BitmapInv'
<1>1. /\ range \in Offset \X Offset
      /\ 0 < range[1] /\ range[1] + 1 < range[2] /\ range[2] <= 4 * MapWords
      /\ g \subseteq Offset /\ OffsetMax \in Nat /\ Offset \subseteq Nat
  BY BitmapAssumption DEF BitmapAssumption, ProperUse, Offset
<1>2. /\ min' = range[1] /\ max' = range[2] /\ last' = range[1]
      /\ map' = {Cell(o) : o \in g} /\ pc = "none" /\ pc' = "idle"
      /\ UNCHANGED <<offset, count, result, held>>
  BY DEF MgbitmapInit, locals
<1>3. map' \in SUBSET (Nat \X (0 .. 15))
  BY <1>1, <1>2, CellType
<1>4. BitmapTypeOK'
  BY <1>1, <1>2, <1>3 DEF BitmapInv, BitmapTypeOK
<1>5. Closed' /\ Open' /\ HeldMarked' /\ Scanned'
  BY <1>1, <1>2 DEF BitmapInv, Closed, Open, HeldMarked, Scanned, Offset
<1>. QED  BY <1>2, <1>4, <1>5 DEF BitmapInv

LEMMA InvScan ==
    ASSUME BitmapInv, AllocBegin \/ AllocFull \/ AllocTaken
    PROVE  BitmapInv'
<1>1. /\ UNCHANGED <<min, max, last, map, held>> /\ pc' \in {"idle", "scan"}
      /\ pc \in {"idle", "scan"}
  BY DEF AllocBegin, AllocFull, AllocTaken, Scanning, bounds, locals
<1>2. Closed' /\ Open' /\ HeldMarked'
  BY <1>1 DEF BitmapInv, Closed, Open, HeldMarked, Ids
<1>3. /\ min \in Nat /\ max \in Nat /\ last \in Nat /\ offset \in Nat
      /\ count \in Nat /\ max <= OffsetMax /\ OffsetMax \in Nat
      /\ 0 < min /\ min + 1 < max /\ last \in min .. max - 1
  BY <1>1, BitmapAssumption
  DEF BitmapInv, BitmapTypeOK, Open, Offset, BitmapAssumption
<1>4. CASE AllocBegin
  <2>1. offset' = last /\ count' = 0 /\ result' = result /\ pc' = "scan"
    BY <1>4 DEF AllocBegin
  <2>2. BitmapTypeOK'
    BY <1>1, <1>3, <2>1 DEF BitmapInv, BitmapTypeOK, Offset
  <2>3. \A o \in Ids : Ahead(o) > 0
    BY <1>3 DEF Ahead, Ids
  <2>4. Scanned'
    BY <1>1, <1>3, <2>1, <2>3 DEF Scanned, Ids, Ahead
  <2>. QED  BY <1>2, <2>1, <2>2, <2>4 DEF BitmapInv
<1>5. CASE AllocFull
  <2>1. result' = max /\ pc' = "idle" /\ UNCHANGED <<offset, count>>
    BY <1>5 DEF AllocFull, locals
  <2>2. BitmapTypeOK' /\ Scanned'
    BY <1>1, <2>1 DEF BitmapInv, BitmapTypeOK, Scanned
  <2>. QED  BY <1>2, <2>1, <2>2 DEF BitmapInv
<1>6. CASE AllocTaken
  <2>1. /\ pc = "scan" /\ pc' = "scan" /\ result' = result
        /\ offset' = Following /\ count' = count + 1 /\ count # max - min
        /\ Cell(Following) \in map
    BY <1>6, CountWraps DEF AllocTaken, Scanning, Exhausted
  <2>2. /\ Following \in Ids /\ Following \in Offset
        /\ Following \in min .. max - 1
        /\ count <= max - min - 2 => Ahead(Following) = count + 1
    BY <1>3, <2>1, FollowingNext, BitmapAssumption DEF Ids
  <2>3. count < max - min
    BY <1>3, <2>1 DEF BitmapInv, Scanned
  <2>4. BitmapTypeOK'
    BY <1>1, <1>3, <2>1, <2>2, <2>3 DEF BitmapInv, BitmapTypeOK, Offset
  <2>5. ASSUME NEW o \in Ids, Ahead(o) <= count + 1 PROVE Cell(o) \in map
    <3>1. CASE count >= max - min - 1
      BY <2>1, <3>1, ScannedAll, BitmapAssumption
    <3>2. CASE count <= max - min - 2 /\ Ahead(o) <= count
      BY <2>1, <3>2 DEF BitmapInv, Scanned
    <3>3. CASE count <= max - min - 2 /\ Ahead(o) = count + 1
      <4>1. o = Following
        BY <1>3, <2>2, <3>3 DEF Ahead, Ids
      <4>. QED  BY <2>1, <4>1
    <3>. QED
      <4>1. Ahead(o) \in Int
        BY <1>3 DEF Ahead, Ids
      <4>. QED  BY <1>3, <2>5, <3>1, <3>2, <3>3, <4>1
  <2>6. Ids' = Ids /\ \A o : Ahead(o)' = Ahead(o)
    BY <1>1 DEF Ids, Ahead
  <2>7. Scanned'
    BY <1>1, <1>3, <2>1, <2>2, <2>3, <2>5, <2>6 DEF Scanned, Ahead
  <2>. QED  BY <1>2, <2>1, <2>4, <2>7 DEF BitmapInv
<1>. QED  BY <1>4, <1>5, <1>6

LEMMA InvGranted == ASSUME BitmapInv, AllocGranted PROVE BitmapInv'
<1> DEFINE o == Following
<1>1. /\ pc = "scan" /\ pc' = "idle" /\ UNCHANGED <<min, max>>
      /\ Cell(o) \notin map /\ map' = map \cup {Cell(o)}
      /\ last' = o /\ result' = o /\ offset' = o /\ count' = count + 1
      /\ held' = Handed(o) /\ count # max - min
  BY CountWraps DEF AllocGranted, Scanning, Exhausted, Marked, bounds
<1>2. o \in Ids /\ o \in Offset
  BY <1>1, FollowingNext, BitmapAssumption
<1>3. /\ min \in Nat /\ max \in Nat /\ count \in Nat /\ max <= OffsetMax
      /\ OffsetMax \in Nat /\ 0 < min /\ min + 1 < max /\ count <= max - min
      /\ Offset \subseteq Nat
  BY <1>1, BitmapAssumption
  DEF BitmapInv, BitmapTypeOK, Open, Scanned, Offset, BitmapAssumption
<1>. HIDE DEF o
<1>4. held[o] = 0
  BY <1>1, <1>2 DEF BitmapInv, BitmapTypeOK, HeldMarked
<1>5. held' = [held EXCEPT ![o] = 1]
  BY <1>1, <1>2, <1>3, <1>4 DEF Handed, Ids
<1>6. BitmapTypeOK'
  <2>1. map' \in SUBSET (Nat \X (0 .. 15))
    BY <1>1, <1>2, <1>3, CellType DEF BitmapInv, BitmapTypeOK
  <2>2. held' \in [Offset -> 0 .. 2]
    BY <1>2, <1>5 DEF BitmapInv, BitmapTypeOK
  <2>3. count' \in Offset
    BY <1>1, <1>3 DEF Offset
  <2>. QED  BY <1>1, <1>2, <2>1, <2>2, <2>3 DEF BitmapInv, BitmapTypeOK
<1>7. Closed' /\ Open' /\ Scanned'
  BY <1>1, <1>2, <1>3 DEF BitmapInv, Closed, Open, Scanned, Ids
<1>8. HeldMarked'
  BY <1>1, <1>2, <1>5 DEF BitmapInv, BitmapTypeOK, HeldMarked, Ids
<1>. QED  BY <1>1, <1>6, <1>7, <1>8 DEF BitmapInv

LEMMA InvFree ==
    ASSUME ProperUse, BitmapInv, NEW o \in Offset, MgbitmapFree(o)
    PROVE  BitmapInv'
<1>1. /\ pc = "idle" /\ pc' = "idle" /\ held[o] > 0
      /\ map' = map \ {Cell(o)}
      /\ held' = [held EXCEPT ![o] = held[o] - 1]
      /\ UNCHANGED <<min, max, last, offset, count, result>>
  <2>1. held[o] > 0 /\ held[o] # 0
    BY DEF MgbitmapFree, MayFree, ProperUse, BitmapInv, BitmapTypeOK
  <2>. QED  BY <2>1 DEF MgbitmapFree, bounds, locals
<1>2. held[o] = 1
  BY <1>1 DEF BitmapInv, HeldMarked
<1>3. held' = [held EXCEPT ![o] = 0]
  BY <1>1, <1>2
<1>4. BitmapTypeOK'
  BY <1>1, <1>3 DEF BitmapInv, BitmapTypeOK
<1>5. Closed' /\ Open' /\ Scanned'
  BY <1>1 DEF BitmapInv, Closed, Open, Scanned, Ids
<1>6. HeldMarked'
  <2>1. Offset \subseteq Nat
    BY BitmapAssumption DEF BitmapAssumption, Offset
  <2>. QED
    BY <1>1, <1>3, <2>1, CellInjective
    DEF BitmapInv, BitmapTypeOK, HeldMarked, Ids
<1>. QED  BY <1>1, <1>4, <1>5, <1>6 DEF BitmapInv

LEMMA InvFinish == ASSUME BitmapInv, MgbitmapFinish PROVE BitmapInv'
  BY BitmapAssumption
  DEF BitmapAssumption, MgbitmapFinish, BitmapInv, BitmapTypeOK, Closed, Open,
      HeldMarked, Scanned, Offset, locals

\* A bitmap for a proper range never comes to the number 0, and a scan or a
\* free never leaves the map.
LEMMA NeverOutside ==
    ASSUME ProperUse, BitmapInv PROVE ~AllocZero /\ ~OutOfMap
<1>1. ~AllocZero
  BY BitmapAssumption
  DEF BitmapAssumption, AllocZero, BitmapInv, BitmapTypeOK, Open, Scanned,
      Offset
<1>2. Scanning => InMap(Following)
  BY FollowingNext, BitmapAssumption DEF Scanning
<1>3. ASSUME NEW o \in Offset, MayFree(o), pc = "idle" PROVE InMap(o)
  <2>1. o \in Ids
    BY <1>3 DEF MayFree, ProperUse, BitmapInv, HeldMarked
  <2>. QED
    BY <1>3, <2>1, BitmapAssumption
    DEF Ids, InMap, BitmapInv, BitmapTypeOK, Open, Offset, BitmapAssumption
<1>. QED  BY <1>1, <1>2, <1>3 DEF OutOfMap

LEMMA BitmapNext ==
    ASSUME ProperUse, BitmapInv, [Next]_vars PROVE BitmapInv'
<1>1. CASE UNCHANGED vars
  <2>1. UNCHANGED <<pc, min, max, last, map, offset, count, result, held>>
    BY <1>1 DEF vars, bounds, locals
  <2>2. BitmapTypeOK' /\ pc' # "crashed"
    BY <2>1 DEF BitmapInv, BitmapTypeOK
  <2>3. Closed' /\ Open' /\ HeldMarked'
    BY <2>1 DEF BitmapInv, Closed, Open, HeldMarked, Ids
  <2>4. Scanned'
    BY <2>1 DEF BitmapInv, Scanned, Ids, Ahead
  <2>. QED  BY <2>2, <2>3, <2>4 DEF BitmapInv
<1>. QED
  BY <1>1, InvInit, InvScan, InvGranted, InvFree, InvFinish, NeverOutside
  DEF Next, Alloc

LEMMA BitmapAlways == ASSUME ProperUse PROVE Spec => []BitmapInv
<1>1. BitmapInv /\ [Next]_vars => BitmapInv'
  BY BitmapNext
<1>. QED  BY <1>1, BitmapInit, PTL DEF Spec

\* Used properly, mgbitmap never hands a number to two clients, however wide
\* its numbers are and whatever the uncleared memory holds.
THEOREM NumbersUnique == ASSUME ProperUse PROVE Spec => []SoleHolder
<1>1. BitmapInv => SoleHolder
  BY DEF BitmapInv, BitmapTypeOK, HeldMarked, SoleHolder
<1>. QED  BY <1>1, BitmapAlways, PTL

\* Used properly, mgbitmap stays inside its map.
THEOREM StaysInside == ASSUME ProperUse PROVE Spec => []InsideMap
<1>1. BitmapInv => InsideMap
  BY DEF BitmapInv, InsideMap
<1>. QED  BY <1>1, BitmapAlways, PTL

-----------------------------------------------------------------------------
(* The refinement.                                                         *)

Busy == {o \in Ids : Cell(o) \in map}

LEMMA PoolInit == Init => Pool!Init
  BY DEF Init, Pool!Init, Ids

\* Steps of mgbitmap are steps of the pool, the turns of the scan stutter.
LEMMA PoolNext ==
    ASSUME ProperUse, BitmapInv, BitmapInv', [Next]_vars
    PROVE  [Pool!Next]_(Pool!vars)
<1>. USE DEF Pool!vars
<1>1. ASSUME NEW range \in Ranges, NEW g \in Garbage, MgbitmapInit(range, g)
      PROVE  Pool!Open
  BY <1>1, BitmapAssumption
  DEF MgbitmapInit, Pool!Open, BitmapInv, BitmapTypeOK, Offset,
      BitmapAssumption, Pool!Ids, Ids, locals
<1>2. ASSUME AllocBegin \/ AllocTaken PROVE UNCHANGED Pool!vars
  BY <1>2 DEF AllocBegin, AllocTaken, Scanning, bounds, Ids
<1>3. ASSUME AllocFull PROVE Pool!Refuse
  <2>1. pc = "scan" /\ count = max - min
    BY <1>3 DEF AllocFull, Exhausted
  <2>2. \A o \in Ids : Cell(o) \in map
    <3>1. count >= max - min - 1
      BY <2>1, BitmapAssumption
      DEF BitmapInv, BitmapTypeOK, Offset, BitmapAssumption
    <3>. QED  BY <2>1, <3>1, ScannedAll, BitmapAssumption
  <2>. QED
    BY <1>3, <2>2 DEF AllocFull, Pool!Refuse, Pool!Ids, Ids, bounds, locals
<1>4. ASSUME AllocGranted PROVE \E id \in Pool!Ids : Pool!Grant(id)
  <2> DEFINE o == Following
  <2>1. /\ pc = "scan" /\ pc' = "idle" /\ UNCHANGED <<min, max>>
        /\ Cell(o) \notin map /\ map' = map \cup {Cell(o)}
        /\ last' = o /\ result' = o
    BY <1>4 DEF AllocGranted, Scanning, Marked, bounds
  <2>2. /\ o \in Ids /\ o \in Offset
        /\ count <= max - min - 2 => Ahead(o) = count + 1
    BY <2>1, FollowingNext, BitmapAssumption
  <2>3. /\ min \in Nat /\ max \in Nat /\ last \in Nat /\ count \in Nat
        /\ Offset \subseteq Nat
    BY BitmapAssumption
    DEF BitmapInv, BitmapTypeOK, Offset, BitmapAssumption
  <2>. HIDE DEF o
  <2>4. count <= max - min - 2
    BY <2>1, <2>2, <2>3, ScannedAll, BitmapAssumption
  <2>5. ASSUME NEW p \in Ids, Cell(p) \notin map PROVE Ahead(o) <= Ahead(p)
    <3>1. ~(Ahead(p) <= count)
      BY <2>1, <2>5 DEF BitmapInv, Scanned
    <3>. QED  BY <2>2, <2>3, <2>4, <3>1 DEF Ahead, Ids
  <2>6. Pool!FirstFree(o)
    BY <2>1, <2>2, <2>5 DEF Pool!FirstFree, Pool!Ahead, Pool!Ids, Ids, Ahead
  <2>7. Busy' = Busy \cup {o}
    <3>1. \A p \in Ids : Cell(p) = Cell(o) => p = o
      BY <2>2, <2>3, CellInjective DEF Ids
    <3>. QED  BY <2>1, <2>2, <3>1 DEF Busy, Ids
  <2>. QED
    BY <2>1, <2>2, <2>6, <2>7 DEF Pool!Grant, Pool!Ids, Ids, Busy
<1>5. ASSUME NEW o \in Offset, MgbitmapFree(o)
      PROVE  \E id \in Pool!Ids : Pool!Release(id)
  <2>1. /\ pc = "idle" /\ pc' = "idle" /\ map' = map \ {Cell(o)}
        /\ UNCHANGED <<min, max, last, result>>
    BY <1>5 DEF MgbitmapFree, bounds, locals
  <2>2. o \in Ids
    BY <1>5 DEF MgbitmapFree, MayFree, ProperUse, BitmapInv, HeldMarked
  <2>3. \A p \in Ids : Cell(p) = Cell(o) => p = o
    BY <2>2, CellInjective, BitmapAssumption
    DEF Ids, BitmapInv, BitmapTypeOK, Offset, BitmapAssumption
  <2>4. Busy' = Busy \ {o}
    BY <2>1, <2>2, <2>3 DEF Busy, Ids
  <2>. QED
    BY <2>1, <2>2, <2>4 DEF Pool!Release, Pool!Ids, Ids, Busy
<1>6. ASSUME MgbitmapFinish PROVE Pool!Close
  BY <1>6 DEF MgbitmapFinish, Pool!Close, Ids, locals
<1>7. ASSUME UNCHANGED vars PROVE UNCHANGED Pool!vars
  BY <1>7 DEF vars, bounds, locals, Ids
<1>. QED
  BY <1>1, <1>2, <1>3, <1>4, <1>5, <1>6, <1>7, NeverOutside
  DEF Next, Alloc, Pool!Next

\* Used properly, mgbitmap is the pool: grants go round the range and a
\* refusal means that nothing is free.
THEOREM BitmapIsPool == ASSUME ProperUse PROVE Spec => ImplementsPool
<1>1. BitmapInv /\ BitmapInv' /\ [Next]_vars => [Pool!Next]_(Pool!vars)
  BY PoolNext
<1>. QED
  BY <1>1, PoolInit, BitmapAlways, PTL DEF Spec, ImplementsPool, Pool!Spec

-----------------------------------------------------------------------------
(* Whatever range the client asked for.                                    *)

\* A holder of a number other than 0 holds it alone and its bit is set; there
\* is no holder while there is no bitmap.
AnyRangeInv ==
    /\ BitmapTypeOK
    /\ pc = "none" => \A o \in Offset : held[o] = 0
    /\ \A o \in Offset \ {0} : held[o] > 0 => held[o] = 1 /\ Cell(o) \in map

\* The numbers a scan comes to, with whatever bounds and wrapping.
LEMMA FollowingType ==
    /\ OffsetMax \in Nat /\ Offset \subseteq Nat /\ 0 \in Offset
    /\ \A o \in Nat : Wrapped(o) \in Offset
    /\ BitmapTypeOK => Following \in Offset
<1>1. OffsetMax \in Nat
  BY BitmapAssumption DEF BitmapAssumption
<1>2. \A o \in Nat : Wrapped(o) \in Offset
  BY <1>1 DEF Wrapped, Offset
<1>3. BitmapTypeOK => Following \in Offset
  <2>1. BitmapTypeOK => offset + 1 \in Nat /\ min + 1 \in Nat
    BY DEF BitmapTypeOK, Offset
  <2>. QED  BY <1>2, <2>1 DEF Following
<1>. QED  BY <1>1, <1>2, <1>3 DEF Offset

\* A scan changes no bit before it grants a number.
LEMMA AnyRangeScan ==
    ASSUME AnyRangeInv, AllocBegin \/ AllocFull \/ AllocTaken
    PROVE  AnyRangeInv'
<1>1. /\ UNCHANGED <<min, max, last, map, held>> /\ pc' \in {"idle", "scan"}
      /\ offset' \in Offset /\ count' \in Offset /\ result' \in Offset
  <2>1. BitmapTypeOK
    BY DEF AnyRangeInv
  <2>2. count + 1 \in Nat
    BY <2>1 DEF BitmapTypeOK, Offset
  <2>. QED
    BY <2>1, <2>2, FollowingType
    DEF BitmapTypeOK, AllocBegin, AllocFull, AllocTaken, Scanning, bounds, locals
<1>. QED  BY <1>1 DEF AnyRangeInv, BitmapTypeOK

\* A number is granted when its bit was not set, so nobody held it.
LEMMA AnyRangeGranted == ASSUME AnyRangeInv, AllocGranted PROVE AnyRangeInv'
<1> DEFINE o == Following
<1>1. /\ pc' = "idle" /\ UNCHANGED <<min, max>>
      /\ Cell(o) \notin map /\ map' = map \cup {Cell(o)}
      /\ last' = o /\ result' = o /\ offset' = o
      /\ held' = Handed(o) /\ count' = Wrapped(count + 1)
  BY DEF AllocGranted, Marked, bounds
<1>2. BitmapTypeOK /\ o \in Offset /\ o \in Nat /\ count' \in Offset
  <2>1. BitmapTypeOK
    BY DEF AnyRangeInv
  <2>2. count + 1 \in Nat
    BY <2>1, FollowingType DEF BitmapTypeOK
  <2>. QED  BY <1>1, <2>1, <2>2, FollowingType
<1>. HIDE DEF o
<1>3. held' \in [Offset -> 0 .. 2] /\ \A p \in Offset \ {o} : held'[p] = held[p]
  BY <1>1, <1>2 DEF Handed, BitmapTypeOK
<1>4. BitmapTypeOK'
  <2>1. map' \in SUBSET (Nat \X (0 .. 15))
    BY <1>1, <1>2, CellType DEF BitmapTypeOK
  <2>. QED  BY <1>1, <1>2, <1>3, <2>1 DEF BitmapTypeOK
<1>5. o # 0 => held[o] = 0 /\ held'[o] \in {0, 1}
  BY <1>1, <1>2 DEF AnyRangeInv, BitmapTypeOK, Handed
<1>. QED  BY <1>1, <1>3, <1>4, <1>5 DEF AnyRangeInv

\* A free, of a held number or not, clears no bit but its own.
LEMMA AnyRangeFree ==
    ASSUME AnyRangeInv, NEW o \in Offset, MgbitmapFree(o)
    PROVE  AnyRangeInv'
<1>1. /\ pc' = "idle" /\ map' = map \ {Cell(o)}
      /\ held' = [held EXCEPT ![o] = IF @ = 0 THEN 0 ELSE @ - 1]
      /\ UNCHANGED <<min, max, last, offset, count, result>>
  BY DEF MgbitmapFree, bounds, locals
<1>2. BitmapTypeOK'
  BY <1>1 DEF AnyRangeInv, BitmapTypeOK
<1>3. \A p \in Offset : Cell(p) = Cell(o) => p = o
  BY FollowingType, CellInjective
<1>. QED  BY <1>1, <1>2, <1>3 DEF AnyRangeInv, BitmapTypeOK

LEMMA AnyRangeNext == ASSUME AnyRangeInv, [Next]_vars PROVE AnyRangeInv'
<1>1. ASSUME NEW range \in Ranges, NEW g \in Garbage, MgbitmapInit(range, g)
      PROVE  AnyRangeInv'
  <2>1. /\ range \in Offset \X Offset /\ g \subseteq Offset /\ Offset \subseteq Nat
    BY FollowingType, BitmapAssumption DEF BitmapAssumption
  <2>2. /\ min' = range[1] /\ max' = range[2] /\ last' = range[1]
        /\ map' = {Cell(o) : o \in g} /\ pc = "none" /\ pc' = "idle"
        /\ UNCHANGED <<offset, count, result, held>>
    BY <1>1 DEF MgbitmapInit, locals
  <2>3. map' \in SUBSET (Nat \X (0 .. 15))
    BY <2>1, <2>2, CellType
  <2>. QED  BY <2>1, <2>2, <2>3 DEF AnyRangeInv, BitmapTypeOK
<1>2. CASE AllocZero
  BY <1>2, FollowingType
  DEF AllocZero, Handed, AnyRangeInv, BitmapTypeOK, bounds, locals
<1>3. CASE MgbitmapFinish
  BY <1>3, FollowingType DEF MgbitmapFinish, AnyRangeInv, BitmapTypeOK, locals
<1>4. CASE OutOfMap
  BY <1>4 DEF OutOfMap, AnyRangeInv, BitmapTypeOK, bounds, locals
<1>5. CASE UNCHANGED vars
  BY <1>5 DEF vars, AnyRangeInv, BitmapTypeOK, bounds, locals
<1>. QED
  BY <1>1, <1>2, <1>3, <1>4, <1>5, AnyRangeScan, AnyRangeGranted, AnyRangeFree
  DEF Next, Alloc

\* For any range, map and garbage, and though clients free numbers that nobody
\* holds, outside the map too, only the number 0 has two holders.  A free of a
\* number that is held counts as its holder's: nothing is said of a client that
\* gives back the number of another (mgbitmap.c:45-84).
THEOREM NoSharing == Spec => []OnlyZeroShared
<1>1. Init => AnyRangeInv
  BY FollowingType DEF Init, AnyRangeInv, BitmapTypeOK
<1>2. AnyRangeInv /\ [Next]_vars => AnyRangeInv'
  BY AnyRangeNext
<1>3. AnyRangeInv => OnlyZeroShared
  BY DEF AnyRangeInv, BitmapTypeOK, OnlyZeroShared
<1>. QED  BY <1>1, <1>2, <1>3, PTL DEF Spec

=============================================================================
