------------------------------- MODULE MgBitmap -------------------------------
(***************************************************************************)
(* The number allocator of mgbitmap.c.  A bit of the map says that a       *)
(* number is taken; mgbitmap_alloc scans on from the number it returned    *)
(* last, one step per turn of its loop.  The map is what malloc returned,  *)
(* it is never cleared.  Numbers are uint16_t and wrap.                    *)
(***************************************************************************)
EXTENDS Integers

CONSTANTS
    OffsetMax,  \* UINT16_MAX
    MapWords,   \* words of the map array
    Ranges,     \* the pairs <<min, max>> a client asks for
    Garbage,    \* sets of numbers whose bits malloc's memory may have set
    Careless    \* numbers a client may free although nobody holds them

Offset == 0 .. OffsetMax

ASSUME BitmapAssumption ==
    /\ OffsetMax \in Nat /\ MapWords \in Nat \ {0}
    /\ Ranges \subseteq Offset \X Offset
    /\ Garbage \subseteq SUBSET Offset
    /\ Careless \subseteq Offset

VARIABLES
    pc,             \* "none", "idle", "scan" (in mgbitmap_alloc) or "crashed"
    min, max, last, \* fields of the bitmap
    map,            \* the bits set, as <<word, bit>>
    offset, count,  \* locals of mgbitmap_alloc
    result,         \* auxiliary: what the last mgbitmap_alloc returned
    held            \* auxiliary: how many holders a number has, two at most

bounds == <<min, max>>
locals == <<offset, count>>
vars == <<pc, bounds, last, map, locals, result, held>>

Init ==
    /\ pc = "none"
    /\ min = 0 /\ max = 0 /\ last = 0 /\ map = {}
    /\ offset = 0 /\ count = 0 /\ result = 0
    /\ held = [o \in Offset |-> 0]

\* The code writes offset >> 0x03 - 1, which is offset >> 2.
Cell_Narrow(o) == <<o \div 8, o % 4>>
Cell(o) == <<o \div 4, o % 16>>

InMap(o) == o \div 4 < MapWords

Wrapped(o) == o % (OffsetMax + 1)

\* The number the scan looks at after offset.
Following_NoWrap == Wrapped(offset + 1)
Following == IF Wrapped(offset + 1) >= max THEN Wrapped(min + 1)
             ELSE Wrapped(offset + 1)

\* A client that is returned max takes it for a refusal.
Handed(o) == IF o = max \/ held[o] = 2 THEN held
             ELSE [held EXCEPT ![o] = @ + 1]

-----------------------------------------------------------------------------
MgbitmapInit(range, g) ==
    /\ pc = "none" /\ range[1] <= range[2]
    /\ min' = range[1] /\ max' = range[2] /\ last' = range[1]
    /\ map' = {Cell(o) : o \in g}
    /\ pc' = "idle"
    /\ UNCHANGED <<locals, result, held>>

\* The loop is not entered when the last number returned is 0.
AllocZero ==
    /\ \/ pc = "idle" /\ last = 0
       \/ pc = "scan" /\ offset = 0
    /\ last' = 0 /\ result' = 0 /\ held' = Handed(0)
    /\ pc' = "idle"
    /\ UNCHANGED <<bounds, map, locals>>

AllocBegin ==
    /\ pc = "idle" /\ last # 0
    /\ offset' = last /\ count' = 0
    /\ pc' = "scan"
    /\ UNCHANGED <<bounds, last, map, result, held>>

Exhausted_Never == FALSE
Exhausted_TooEarly == count = max - min - 2
Exhausted == count = max - min

AllocFull ==
    /\ pc = "scan" /\ offset # 0 /\ Exhausted
    /\ result' = max
    /\ pc' = "idle"
    /\ UNCHANGED <<bounds, last, map, locals, held>>

Scanning == pc = "scan" /\ offset # 0 /\ ~Exhausted

AllocTaken ==
    /\ Scanning /\ InMap(Following) /\ Cell(Following) \in map
    /\ offset' = Following /\ count' = Wrapped(count + 1)
    /\ UNCHANGED <<pc, bounds, last, map, result, held>>

Marked_Forgotten(o) == map
Marked(o) == map \cup {Cell(o)}

AllocGranted ==
    /\ Scanning /\ InMap(Following) /\ Cell(Following) \notin map
    /\ map' = Marked(Following)
    /\ last' = Following /\ result' = Following /\ held' = Handed(Following)
    /\ offset' = Following /\ count' = Wrapped(count + 1)
    /\ pc' = "idle"
    /\ UNCHANGED bounds

MayFree(o) == held[o] > 0 \/ o \in Careless

MgbitmapFree(o) ==
    /\ pc = "idle" /\ MayFree(o) /\ InMap(o)
    /\ map' = map \ {Cell(o)}
    /\ held' = [held EXCEPT ![o] = IF @ = 0 THEN 0 ELSE @ - 1]
    /\ UNCHANGED <<pc, bounds, last, locals, result>>

MgbitmapFinish ==
    /\ pc = "idle"
    /\ pc' = "none"
    /\ min' = 0 /\ max' = 0 /\ last' = 0 /\ map' = {}
    /\ held' = [o \in Offset |-> 0]
    /\ UNCHANGED <<locals, result>>

\* An access behind the end of the map.
OutOfMap ==
    /\ \/ Scanning /\ ~InMap(Following)
       \/ pc = "idle" /\ \E o \in Offset : MayFree(o) /\ ~InMap(o)
    /\ pc' = "crashed"
    /\ UNCHANGED <<bounds, last, map, locals, result, held>>

Alloc == AllocZero \/ AllocBegin \/ AllocFull \/ AllocTaken \/ AllocGranted

Next ==
    \/ \E range \in Ranges, g \in Garbage : MgbitmapInit(range, g)
    \/ Alloc
    \/ \E o \in Offset : MgbitmapFree(o)
    \/ MgbitmapFinish
    \/ OutOfMap

Spec == Init /\ [][Next]_vars

\* mgbitmap_alloc is a function of one thread that keeps running; nothing
\* makes a client call.
FairSpec == Spec /\ WF_vars(pc = "scan" /\ Alloc)

-----------------------------------------------------------------------------
(* Properties.                                                             *)

Ids == (min + 1) .. (max - 1)

\* Every variable has its type.
BitmapTypeOK ==
    /\ pc \in {"none", "idle", "scan", "crashed"}
    /\ min \in Offset /\ max \in Offset /\ last \in Offset
    /\ map \in SUBSET (Nat \X (0 .. 15))
    /\ offset \in Offset /\ count \in Offset /\ result \in Offset
    /\ held \in [Offset -> 0 .. 2]

\* mgbitmap_alloc and mgbitmap_free stay inside the map, which by the
\* comments of mgbitmap.c (4096 words of 16 bits) has room for all offsets.
InsideMap == pc # "crashed"

\* No number is handed to a second client before the first one freed it.
SoleHolder == \A o \in Offset : held[o] <= 1

\* Whatever range the client asked for, only the number 0, which a bitmap
\* opened at 0 returns to everybody, has two holders.
OnlyZeroShared == \A o \in Offset \ {0} : held[o] <= 1

\* Grants go round the range from the number granted last, only free numbers
\* are granted, and a request is refused only when none is free: a scan that
\* starts anywhere meets every number before it gives up.
Pool == INSTANCE IdPool WITH
    open <- pc \in {"idle", "scan"},
    low <- min, high <- max,
    busy <- {o \in Ids : Cell(o) \in map},
    answer <- result

ImplementsPool == Pool!Spec

\* mgbitmap_alloc returns, also when every number is taken.
AllocReturns == pc = "scan" ~> pc # "scan"

=============================================================================
