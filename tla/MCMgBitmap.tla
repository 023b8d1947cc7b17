------------------------------ MODULE MCMgBitmap ------------------------------
(* Instances of MgBitmap for TLC.                                          *)
EXTENDS MgBitmap

AllRanges == Offset \X Offset
Clean == {{}}
SomeGarbage == SUBSET {2, 3, 5}
Nobody == {}
WholeRange == {<<1, OffsetMax>>}

\* A client that asks for a range the allocator works for: above 0, with
\* room between the bounds, inside the map.
Proper == {r \in Offset \X Offset :
              0 < r[1] /\ r[1] + 1 < r[2] /\ r[2] <= 4 * MapWords}
AsksProper == pc' = "none" \/ <<min', max'>> \in Proper

PoolSpec == Init /\ [][Next /\ AsksProper]_vars /\ WF_vars(pc = "scan" /\ Alloc)
=============================================================================
