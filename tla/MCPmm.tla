------------------------------- MODULE MCPmm -------------------------------
(* Three small memory maps: one whose first usable entry is too small for   *)
(* the stack's array, so that the second is carved, with a reclaimable      *)
(* entry between them; one with a single usable entry; and one where the    *)
(* array takes all of the first usable entry, so that the cache is seeded   *)
(* with reserved memory.  The hash collides.                                *)
EXTENDS Pmm

E(t, b, l) == [type |-> t, base |-> b, length |-> l]

MCMemMaps == {
    <<E("usable", 1, 1), E("reclaimable", 2, 1), E("usable", 4, 7), E("reserved", 11, 1)>>,
    <<E("reserved", 0, 2), E("usable", 2, 6), E("reserved", 8, 1)>>,
    <<E("usable", 2, 2), E("reserved", 4, 1), E("usable", 5, 3)>> }

MCHash == [p \in Page |-> (p \div 2) % CacheSize]
=============================================================================
