----------------------------- MODULE PendingStore -----------------------------
(***************************************************************************)
(* The pending authorizations of MemoryStore, mcpclient/store.go, as a set *)
(* of entries that each lapse at a time: what a save drops, and what a     *)
(* callback may still be given.                                            *)
(***************************************************************************)
EXTENDS Naturals, FiniteSets

\* An entry answers a callback until the moment it lapses.
Honoured(e, now) == now < e.expires

Unlapsed(entries, now) == {e \in entries : Honoured(e, now)}

LapsesFirst(e, entries) == \A other \in entries : e.expires <= other.expires

\* dropLapsed: the lapsed go, and, while the store is full, the one that lapses
\* first; of several that lapse together any, as a map is ranged over.  A store
\* that was within its capacity has to give up one at most.
RoomMade(entries, now, capacity) ==
    LET left == Unlapsed(entries, now)
    IN  IF Cardinality(left) < capacity THEN {left}
        ELSE {left \ {e} : e \in {x \in left : LapsesFirst(x, left)}}
=============================================================================
