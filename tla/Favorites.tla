-------------------------------- MODULE Favorites --------------------------------
(***************************************************************************)
(* FavoriteService (launcher-core/src/favorites.rs): favorites and pins in a *)
(* SQLite file of their own. The connection is behind a mutex that pin,       *)
(* reorder and snapshot take more than once, so calls of several Callers      *)
(* interleave there; the file may be found damaged at a start.                *)
(***************************************************************************)
EXTENDS Naturals, Sequences, SequencesExt, FiniteSets, FiniteSetsExt

CONSTANTS Keys, Callers,
          MAX_FAVORITES, MAX_PINS,
          None,
          MaxCalls           \* bound on calls and restarts

VARIABLES favorites,  \* rows of the one table
          pins,       \* key -> order_index, of those pinned
          calls,      \* caller -> the call it is in, or None
          snapshot,   \* the last one taken: [favorites, pinned]
          lost,       \* user data that is neither in the file nor set aside
          count

vars == <<favorites, pins, calls, snapshot, lost, count>>

Pinned == DOMAIN pins
\* By order_index; equal indices come in any order, and here in one.
InOrder == SetToSortSeq(Pinned, LAMBDA k, l : pins[k] < pins[l])

Init ==
    /\ favorites = {} /\ pins = <<>> /\ calls = [c \in Callers |-> None]
    /\ snapshot = [favorites |-> {}, pinned |-> <<>>] /\ lost = FALSE /\ count = 0

Free(c) == calls[c] = None /\ count < MaxCalls /\ count' = count + 1
Stays(c, call) == calls' = [calls EXCEPT ![c] = call]
Returns(c) == Stays(c, None) /\ UNCHANGED count

-----------------------------------------------------------------------------
add(c, k) ==
    /\ Free(c)
    /\ favorites' = IF k \in favorites \/ Cardinality(favorites) >= MAX_FAVORITES
                      THEN favorites ELSE favorites \cup {k}
    /\ UNCHANGED <<pins, calls, snapshot, lost>>

\* Bug: the pin stays.
Unpinned_never(k) == pins
Unpinned(k) == [l \in Pinned \ {k} |-> pins[l]]

\* One transaction.
remove(c, k) ==
    /\ Free(c) /\ favorites' = favorites \ {k} /\ pins' = Unpinned(k)
    /\ UNCHANGED <<calls, snapshot, lost>>

\* The limit is checked under a lock that the transaction does not hold any more.
pin(c, k) ==
    /\ Free(c) /\ UNCHANGED <<favorites, pins, snapshot, lost>>
    /\ IF k \notin Pinned /\ Cardinality(Pinned) >= MAX_PINS
         THEN UNCHANGED calls ELSE Stays(c, [op |-> "pin", key |-> k])
Pin(c) ==
    /\ calls[c] # None /\ calls[c].op = "pin"
    /\ LET k == calls[c].key
           next == IF pins = <<>> THEN 0 ELSE Max({pins[l] : l \in Pinned}) + 1
       IN /\ favorites' = favorites \cup {k}
          /\ pins' = [l \in Pinned \cup {k} |-> IF l = k THEN next ELSE pins[l]]
    /\ Returns(c) /\ UNCHANGED <<snapshot, lost>>

unpin(c, k) ==
    /\ Free(c) /\ pins' = Unpinned(k) /\ UNCHANGED <<favorites, calls, snapshot, lost>>

\* The order is read, the key moved, and what was read is numbered anew.
reorder(c, k, to) ==
    /\ Free(c) /\ UNCHANGED <<favorites, pins, snapshot, lost>>
    /\ IF k \notin Pinned THEN UNCHANGED calls
       ELSE LET rest == Remove(InOrder, k)
                at == IF to > Len(rest) THEN Len(rest) ELSE to
            IN Stays(c, [op |-> "reorder", order |-> InsertAt(rest, at + 1, k)])
Reorder(c) ==
    /\ calls[c] # None /\ calls[c].op = "reorder"
    /\ LET order == calls[c].order
           Index(l) == CHOOSE i \in DOMAIN order : order[i] = l
       IN pins' = [l \in Pinned |-> IF l \in ToSet(order) THEN Index(l) - 1 ELSE pins[l]]
    /\ Returns(c) /\ UNCHANGED <<favorites, snapshot, lost>>

\* The favorites under one lock, the pins under the next.
take_snapshot(c) ==
    /\ Free(c) /\ Stays(c, [op |-> "snapshot", favorites |-> favorites])
    /\ UNCHANGED <<favorites, pins, snapshot, lost>>
Snapshot(c) ==
    /\ calls[c] # None /\ calls[c].op = "snapshot"
    /\ snapshot' = [favorites |-> calls[c].favorites, pinned |-> InOrder]
    /\ Returns(c) /\ UNCHANGED <<favorites, pins, lost>>

\* A start: a file without the SQLite header is set aside, one that has it and cannot be
\* opened is deleted; either way an empty one follows.
open(damage) ==
    /\ count < MaxCalls /\ count' = count + 1 /\ calls' = [c \in Callers |-> None]
    /\ snapshot' = [favorites |-> {}, pinned |-> <<>>]
    /\ IF damage = None THEN UNCHANGED <<favorites, pins, lost>>
       ELSE /\ favorites' = {} /\ pins' = <<>>
            /\ lost' = (lost \/ (damage = "inside" /\ favorites # {}))

Next ==
    \/ \E d \in {None, "header", "inside"} : open(d)
    \/ \E c \in Callers :
          \/ Pin(c) \/ Reorder(c) \/ Snapshot(c) \/ take_snapshot(c)
          \/ \E k \in Keys : \/ add(c, k) \/ remove(c, k) \/ pin(c, k) \/ unpin(c, k)
                             \/ \E to \in 0 .. 1 : reorder(c, k, to)

Spec == Init /\ [][Next]_vars

TypeOK ==
    /\ favorites \subseteq Keys /\ Pinned \subseteq Keys /\ lost \in BOOLEAN
    /\ \A c \in Callers : calls[c] = None \/ calls[c].op \in {"pin", "reorder", "snapshot"}

-----------------------------------------------------------------------------
\* favorites.rs, INV-FAV-006 and INV-FAV-007: "Pin is a subset of Favorite" through every
\* interleaving of pin, reorder and remove: a removed key leaves no pin behind.
PinsAreFavorites == Pinned \subseteq favorites

-----------------------------------------------------------------------------
\* What the source says of itself and does not keep: no run checks it, and the README lists it.

\* favorites.rs:12, "Bounded: max favorites / max pins".
Bounded == Cardinality(favorites) <= MAX_FAVORITES /\ Cardinality(Pinned) <= MAX_PINS

\* favorites.rs, C6: "USER DATA ... Never silently erased".
NeverErased == ~lost

\* favorites.rs, snapshot: the ranking sees a state that the file was in.
SnapshotConsistent == ToSet(snapshot.pinned) \subseteq snapshot.favorites
=============================================================================
