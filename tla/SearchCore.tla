------------------------------ MODULE SearchCore ------------------------------
(***************************************************************************)
(* launcher-core: Core::search with its generation-keyed cache, the usage   *)
(* history and the favorites that rank results, and the search context.     *)
(* Callers hold the AppState mutex, so only the indexer, which commits a     *)
(* generation of the file index, moves while a search is under way.          *)
(*                                                                         *)
(* A result list is abstracted to what it was made from: the file            *)
(* generation, the usage, favorites and context it was ranked with, and the   *)
(* providers that failed.                                                    *)
(***************************************************************************)
EXTENDS Naturals, Sequences, FiniteSets, SequencesExt, FiniteSetsExt

CONSTANTS Texts, Keys,           \* queries; identity keys of commands
          Contexts,              \* semantic states: foreground and folder
          Providers, Empty,      \* queries nothing matches
          Bytes,                 \* estimated size of the answer to each query
          MaxEntries, MaxBytes,
          CompleteTtl, NegativeTtl,
          MaxFavorites,
          None,                  \* no context, no search, no answer
          MaxMoves               \* bound on the steps of each kind of change

VARIABLES fileGen,               \* generation committed by the indexer
          userGen, contextGen,   \* of Core
          uses,                  \* history rows
          store, snapshot,       \* favorites.db, favorite_snapshot
          context,               \* search_context
          offered,               \* version of the context commands (ContextHandle)
          cache,                 \* entries, oldest first: [key, answer, ttl, bytes, age]
          searching,             \* the search under way: [q, env], or None
          last,                  \* the last answer, with what held when its search began
          moves

core == <<userGen, contextGen, uses, store, snapshot, context, offered, cache>>
vars == <<fileGen, core, searching, last, moves>>

Env == [file |-> fileGen, user |-> userGen, context |-> contextGen]

SizeOf(entries) == FoldSeq(LAMBDA e, n : e.bytes + n, 0, entries)

TypeOK ==
    /\ <<fileGen, userGen, contextGen, uses>> \in Nat \X Nat \X Nat \X Nat
    /\ store \subseteq Keys /\ snapshot \subseteq Keys /\ Cardinality(store) <= MaxFavorites
    /\ context \in Contexts \cup {None}
    /\ searching = None \/ searching.q \in Texts
    /\ last = None \/ last.failed \subseteq Providers
    /\ Len(cache) <= MaxEntries /\ SizeOf(cache) <= MaxBytes
    /\ \A i, j \in DOMAIN cache : cache[i].key = cache[j].key => i = j

Init ==
    /\ fileGen = 0 /\ userGen = 0 /\ contextGen = 0 /\ uses = 0
    /\ store = {} /\ snapshot = {} /\ context = None /\ offered = 0 /\ cache = <<>>
    /\ searching = None /\ last = None /\ moves = 0

Move == moves < MaxMoves /\ moves' = moves + 1

\* The indexer commits, whatever a search is doing.
Commit == Move /\ fileGen' = fileGen + 1 /\ UNCHANGED <<core, searching, last>>

Idle == searching = None /\ Move /\ UNCHANGED <<fileGen, searching, last>>

\* Bug: the ranking changes and cached answers stay.
Record_use_keeps_generation ==
    Idle /\ uses' = uses + 1
    /\ UNCHANGED <<userGen, contextGen, store, snapshot, context, offered, cache>>

record_use_with_title ==
    Idle /\ userGen' = userGen + 1 /\ uses' = uses + 1
    /\ UNCHANGED <<contextGen, store, snapshot, context, offered, cache>>

\* Decides by the snapshot; the store refuses what exceeds its limit, the caller is told
\* it was added all the same.
toggle_favorite(k) ==
    /\ Idle
    /\ store' = IF k \in snapshot THEN store \ {k}
                ELSE IF Cardinality(store) < MaxFavorites THEN store \cup {k} ELSE store
    /\ userGen' = userGen + 1 /\ snapshot' = store'
    /\ UNCHANGED <<contextGen, uses, context, offered, cache>>

\* Only a semantic change advances the generation.
set_search_context(c) ==
    /\ Idle /\ context' = c
    /\ contextGen' = IF c # context THEN contextGen + 1 ELSE contextGen
    /\ UNCHANGED <<userGen, uses, store, snapshot, offered, cache>>

\* The context refresh of a popup puts other commands behind the same provider.
replace ==
    Idle /\ offered' = offered + 1
    /\ UNCHANGED <<userGen, contextGen, uses, store, snapshot, context, cache>>

\* A new process: set_favorites refreshes the snapshot before the store is attached.
Restart ==
    /\ Move /\ searching' = None /\ last' = None
    /\ userGen' = 0 /\ contextGen' = 0 /\ context' = None /\ cache' = <<>> /\ snapshot' = {}
    /\ offered' = 0 /\ UNCHANGED <<fileGen, uses, store>>

----------------------------------------------------------------------------
(* The cache.                                                              *)

Entry(key)  == {i \in DOMAIN cache : cache[i].key = key}
\* A map: at most one entry has the key.
Without(key) == IF Entry(key) = {} THEN cache ELSE RemoveAt(cache, CHOOSE i \in Entry(key) : TRUE)
Expired(e)  == e.age >= e.ttl

\* The newest entries that leave room for b bytes and one more entry; none where none do.
Evict(entries, b) ==
    LET Fits(n) == LET kept == SubSeq(entries, n, Len(entries)) IN
                   /\ SizeOf(kept) + b <= MaxBytes
                   /\ Len(kept) < MaxEntries
        End == Len(entries) + 1
    IN SubSeq(entries, Min({n \in 1 .. End : Fits(n) \/ n = End}), Len(entries))

put(e) == IF e.bytes > MaxBytes \div 4 THEN cache ELSE Append(Evict(Without(e.key), e.bytes), e)

Tick ==
    /\ Move /\ cache # <<>>
    /\ cache' = [i \in DOMAIN cache |-> [cache[i] EXCEPT !.age = @ + 1]]
    /\ UNCHANGED <<fileGen, userGen, contextGen, uses, store, snapshot, context, offered, searching, last>>

----------------------------------------------------------------------------
(* A search.                                                               *)

Answer(e, a, reported) ==
    [since |-> e, file |-> a.file, ranked |-> a.ranked, offered |-> a.offered,
     failed |-> a.failed, reported |-> reported]

\* The environment is read before anything is queried; a hit reports no errors.
SearchStarts(q) ==
    LET key == [q |-> q, env |-> Env]
        hit == {i \in Entry(key) : ~Expired(cache[i])} IN
    /\ searching = None /\ Move
    /\ IF hit # {}
       THEN /\ last' = Answer(Env, cache[CHOOSE i \in hit : TRUE].answer, {})
            /\ UNCHANGED <<searching, cache>>
       ELSE searching' = key /\ cache' = Without(key) /\ UNCHANGED last
    /\ UNCHANGED <<fileGen, userGen, contextGen, uses, store, snapshot, context, offered>>

\* The providers answer or fail; the ranked list is cached, partial or not.
SearchReturns ==
    /\ searching # None
    /\ \E failed \in SUBSET Providers :
          LET a == [file |-> fileGen, ranked |-> <<uses, snapshot, context>>,
                    offered |-> offered, failed |-> failed]
              none == searching.q \in Empty \/ failed = Providers IN
          /\ last' = Answer(searching.env, a, failed)
          /\ cache' = put([key |-> searching, answer |-> a, age |-> 0,
                           ttl |-> IF none THEN NegativeTtl ELSE CompleteTtl,
                           bytes |-> IF none THEN 0 ELSE Bytes[searching.q]])
    /\ searching' = None
    /\ UNCHANGED <<fileGen, userGen, contextGen, uses, store, snapshot, context, offered, moves>>

Next ==
    \/ Commit \/ replace \/ record_use_with_title \/ Restart \/ Tick \/ SearchReturns
    \/ \E k \in Keys : toggle_favorite(k)
    \/ \E c \in Contexts \cup {None} : set_search_context(c)
    \/ \E q \in Texts : SearchStarts(q)

Spec == Init /\ [][Next]_vars

----------------------------------------------------------------------------

\* An answer, cached or not, shows the files as committed when its search began or later,
\* ranked with the usage, favorites and context of that moment (the generations of the
\* cache key in Core::search).
NeverOlder ==
    [][last' # last /\ last' # None =>
          last'.file >= last'.since.file /\ last'.ranked = <<uses, snapshot, context>>]_vars

-----------------------------------------------------------------------------
\* What the source says of itself and does not keep: no run checks it, and the README lists it.

\* An answer offers the context commands that are current ("cache keys must include every
\* invalidating generation", set_application_generation): the commands are replaced without
\* any generation of the key moving.
CurrentCommands == [][last' # last /\ last' # None => last'.offered = offered]_vars
=============================================================================
