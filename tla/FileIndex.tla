-------------------------------- MODULE FileIndex --------------------------------
(***************************************************************************)
(* Indexer (launcher-indexer/src/lib.rs): the rows of the files table, the full *)
(* text table derived from them, the usage history and the generation, against  *)
(* the disk they mirror. Every call is one SQLite transaction.                  *)
(* A path is a root, a name and a spelling: Windows takes the spellings for one *)
(* file and normalize_path_identity folds them, SQLite's lower() only the ASCII *)
(* letters. LIKE takes `_` and `%` in a root for wildcards.                     *)
(***************************************************************************)
EXTENDS Naturals, Sequences, FiniteSets, FiniteSetsExt

CONSTANTS Roots, Names,
          Covers,        \* root -> roots that its unescaped LIKE pattern matches
          Foreign,       \* names with a letter that is not ASCII
          Hidden,        \* names that a scan leaves out: leading dot, too deep, in a junction
          Budget,        \* MAX_INDEX_ENTRIES
          Trim,          \* executions the history keeps
          Limit,         \* hits a search may return
          None, MaxSteps \* bound on the length of a behavior

VARIABLES disk,        \* the files that exist: identity -> spelling
          rows,        \* the files table: paths
          fts,         \* the files_fts table: paths
          history,     \* of executed commands, latest last
          generation,
          changed,     \* identities of the changes not handed to the index yet
          found,       \* what the last search returned, and what it was asked
          steps

vars == <<disk, rows, fts, history, generation, changed, found, steps>>

Ids == Roots \X Names
IdOf(p) == p.id
Path(id, s) == [id |-> id, spelling |-> s]
OnDisk == {Path(id, disk[id]) : id \in DOMAIN disk}

Init ==
    /\ disk = <<>> /\ rows = {} /\ fts = {} /\ history = <<>> /\ generation = 0
    /\ changed = {} /\ found = None /\ steps = 0

Step == steps < MaxSteps /\ steps' = steps + 1

-----------------------------------------------------------------------------
\* `lower(path) = normalized`: an upper case letter outside ASCII stays what it is.
Lowered(id, p) == IdOf(p) = id /\ ~(p.spelling = "upper" /\ id[2] \in Foreign)
\* `lower(path) LIKE 'root\%'`.
Under(r, p) == IdOf(p)[1] \in Covers[r]

\* What the coordinator verified: the coalescer hands over identities, and verify_one takes
\* the identity, folded to lower case, for the path.
Verified(ids) == {Path(id, "lower") : id \in ids}

\* Bug: rows of another spelling stay.
Upsert_keeps_spelling(tables, ids) ==
    [rows |-> tables.rows \cup Verified(ids), fts |-> tables.fts \cup Verified(ids)]
\* The row replaces those of other spellings; the full text table forgets only the spelling
\* that is inserted.
Upsert(tables, ids) ==
    [rows |-> {x \in tables.rows : \A id \in ids : ~Lowered(id, x)} \cup Verified(ids),
     fts |-> tables.fts \cup Verified(ids)]
Delete(tables, ids) ==
    LET gone == {x \in tables.rows : \E id \in ids : Lowered(id, x)}
    IN [rows |-> tables.rows \ gone, fts |-> tables.fts \ gone]

\* A batch, verified against the disk before it is handed over; one transaction. Its
\* changes are of different files and each touches the rows of its own: no order shows.
apply_batch(batch) ==
    /\ Step /\ batch # {} /\ batch \subseteq changed
    /\ LET there == batch \cap DOMAIN disk
           after == Delete(Upsert([rows |-> rows, fts |-> fts], there), batch \ there)
       IN rows' = after.rows /\ fts' = after.fts
    /\ generation' = generation + 1 /\ changed' = changed \ batch
    /\ UNCHANGED <<disk, history, found>>

\* The files a scan of these roots can insert; which of them stop at the budget is
\* the order of the directory. A root that cannot be read scans as empty.
Scannable(roots) == {p \in OnDisk : IdOf(p)[1] \in roots /\ IdOf(p)[2] \notin Hidden}
scan_into(roots, readable) ==
    LET all == Scannable(roots \cap readable)
    IN IF Cardinality(all) <= Budget THEN {all} ELSE kSubset(Budget, all)

\* Neither of the two below touches the full text table.
rebuild(readable) ==
    /\ Step
    /\ \E scanned \in scan_into(Roots, readable) : rows' = scanned
    /\ generation' = generation + 1
    /\ changed' = changed \ {id \in Ids : id[1] \in readable}
    /\ UNCHANGED <<disk, fts, history, found>>

rescan_root(r, readable) ==
    /\ Step
    /\ \E scanned \in scan_into({r}, readable) : rows' = {p \in rows : ~Under(r, p)} \cup scanned
    /\ generation' = generation + 1 /\ changed' = changed \ {id \in Ids : id[1] = r}
    /\ UNCHANGED <<disk, fts, history, found>>

-----------------------------------------------------------------------------
rebuild_fts == rows

\* MATCH folds every letter and knows the pinyin of a name; the join hides paths
\* that have no row.
search_fts_inner(q, table) == {p \in table \cap rows : IdOf(p)[2] = q.name}
\* LIKE knows no pinyin and folds only ASCII.
search_like(q) ==
    {p \in rows : ~q.pinyin /\ IdOf(p)[2] = q.name /\ ~(p.spelling = "upper" /\ q.name \in Foreign)}

\* No hit in the full text table: it is rebuilt and asked again.
Repaired(q) == IF search_fts_inner(q, fts) # {} THEN fts ELSE rebuild_fts

\* Hits of the full text table first, those of LIKE after them, up to the limit.
search_merged(first, second) ==
    IF Cardinality(first) >= Limit THEN kSubset(Limit, first)
    ELSE LET rest == second \ first
             room == Limit - Cardinality(first)
         IN {first \cup more : more \in IF Cardinality(rest) <= room THEN {rest}
                                         ELSE kSubset(room, rest)}

search(q) ==
    /\ Step
    /\ LET table == Repaired(q)
       IN /\ fts' = table
          /\ \E hits \in search_merged(search_fts_inner(q, table), search_like(q)) :
                found' = [query |-> q, hits |-> hits, rows |-> rows]
    /\ UNCHANGED <<disk, rows, history, generation, changed>>

\* One insert, then all but the latest Trim are deleted.
Trimmed(uses) == IF Len(uses) <= Trim THEN uses ELSE SubSeq(uses, Len(uses) - Trim + 1, Len(uses))
record_use_titled(c) ==
    /\ Step /\ history' = Trimmed(Append(history, c))
    /\ UNCHANGED <<disk, rows, fts, generation, changed, found>>
\* What ranking gets: executions per command.
usage_map(uses) == [c \in Range(uses) |-> Len(SelectSeq(uses, LAMBDA d : d = c))]

\* A start. A file that cannot be opened is deleted with all four tables; an older full
\* text table without the column for pinyin is dropped and comes back empty.
open(damage) ==
    /\ Step /\ found' = None /\ UNCHANGED <<disk, changed>>
    /\ IF damage = "corrupt"
         THEN rows' = {} /\ fts' = {} /\ history' = <<>> /\ generation' = 0
         ELSE fts' = (IF damage = "old" THEN {} ELSE fts) /\ UNCHANGED <<rows, history, generation>>

-----------------------------------------------------------------------------
Changes(id) == Step /\ changed' = changed \cup {id} /\ UNCHANGED <<rows, fts, history, generation, found>>
Creates(id, s) ==
    /\ id \notin DOMAIN disk /\ Changes(id)
    /\ disk' = [i \in DOMAIN disk \cup {id} |-> IF i = id THEN s ELSE disk[i]]
Removes(id) ==
    id \in DOMAIN disk /\ Changes(id) /\ disk' = [i \in DOMAIN disk \ {id} |-> disk[i]]
Respells(id, s) ==
    id \in DOMAIN disk /\ disk[id] # s /\ Changes(id) /\ disk' = [disk EXCEPT ![id] = s]

Spellings == {"lower", "upper"}
Queries == [name : Names, pinyin : BOOLEAN]

Next ==
    \/ \E id \in Ids : \/ Removes(id)
                       \/ \E s \in Spellings : Creates(id, s) \/ Respells(id, s)
    \/ \E batch \in SUBSET changed : apply_batch(batch)
    \/ \E readable \in SUBSET Roots : \/ rebuild(readable)
                                      \/ \E r \in Roots : rescan_root(r, readable)
    \/ \E q \in Queries : search(q)
    \/ \E c \in Names : record_use_titled(c)
    \/ \E damage \in {None, "old", "corrupt"} : open(damage)

Spec == Init /\ [][Next]_vars

TypeOK ==
    /\ DOMAIN disk \subseteq Ids /\ rows \cup fts \subseteq {Path(id, s) : id \in Ids, s \in Spellings}
    /\ \A c \in Range(history) : usage_map(history)[c] \in 1 .. Trim
    /\ Len(history) <= Trim /\ changed \subseteq Ids
    /\ found = None \/ Cardinality(found.hits) <= Limit

-----------------------------------------------------------------------------
\* apply_batch, "identity is the NORMALIZED path: drop any same-file rows stored under a
\* different spelling", INV-INDEX-005: whatever batches, scans and rebuilds came before, no
\* file has two rows, and none that was removed, or bears another name now, keeps its row once
\* that was handed over. It needs names in ASCII: what lower() leaves in upper case is never
\* found again.
OneRowPerFile ==
    /\ \A p, q \in rows : IdOf(p) = IdOf(q) => p = q
    /\ \A p \in rows : \/ IdOf(p) \in changed
                       \/ IdOf(p) \in DOMAIN disk /\ p.spelling \in {"lower", disk[IdOf(p)]}

-----------------------------------------------------------------------------
\* What the source says of itself and does not keep: no run checks it, and the README lists it.

\* rescan_root, "Bounded subtree recovery: delete everything under `root`, re-scan the real
\* subtree. NOT a full rebuild": it changes nothing under another root.
RescanBounded ==
    [][\A r \in Roots : (\E readable \in SUBSET Roots : rescan_root(r, readable))
           => \A p \in rows : IdOf(p)[1] # r => p \in rows']_vars

\* launcher-domain/file_change.rs, FileObservation: "Original (display) path as observed on
\* disk": a row bears the name that its file has.
AsObserved == \A p \in rows : IdOf(p) \in changed \/ p \in OnDisk

\* search: "a broken FTS index gets ONE self-healing rebuild": a search below its limit
\* returns every row whose name it was asked for.
SearchComplete ==
    found # None => \/ Cardinality(found.hits) = Limit
                    \/ {p \in found.rows : IdOf(p)[2] = found.query.name} \subseteq found.hits
=============================================================================
