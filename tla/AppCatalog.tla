------------------------------- MODULE AppCatalog -------------------------------
(***************************************************************************)
(* The application catalog (launcher-providers, build_core in main.rs): at   *)
(* every start the sources are enumerated, the observations merged by        *)
(* canonical identity and committed to catalog.db in one transaction, and    *)
(* the search provider is built from what is listed back, or from the        *)
(* discovery itself when the list is empty or unreadable.                    *)
(*                                                                          *)
(* Abstraction: a path is the pair of its source and the thing it leads to;  *)
(* names follow paths. The lifecycle of a row stays "ready": nothing outside *)
(* the tests sets it.                                                        *)
(***************************************************************************)
EXTENDS Naturals, Sequences, SequencesExt, FiniteSets, FiniteSetsExt

CONSTANTS Exes,      \* executables on the machine
          Links,     \* start menu shortcuts
          MaxApps,   \* MAX_APPS
          None,
          MaxStarts  \* bound on launches

\* In the order of their names, by which equal identities are sorted.
Sources == <<"packaged", "portable", "start-menu", "uninstall">>
Rank(src) == CHOOSE i \in DOMAIN Sources : Sources[i] = src

VARIABLES menu,      \* shortcut -> its target, "broken" (unresolved), or None (no such shortcut)
          installed, \* source other than the menu -> what it lists
          rows,      \* catalog.db
          generation,
          shell,     \* "down", "discovered", "committed", "up"
          found,     \* the observations of this start, in order
          entries,   \* the provider
          starts

vars == <<menu, installed, rows, generation, shell, found, entries, starts>>
machine == <<menu, installed>>

Init ==
    /\ menu \in [Links -> Exes \cup {"broken", None}]
    /\ installed = [s \in {"packaged", "portable", "uninstall"} |-> {}]
    /\ rows = {} /\ generation = 0 /\ shell = "down" /\ found = <<>> /\ entries = {} /\ starts = 0

-----------------------------------------------------------------------------
(* Discovery. *)

\* AppEntry: a shortcut that does not resolve has itself as target, a package none.
Observation(src, from, target) == [source |-> src, path |-> <<src, from>>, target |-> target]

collect_lnk_dir ==
    LET seen == SetToSeq({l \in Links : menu[l] # None}) IN
    [i \in DOMAIN seen |->
        Observation("start-menu", seen[i], IF menu[seen[i]] = "broken" THEN None ELSE menu[seen[i]])]
Listed(src) ==
    LET seen == SetToSeq(installed[src]) IN
    [i \in DOMAIN seen |-> Observation(src, seen[i], IF src = "packaged" THEN None ELSE seen[i])]
Unreadable == <<>>

\* Sources that cannot be read contribute nothing.
collect_entries(readable) ==
    LET Of(src) == IF src \in readable THEN Listed(src) ELSE Unreadable IN
    collect_lnk_dir \o Of("uninstall") \o Of("packaged") \o Of("portable")

\* The executable when there is one, otherwise the path itself.
canonical_identity(o) == IF o.target # None THEN <<"win32", o.target>> ELSE o.path

-----------------------------------------------------------------------------
(* The store and the provider. *)

Identities(obs) == {canonical_identity(obs[i]) : i \in DOMAIN obs}
Observers(obs, id) == {i \in DOMAIN obs : canonical_identity(obs[i]) = id}

\* The first of the source whose name comes first gives the row its path.
Canonical(obs, id) ==
    CHOOSE i \in Observers(obs, id) : \A j \in Observers(obs, id) :
        \/ Rank(obs[i].source) < Rank(obs[j].source)
        \/ obs[i].source = obs[j].source /\ i <= j

Row(obs, i, seen) ==
    [identity |-> canonical_identity(obs[i]), path |-> obs[i].path, target |-> obs[i].target,
     sources |-> {obs[j].source : j \in seen}]

\* Bug: a later observation of the same identity replaces the row and its sources.
Reconcile_last_wins(obs) ==
    {LET last == Max(Observers(obs, id)) IN Row(obs, last, {last}) : id \in Identities(obs)}
reconcile_observations(obs) ==
    {Row(obs, Canonical(obs, id), Observers(obs, id)) : id \in Identities(obs)}

\* merge_by_executable: the first shortcut, otherwise the first observation.
Preferred(obs, id) ==
    LET menus == {i \in Observers(obs, id) : obs[i].source = "start-menu"} IN
    IF menus # {} THEN Min(menus) ELSE Min(Observers(obs, id))
merge_by_executable(obs) ==
    {Row(obs, Preferred(obs, id), Observers(obs, id)) : id \in Identities(obs)}

\* from_entries keeps at most MaxApps.
Truncated(all) == IF Cardinality(all) <= MaxApps THEN {all} ELSE kSubset(MaxApps, all)

-----------------------------------------------------------------------------
(* A start. *)

Ends == shell' = "down" /\ found' = <<>> /\ entries' = {}

\* The user installs, removes, and renames while the launcher is down or up.
Installs(src, xs) ==
    /\ shell = "down" /\ installed[src] # xs
    /\ installed' = [installed EXCEPT ![src] = xs]
    /\ UNCHANGED <<menu, rows, generation, shell, found, entries, starts>>
Relinks(l, t) ==
    /\ shell = "down" /\ menu[l] # t /\ menu' = [menu EXCEPT ![l] = t]
    /\ UNCHANGED <<installed, rows, generation, shell, found, entries, starts>>

build_core(readable) ==
    /\ shell = "down" /\ starts < MaxStarts /\ starts' = starts + 1
    /\ shell' = "discovered" /\ found' = collect_entries(readable)
    /\ UNCHANGED <<machine, rows, generation, entries>>

\* A file that cannot be opened is deleted and created anew; then one transaction.
commit_merged(corrupt) ==
    /\ shell = "discovered" /\ rows' = reconcile_observations(found)
    /\ generation' = (IF corrupt THEN 0 ELSE generation) + 1
    /\ shell' = "committed" /\ UNCHANGED <<machine, found, entries, starts>>

\* The error of the transaction is the error of the start: the old catalog stays.
Fails ==
    /\ shell \in {"discovered", "committed"} /\ Ends
    /\ UNCHANGED <<machine, rows, generation, starts>>

from_catalog_records ==
    /\ shell = "committed" /\ rows # {} /\ shell' = "up" /\ entries' \in Truncated(rows)
    /\ UNCHANGED <<machine, rows, generation, found, starts>>

from_entries ==
    /\ shell = "committed" /\ shell' = "up" /\ entries' \in Truncated(merge_by_executable(found))
    /\ UNCHANGED <<machine, rows, generation, found, starts>>

Quits == shell = "up" /\ Ends /\ UNCHANGED <<machine, rows, generation, starts>>

Next ==
    \/ Fails \/ from_catalog_records \/ from_entries \/ Quits
    \/ \E c \in BOOLEAN : commit_merged(c)
    \/ \E readable \in {DOMAIN installed, {"portable"}} : build_core(readable)
    \/ \E l \in Links, t \in Exes \cup {"broken", None} : Relinks(l, t)
    \/ \E s \in DOMAIN installed, xs \in {{}, Exes} : Installs(s, xs)

Spec == Init /\ [][Next]_vars

TypeOK ==
    /\ shell \in {"down", "discovered", "committed", "up"} /\ Cardinality(entries) <= MaxApps
    /\ \A r \in rows : r.sources # {}
    /\ generation <= starts

-----------------------------------------------------------------------------
\* app_registry.rs, INV-IDENTITY-001: "equivalent discovery records for the same
\* application collapse to ONE entry" that keeps every source that saw it, in whatever
\* order and from whichever sources they came; up to the bound none is missing.
OneEntryPerApp ==
    shell = "up" =>
        /\ \A e, f \in entries : e.identity = f.identity => e = f
        /\ \A e \in entries : e.sources = {found[i].source : i \in Observers(found, e.identity)}
        /\ Cardinality(Identities(found)) <= MaxApps =>
               {e.identity : e \in entries} = Identities(found)

-----------------------------------------------------------------------------
\* What the source says of itself and does not keep: no run checks it, and the README lists it.

\* app_registry.rs:93-96, "Stable-id rule": the entries built from the catalog keep the
\* paths, and so the command ids, that the entries built from discovery have.
StableIds ==
    shell = "up" /\ Cardinality(Identities(found)) <= MaxApps =>
        {e.path : e \in entries} = {e.path : e \in merge_by_executable(found)}
=============================================================================
