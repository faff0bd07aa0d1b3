---------------------------- MODULE SearchCoordinator ----------------------------
(***************************************************************************)
(* The concurrent search (launcher-core/src/search_coordinator.rs) and the   *)
(* request it is derived from (launcher-search/src/intelligence.rs): a        *)
(* filter selects providers, groups of which are asked by worker threads,     *)
(* a provider may fail or panic, and the caller may cancel.                    *)
(*                                                                          *)
(* Abstraction: a query is its prefix and what the intent is read from; a     *)
(* provider answers with itself. Providers are <<class, class, ...>>, in       *)
(* order of registration.                                                     *)
(***************************************************************************)
EXTENDS Naturals, Sequences, FiniteSets, FiniteSetsExt

CONSTANTS Providers,        \* sequence of "app", "file", "workflow", "plugin"
          Queries,          \* of [prefix, tokens, separator, trailing, extension, verb]
          MaxParallelism,
          None,
          MaxSearches       \* bound on searches

VARIABLES poisoned,  \* providers whose lock a panic has poisoned
          request,   \* the search under way, or None
          workers,   \* group -> its next position, or "done" or "dead"
          asking,    \* groups that are in a provider
          results,   \* slot -> provider that answered, or None
          errors,    \* providers that failed
          cancel,    \* the caller's flag
          noticed,   \* a worker has seen it
          outcome,   \* of the last search: [state, commands, of], or None
          searches

vars == <<poisoned, request, workers, asking, results, errors, cancel, noticed, outcome, searches>>

-----------------------------------------------------------------------------
(* The request. *)

parse_prefix(p) == IF p \in {"app", "file", "folder", "cmd", "plugin", "wf"} THEN p ELSE None

to_intent == [app |-> "Application", file |-> "File", folder |-> "Folder", cmd |-> "Command",
              plugin |-> "Plugin", wf |-> "Workflow"]

Signals(q) ==
    (IF q.separator THEN {IF q.trailing THEN "Folder" ELSE "File"} ELSE {})
    \cup (CASE q.extension = "program" -> {"Application"}
            [] q.extension = "document" -> {"File"}
            [] OTHER -> {})
    \cup (IF q.tokens >= 2 /\ q.verb THEN {"Command"} ELSE {})

detect_intent(q) ==
    LET s == Signals(q) IN
    IF parse_prefix(q.prefix) # None THEN to_intent[q.prefix]
    ELSE IF q.tokens = 0 THEN "Unknown"
    ELSE IF s = {} THEN "Application"
    ELSE IF Cardinality(s) = 1 THEN CHOOSE i \in s : TRUE ELSE "Mixed"

\* routes_to: by the first letters of the provider's id.
Routes == [app |-> {"app"}, file |-> {"file"}, folder |-> {"file"},
           cmd |-> {"workflow"}, plugin |-> {"plugin"}, wf |-> {"workflow"}]
intent_routes_to(q, i) ==
    LET kind == parse_prefix(q.prefix) IN kind = None \/ Providers[i] \in Routes[kind]

\* The numbers of keep, all above 0, in their order; the elements of s at those positions.
Increasing(keep) == CHOOSE p \in UNION {[1 .. m -> keep] : m \in 0 .. Max(keep \cup {0})} :
                       /\ {p[i] : i \in DOMAIN p} = keep
                       /\ \A i, j \in DOMAIN p : i < j => p[i] < p[j]
Kept(s, keep) == [i \in DOMAIN Increasing(keep) |-> s[Increasing(keep)[i]]]

Selected(q) == Increasing({i \in DOMAIN Providers : intent_routes_to(q, i)})

-----------------------------------------------------------------------------
(* A search. *)

Init ==
    /\ request = None /\ workers = <<>> /\ asking = {} /\ results = <<>> /\ errors = {}
    /\ cancel = FALSE /\ noticed = FALSE /\ poisoned = {} /\ outcome = None /\ searches = 0

GroupsOf(sel) == IF Len(sel) = 0 THEN 1 ELSE IF Len(sel) < MaxParallelism THEN Len(sel) ELSE MaxParallelism

search(q) ==
    /\ request = None /\ searches < MaxSearches /\ searches' = searches + 1
    /\ LET sel == Selected(q) IN
       /\ request' = [selected |-> sel, intent |-> detect_intent(q)]
       /\ workers' = [g \in 1 .. GroupsOf(sel) |-> g]
       /\ results' = [slot \in DOMAIN sel |-> None]
    /\ outcome' = None /\ UNCHANGED <<poisoned, asking, errors, cancel, noticed>>

\* The providers of group g are every n-th of the selected ones.
Position(g) == workers[g]
Advance(g) == workers' = [workers EXCEPT ![g] = @ + Len(workers)]
Running(g) == request # None /\ g \in DOMAIN workers /\ workers[g] # None
              /\ workers[g] <= Len(request.selected)
Asked(g) == request.selected[Position(g)]

\* The flag is looked at before each provider, and in_flight counts those asked.
Ask(g) ==
    /\ Running(g) /\ g \notin asking
    /\ IF cancel
         THEN noticed' = TRUE /\ workers' = [workers EXCEPT ![g] = Len(request.selected) + 1] /\ UNCHANGED asking
         ELSE asking' = asking \cup {g} /\ UNCHANGED <<noticed, workers>>
    /\ UNCHANGED <<poisoned, request, results, errors, cancel, outcome, searches>>

\* The answer goes to the slot of the provider's own number; there are only as many slots
\* as providers were selected, and a worker that misses them takes the search with it.
Slot(i) == i
Answers(g, fails) ==
    /\ Running(g) /\ g \in asking /\ Asked(g) \notin poisoned /\ asking' = asking \ {g}
    /\ IF Slot(Asked(g)) \in DOMAIN results
         THEN /\ results' = [results EXCEPT ![Slot(Asked(g))] = Asked(g)] /\ Advance(g)
              /\ errors' = IF fails THEN errors \cup {Asked(g)} ELSE errors
         ELSE workers' = [workers EXCEPT ![g] = None] /\ UNCHANGED <<results, errors>>
    /\ UNCHANGED <<poisoned, request, cancel, noticed, outcome, searches>>

\* Bug: a panic leaves no error behind.
Reported_not(i) == errors
Reported(i) == errors \cup {i}

\* The panic is caught, the lock it held stays poisoned for every later query.
Panics(g) ==
    /\ Running(g) /\ g \in asking /\ asking' = asking \ {g}
    /\ poisoned' = poisoned \cup {Asked(g)} /\ errors' = Reported(Asked(g)) /\ Advance(g)
    /\ UNCHANGED <<request, results, cancel, noticed, outcome, searches>>

Cancel ==
    /\ request # None /\ ~cancel /\ cancel' = TRUE
    /\ UNCHANGED <<poisoned, request, workers, asking, results, errors, noticed, outcome, searches>>

\* The scope ends when every worker has; the answers are merged in the order of the slots.
Finish ==
    /\ request # None /\ \A g \in DOMAIN workers : ~Running(g)
    /\ outcome' = [state |-> IF \E g \in DOMAIN workers : workers[g] = None THEN "Panicked"
                             ELSE IF noticed THEN "Cancelled"
                             ELSE IF errors = {} THEN "Complete" ELSE "Partial",
                   commands |-> Kept(results, {slot \in DOMAIN results : results[slot] # None}),
                   of |-> request.selected]
    /\ request' = None /\ workers' = <<>> /\ results' = <<>> /\ errors' = {}
    /\ cancel' = FALSE /\ noticed' = FALSE /\ UNCHANGED <<poisoned, asking, searches>>

Next ==
    \/ Cancel \/ Finish
    \/ \E q \in Queries : search(q)
    \/ \E g \in 1 .. MaxParallelism : Ask(g) \/ Panics(g) \/ \E f \in BOOLEAN : Answers(g, f)

Spec == Init /\ [][Next]_vars

TypeOK ==
    /\ poisoned \subseteq DOMAIN Providers /\ Cardinality(asking) <= MaxParallelism
    /\ asking \subseteq DOMAIN workers
    /\ outcome # None => outcome.state \in {"Complete", "Partial", "Cancelled", "Panicked"}

-----------------------------------------------------------------------------
\* search_coordinator.rs, AC-B02-2 and INV-SEARCH-004: "Complete" means that each provider
\* asked has answered, in order and however the workers interleaved; without a cancel the
\* providers that did not panic contribute in any case.
CompleteIsAll ==
    outcome # None =>
        /\ outcome.state = "Complete" => outcome.commands = outcome.of
        /\ outcome.state = "Partial" =>
              \A i \in Range(outcome.of) \ poisoned : i \in Range(outcome.commands)
        /\ \A i, j \in DOMAIN outcome.commands : i < j => outcome.commands[i] < outcome.commands[j]

-----------------------------------------------------------------------------
\* What the source says of itself and does not keep: no run checks it, and the README lists it.

\* search_coordinator.rs:12-13, AC-B02-4: a provider's failure or panic "never kills the
\* coordinator": every search returns.
NeverKilled == outcome # None => outcome.state # "Panicked"
=============================================================================
