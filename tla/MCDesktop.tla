------------------------------ MODULE MCDesktop ------------------------------
(***************************************************************************)
(* The services of the launcher itself, side by side: what is behind the      *)
(* search box, the settings, the editor and the triggers of workflows, the     *)
(* effects on the system, and the bounded agent that acts on its commands.      *)
(* They keep no state in common: a behaviour of this module is one of one of    *)
(* the Units. The proofs are for any constants; the sets of MCDesktop_all.cfg   *)
(* are at the end.                                                           *)
(***************************************************************************)
EXTENDS Integers, Sequences, FiniteSets

CONSTANTS Units, None, Torn, Gone

CONSTANTS search_Texts, search_Keys, search_Contexts, search_Providers, search_Empty,
          search_Bytes, search_MaxEntries, search_MaxBytes, search_CompleteTtl,
          search_NegativeTtl, search_MaxFavorites, search_MaxMoves
CONSTANTS ranking_Chars, ranking_Separator, ranking_MaxText, ranking_MaxQuery,
          ranking_Candidates, ranking_Limit
CONSTANTS icons_Exes, icons_Bytes, icons_Budget, icons_MaxFaults
CONSTANTS catalog_Exes, catalog_Links, catalog_MaxApps, catalog_MaxStarts
CONSTANTS favorites_Keys, favorites_Callers, favorites_MAX_FAVORITES, favorites_MAX_PINS,
          favorites_MaxCalls
CONSTANTS coordinator_Providers, coordinator_Queries, coordinator_MaxParallelism,
          coordinator_MaxSearches
CONSTANTS files_Roots, files_Names, files_Covers, files_Foreign, files_Hidden, files_Budget,
          files_Trim, files_Limit, files_MaxSteps
CONSTANTS settings_Hotkeys, settings_Parses, settings_Taken, settings_Themes,
          settings_DefaultHotkey, settings_DefaultTheme, settings_MaxEdits,
          settings_MaxStarts
CONSTANTS editor_Nodes, editor_Entry, editor_MaxUndo, editor_MaxEdits
CONSTANTS trigger_Workflows, trigger_MaxEvents, trigger_MaxFaults
CONSTANTS system_Handles, system_Owners, system_Origins, system_MaxLives
CONSTANTS agent_Catalogs, agent_Answers, agent_Down, agent_Refused, agent_max_proposals,
          agent_fallback_keyword, agent_max_turns, agent_max_proposals_per_turn,
          agent_max_total_executions, agent_max_failures, agent_max_replans

VARIABLE unit
VARIABLES search_fileGen, search_userGen, search_contextGen, search_uses, search_store,
          search_snapshot, search_context, search_offered, search_cache, search_searching,
          search_last, search_moves
VARIABLES ranking_input, ranking_output
VARIABLES icons_world, icons_memory, icons_used, icons_disk, icons_litter, icons_call,
          icons_answer, icons_extracted, icons_faults
VARIABLES catalog_menu, catalog_installed, catalog_rows, catalog_generation, catalog_shell,
          catalog_found, catalog_entries, catalog_starts
VARIABLES favorites_favorites, favorites_pins, favorites_calls, favorites_snapshot,
          favorites_lost, favorites_count
VARIABLES coordinator_poisoned, coordinator_request, coordinator_workers,
          coordinator_asking, coordinator_results, coordinator_errors, coordinator_cancel,
          coordinator_noticed, coordinator_outcome, coordinator_searches
VARIABLES files_disk, files_rows, files_fts, files_history, files_generation, files_changed,
          files_found, files_steps
VARIABLES settings_file, settings_mtime, settings_temp, settings_writer, settings_phase,
          settings_using, settings_stamp, settings_seen, settings_key, settings_classes,
          settings_marker, settings_degraded, settings_failed, settings_missed,
          settings_edits, settings_starts
VARIABLES editor_editor, editor_rows, editor_status, editor_draft, editor_trail,
          editor_edits
VARIABLES trigger_table, trigger_defined, trigger_service, trigger_started, trigger_faults
VARIABLES system_world, system_lives, system_policy, system_cmd, system_at, system_effect,
          system_probed
VARIABLES agent_status, agent_budget, agent_expired, agent_observation, agent_catalog,
          agent_plan, agent_turn, agent_log

Search == INSTANCE SearchCore WITH
    Texts <- search_Texts, Keys <- search_Keys, Contexts <- search_Contexts,
    Providers <- search_Providers, Empty <- search_Empty, Bytes <- search_Bytes,
    MaxEntries <- search_MaxEntries, MaxBytes <- search_MaxBytes,
    CompleteTtl <- search_CompleteTtl, NegativeTtl <- search_NegativeTtl,
    MaxFavorites <- search_MaxFavorites, MaxMoves <- search_MaxMoves,
    fileGen <- search_fileGen, userGen <- search_userGen, contextGen <- search_contextGen,
    uses <- search_uses, store <- search_store, snapshot <- search_snapshot,
    context <- search_context, offered <- search_offered, cache <- search_cache,
    searching <- search_searching, last <- search_last, moves <- search_moves
Ranked == INSTANCE Ranking WITH
    Chars <- ranking_Chars, Separator <- ranking_Separator, MaxText <- ranking_MaxText,
    MaxQuery <- ranking_MaxQuery, Candidates <- ranking_Candidates, Limit <- ranking_Limit,
    input <- ranking_input, output <- ranking_output
Icons == INSTANCE IconCache WITH
    Exes <- icons_Exes, Bytes <- icons_Bytes, Budget <- icons_Budget,
    MaxFaults <- icons_MaxFaults, world <- icons_world, memory <- icons_memory,
    used <- icons_used, disk <- icons_disk, litter <- icons_litter, call <- icons_call,
    answer <- icons_answer, extracted <- icons_extracted, faults <- icons_faults
Catalog == INSTANCE AppCatalog WITH
    Exes <- catalog_Exes, Links <- catalog_Links, MaxApps <- catalog_MaxApps,
    MaxStarts <- catalog_MaxStarts, menu <- catalog_menu, installed <- catalog_installed,
    rows <- catalog_rows, generation <- catalog_generation, shell <- catalog_shell,
    found <- catalog_found, entries <- catalog_entries, starts <- catalog_starts
Stars == INSTANCE Favorites WITH
    Keys <- favorites_Keys, Callers <- favorites_Callers,
    MAX_FAVORITES <- favorites_MAX_FAVORITES, MAX_PINS <- favorites_MAX_PINS,
    MaxCalls <- favorites_MaxCalls, favorites <- favorites_favorites,
    pins <- favorites_pins, calls <- favorites_calls, snapshot <- favorites_snapshot,
    lost <- favorites_lost, count <- favorites_count
Coordinator == INSTANCE SearchCoordinator WITH
    Providers <- coordinator_Providers, Queries <- coordinator_Queries,
    MaxParallelism <- coordinator_MaxParallelism, MaxSearches <- coordinator_MaxSearches,
    poisoned <- coordinator_poisoned, request <- coordinator_request,
    workers <- coordinator_workers, asking <- coordinator_asking,
    results <- coordinator_results, errors <- coordinator_errors,
    cancel <- coordinator_cancel, noticed <- coordinator_noticed,
    outcome <- coordinator_outcome, searches <- coordinator_searches
Files == INSTANCE FileIndex WITH
    Roots <- files_Roots, Names <- files_Names, Covers <- files_Covers,
    Foreign <- files_Foreign, Hidden <- files_Hidden, Budget <- files_Budget,
    Trim <- files_Trim, Limit <- files_Limit, MaxSteps <- files_MaxSteps,
    disk <- files_disk, rows <- files_rows, fts <- files_fts, history <- files_history,
    generation <- files_generation, changed <- files_changed, found <- files_found,
    steps <- files_steps
Settings == INSTANCE ShellSettings WITH
    Hotkeys <- settings_Hotkeys, Parses <- settings_Parses, Taken <- settings_Taken,
    Themes <- settings_Themes, DefaultHotkey <- settings_DefaultHotkey,
    DefaultTheme <- settings_DefaultTheme, MaxEdits <- settings_MaxEdits,
    MaxStarts <- settings_MaxStarts, file <- settings_file, mtime <- settings_mtime,
    temp <- settings_temp, writer <- settings_writer, phase <- settings_phase,
    using <- settings_using, stamp <- settings_stamp, seen <- settings_seen,
    key <- settings_key, classes <- settings_classes, marker <- settings_marker,
    degraded <- settings_degraded, failed <- settings_failed, missed <- settings_missed,
    edits <- settings_edits, starts <- settings_starts
Editor == INSTANCE WorkflowEditor WITH
    Nodes <- editor_Nodes, Entry <- editor_Entry, MaxUndo <- editor_MaxUndo,
    MaxEdits <- editor_MaxEdits, editor <- editor_editor, rows <- editor_rows,
    status <- editor_status, draft <- editor_draft, trail <- editor_trail,
    edits <- editor_edits
Trigger == INSTANCE TriggerQueue WITH
    Workflows <- trigger_Workflows, MaxEvents <- trigger_MaxEvents,
    MaxFaults <- trigger_MaxFaults, table <- trigger_table, defined <- trigger_defined,
    service <- trigger_service, started <- trigger_started, faults <- trigger_faults
Effects == INSTANCE SystemEffects WITH
    Handles <- system_Handles, Owners <- system_Owners, Origins <- system_Origins,
    MaxLives <- system_MaxLives, world <- system_world, lives <- system_lives,
    policy <- system_policy, cmd <- system_cmd, at <- system_at, effect <- system_effect,
    probed <- system_probed
Agent == INSTANCE BoundedAgent WITH
    Catalogs <- agent_Catalogs, Answers <- agent_Answers, Down <- agent_Down,
    Refused <- agent_Refused, max_proposals <- agent_max_proposals,
    fallback_keyword <- agent_fallback_keyword, max_turns <- agent_max_turns,
    max_proposals_per_turn <- agent_max_proposals_per_turn,
    max_total_executions <- agent_max_total_executions, max_failures <- agent_max_failures,
    max_replans <- agent_max_replans, status <- agent_status, budget <- agent_budget,
    expired <- agent_expired, observation <- agent_observation, catalog <- agent_catalog,
    plan <- agent_plan, turn <- agent_turn, log <- agent_log

\* No value and a damaged file are neither an icon nor a call of the icon service; the
\* defaults are a configuration, and no file or one that does not parse are none.
ASSUME MarksAssumption ==
    /\ None \notin Nat /\ Torn \notin Nat
    /\ None \notin [exe : icons_Exes, rev : {None, 0, 1},
                    at : {"memory", "disk", "extract", "write", "rename", "keep"}]
    /\ Settings!Default \in Settings!Config
    /\ Gone \notin Settings!Config /\ Settings!Mixed \notin Settings!Config

\* Catalogs, answers and providers are sequences, bounds are numbers, a search has a worker,
\* and the machine has finitely many programs.
ASSUME InputsAssumption ==
    /\ \A cat \in agent_Catalogs : cat \in Seq({cat[i] : i \in DOMAIN cat})
    /\ \A a \in agent_Answers \ {agent_Down, agent_Refused} : a \in Seq({a[i] : i \in DOMAIN a})
    /\ agent_max_proposals \in Nat /\ agent_max_proposals_per_turn \in Nat
    /\ coordinator_Providers \in Seq({"app", "file", "workflow", "plugin"})
    /\ coordinator_MaxParallelism \in Nat \ {0} /\ editor_MaxUndo \in Nat
    /\ IsFiniteSet(catalog_Exes) /\ IsFiniteSet(catalog_Links) /\ catalog_MaxApps \in Nat

\* A text matches a query in one of the tiers, and neither a text's part of the score nor a
\* boost is negative; providers and ids are ordered, and None is no score.
ASSUME RankingAssumption ==
    /\ ranking_Limit \in Nat /\ ranking_MaxText \in Nat /\ ranking_MaxQuery \in Nat
    /\ \A c \in ranking_Candidates :
          /\ c.provider \in Int /\ c.id \in Int
          /\ c.category \in DOMAIN Ranked!type_prior
          /\ c.title \in DOMAIN Ranked!best_title_score /\ c.word \in DOMAIN Ranked!best_title_score
          /\ c.keywords \in Seq(DOMAIN Ranked!keyword_score)
          /\ c.hint \in Nat /\ c.fuzzy \in Nat /\ c.uses \in Nat /\ c.recency \in Nat
          /\ c.favorite \in Nat /\ c.context \in Nat /\ c.tokens \in Nat

searchVars == <<search_fileGen, search_userGen, search_contextGen, search_uses,
                search_store, search_snapshot, search_context, search_offered, search_cache,
                search_searching, search_last, search_moves>>
rankingVars == <<ranking_input, ranking_output>>
iconsVars == <<icons_world, icons_memory, icons_used, icons_disk, icons_litter, icons_call,
               icons_answer, icons_extracted, icons_faults>>
catalogVars == <<catalog_menu, catalog_installed, catalog_rows, catalog_generation,
                 catalog_shell, catalog_found, catalog_entries, catalog_starts>>
favoritesVars == <<favorites_favorites, favorites_pins, favorites_calls, favorites_snapshot,
                   favorites_lost, favorites_count>>
coordinatorVars == <<coordinator_poisoned, coordinator_request, coordinator_workers,
                     coordinator_asking, coordinator_results, coordinator_errors,
                     coordinator_cancel, coordinator_noticed, coordinator_outcome,
                     coordinator_searches>>
filesVars == <<files_disk, files_rows, files_fts, files_history, files_generation,
               files_changed, files_found, files_steps>>
settingsVars == <<settings_file, settings_mtime, settings_temp, settings_writer,
                  settings_phase, settings_using, settings_stamp, settings_seen,
                  settings_key, settings_classes, settings_marker, settings_degraded,
                  settings_failed, settings_missed, settings_edits, settings_starts>>
editorVars == <<editor_editor, editor_rows, editor_status, editor_draft, editor_trail,
                editor_edits>>
triggerVars == <<trigger_table, trigger_defined, trigger_service, trigger_started,
                 trigger_faults>>
systemVars == <<system_world, system_lives, system_policy, system_cmd, system_at,
                system_effect, system_probed>>
agentVars == <<agent_status, agent_budget, agent_expired, agent_observation, agent_catalog,
               agent_plan, agent_turn, agent_log>>
vars == <<unit, searchVars, rankingVars, iconsVars, catalogVars, favoritesVars,
          coordinatorVars, filesVars, settingsVars, editorVars, triggerVars, systemVars, agentVars>>

\* The variables of the units that a behaviour is not of.
No_search ==
    /\ search_fileGen = None /\ search_userGen = None /\ search_contextGen = None
    /\ search_uses = None /\ search_store = None /\ search_snapshot = None
    /\ search_context = None /\ search_offered = None /\ search_cache = None
    /\ search_searching = None /\ search_last = None /\ search_moves = None
No_ranking ==
    /\ ranking_input = None /\ ranking_output = None
No_icons ==
    /\ icons_world = None /\ icons_memory = None /\ icons_used = None
    /\ icons_disk = None /\ icons_litter = None /\ icons_call = None
    /\ icons_answer = None /\ icons_extracted = None /\ icons_faults = None
No_catalog ==
    /\ catalog_menu = None /\ catalog_installed = None /\ catalog_rows = None
    /\ catalog_generation = None /\ catalog_shell = None /\ catalog_found = None
    /\ catalog_entries = None /\ catalog_starts = None
No_favorites ==
    /\ favorites_favorites = None /\ favorites_pins = None /\ favorites_calls = None
    /\ favorites_snapshot = None /\ favorites_lost = None /\ favorites_count = None
No_coordinator ==
    /\ coordinator_poisoned = None /\ coordinator_request = None
    /\ coordinator_workers = None /\ coordinator_asking = None
    /\ coordinator_results = None /\ coordinator_errors = None
    /\ coordinator_cancel = None /\ coordinator_noticed = None
    /\ coordinator_outcome = None /\ coordinator_searches = None
No_files ==
    /\ files_disk = None /\ files_rows = None /\ files_fts = None /\ files_history = None
    /\ files_generation = None /\ files_changed = None /\ files_found = None
    /\ files_steps = None
No_settings ==
    /\ settings_file = None /\ settings_mtime = None /\ settings_temp = None
    /\ settings_writer = None /\ settings_phase = None /\ settings_using = None
    /\ settings_stamp = None /\ settings_seen = None /\ settings_key = None
    /\ settings_classes = None /\ settings_marker = None /\ settings_degraded = None
    /\ settings_failed = None /\ settings_missed = None /\ settings_edits = None
    /\ settings_starts = None
No_editor ==
    /\ editor_editor = None /\ editor_rows = None /\ editor_status = None
    /\ editor_draft = None /\ editor_trail = None /\ editor_edits = None
No_trigger ==
    /\ trigger_table = None /\ trigger_defined = None /\ trigger_service = None
    /\ trigger_started = None /\ trigger_faults = None
No_system ==
    /\ system_world = None /\ system_lives = None /\ system_policy = None
    /\ system_cmd = None /\ system_at = None /\ system_effect = None /\ system_probed = None
No_agent ==
    /\ agent_status = None /\ agent_budget = None /\ agent_expired = None
    /\ agent_observation = None /\ agent_catalog = None /\ agent_plan = None
    /\ agent_turn = None /\ agent_log = None

Init ==
    /\ unit \in Units
    /\ IF unit = "search" THEN Search!Init ELSE No_search
    /\ IF unit = "ranking" THEN Ranked!Init ELSE No_ranking
    /\ IF unit = "icons" THEN Icons!Init ELSE No_icons
    /\ IF unit = "catalog" THEN Catalog!Init ELSE No_catalog
    /\ IF unit = "favorites" THEN Stars!Init ELSE No_favorites
    /\ IF unit = "coordinator" THEN Coordinator!Init ELSE No_coordinator
    /\ IF unit = "files" THEN Files!Init ELSE No_files
    /\ IF unit = "settings" THEN Settings!Init ELSE No_settings
    /\ IF unit = "editor" THEN Editor!Init ELSE No_editor
    /\ IF unit = "trigger" THEN Trigger!Init ELSE No_trigger
    /\ IF unit = "system" THEN Effects!Init ELSE No_system
    /\ IF unit = "agent" THEN Agent!Init ELSE No_agent

SearchStep ==
    /\ unit = "search" /\ Search!Next
    /\ UNCHANGED <<unit, rankingVars, iconsVars, catalogVars, favoritesVars,
                   coordinatorVars, filesVars, settingsVars, editorVars, triggerVars,
                   systemVars, agentVars>>
RankedStep ==
    /\ unit = "ranking" /\ Ranked!Next
    /\ UNCHANGED <<unit, searchVars, iconsVars, catalogVars, favoritesVars, coordinatorVars,
                   filesVars, settingsVars, editorVars, triggerVars, systemVars, agentVars>>
IconsStep ==
    /\ unit = "icons" /\ Icons!Next
    /\ UNCHANGED <<unit, searchVars, rankingVars, catalogVars, favoritesVars,
                   coordinatorVars, filesVars, settingsVars, editorVars, triggerVars,
                   systemVars, agentVars>>
CatalogStep ==
    /\ unit = "catalog" /\ Catalog!Next
    /\ UNCHANGED <<unit, searchVars, rankingVars, iconsVars, favoritesVars, coordinatorVars,
                   filesVars, settingsVars, editorVars, triggerVars, systemVars, agentVars>>
StarsStep ==
    /\ unit = "favorites" /\ Stars!Next
    /\ UNCHANGED <<unit, searchVars, rankingVars, iconsVars, catalogVars, coordinatorVars,
                   filesVars, settingsVars, editorVars, triggerVars, systemVars, agentVars>>
CoordinatorStep ==
    /\ unit = "coordinator" /\ Coordinator!Next
    /\ UNCHANGED <<unit, searchVars, rankingVars, iconsVars, catalogVars, favoritesVars,
                   filesVars, settingsVars, editorVars, triggerVars, systemVars, agentVars>>
FilesStep ==
    /\ unit = "files" /\ Files!Next
    /\ UNCHANGED <<unit, searchVars, rankingVars, iconsVars, catalogVars, favoritesVars,
                   coordinatorVars, settingsVars, editorVars, triggerVars, systemVars, agentVars>>
SettingsStep ==
    /\ unit = "settings" /\ Settings!Next
    /\ UNCHANGED <<unit, searchVars, rankingVars, iconsVars, catalogVars, favoritesVars,
                   coordinatorVars, filesVars, editorVars, triggerVars, systemVars, agentVars>>
EditorStep ==
    /\ unit = "editor" /\ Editor!Next
    /\ UNCHANGED <<unit, searchVars, rankingVars, iconsVars, catalogVars, favoritesVars,
                   coordinatorVars, filesVars, settingsVars, triggerVars, systemVars, agentVars>>
TriggerStep ==
    /\ unit = "trigger" /\ Trigger!Next
    /\ UNCHANGED <<unit, searchVars, rankingVars, iconsVars, catalogVars, favoritesVars,
                   coordinatorVars, filesVars, settingsVars, editorVars, systemVars, agentVars>>
EffectsStep ==
    /\ unit = "system" /\ Effects!Next
    /\ UNCHANGED <<unit, searchVars, rankingVars, iconsVars, catalogVars, favoritesVars,
                   coordinatorVars, filesVars, settingsVars, editorVars, triggerVars, agentVars>>
AgentStep ==
    /\ unit = "agent" /\ Agent!Next
    /\ UNCHANGED <<unit, searchVars, rankingVars, iconsVars, catalogVars, favoritesVars,
                   coordinatorVars, filesVars, settingsVars, editorVars, triggerVars,
                   systemVars>>

Next == SearchStep \/ RankedStep \/ IconsStep \/ CatalogStep \/ StarsStep
        \/ CoordinatorStep \/ FilesStep \/ SettingsStep \/ EditorStep \/ TriggerStep
        \/ EffectsStep \/ AgentStep

Spec == Init /\ [][Next]_vars

-----------------------------------------------------------------------------
\* An answer is never older than the search that asked for it (Core::search).
NeverOlder == Search!NeverOlder

\* What matched is in the list, as itself or a better one, and every subsequence matches
\* (rank_with_boost, fuzzy_score).
RankingSound == unit = "ranking" => Ranked!RankingSound

\* An icon is extracted once, and once more for each fault of its own file (IconService).
ExtractedOnce == unit = "icons" => Icons!ExtractedOnce

\* An application has one entry, with every source that saw it (app_registry.rs).
OneEntryPerApp == unit = "catalog" => Catalog!OneEntryPerApp

\* A pinned key is a favorite, whatever calls overlapped (favorites.rs, INV-FAV-006).
PinsAreFavorites == unit = "favorites" => Stars!PinsAreFavorites

\* A search is Complete only with the answers of every provider it asked (search_coordinator.rs).
CompleteIsAll == unit = "coordinator" => Coordinator!CompleteIsAll

\* A file has one row, and one that is gone and handed over has none (Indexer::apply_batch).
OneRowPerFile == unit = "files" => Files!OneRowPerFile

\* Settings with the stamp of the file are those of the file (maybe_reload_config).
StampIsTrue == unit = "settings" => Settings!StampIsTrue

\* What can be undone, the graph and what can be redone are one line of single edits (editor.rs).
OneTimeline == unit = "editor" => Editor!OneTimeline

\* No event starts two runs, none before an older one (triggers.rs).
OnceInOrder == unit = "trigger" => Trigger!OnceInOrder

\* No descriptor is resolved beyond the grants (launcher-domain lib.rs, launcher-action).
WithinGrants == Effects!CapabilityMonotone

\* No effect above the ceiling, unconfirmed, or on another target (system_adapter.rs), nor
\* an action beyond the grants.
EffectsWithinPolicy == unit = "system" => Effects!OnTargetWithinCeiling /\ WithinGrants

\* What failed in a turn is not executed in another (INV-AGENT-007).
NeverRevives == unit = "agent" => Agent!NeverRevives

-----------------------------------------------------------------------------
\* Four commands of different categories and identities, each matched exactly, by prefix,
\* inside or not at all, the first provider giving one id to two targets; then under a query
\* of two tokens.
MCMatches == {<<"exact", "exact", 1, 1>>, <<"prefix", "prefix", 1, 1>>, <<"contains", "exact", 2, 1>>,
              <<"none", "none", 2, 1>>, <<"contains", "none", 1, 2>>, <<"none", "none", 2, 2>>}
MCCategory == <<"Application", "File", "Plugin", "Application">>
MCCandidates ==
    {[provider |-> p, id |-> m[3], category |-> MCCategory[p], title |-> m[1], word |-> m[2],
      tokens |-> m[4], has_all |-> m[1] # "none" \/ p \in {1, 3},
      keywords |-> IF p \in {1, 4} \/ (p = 3 /\ m[1] = "none") THEN <<>> ELSE <<m[1]>>,
      hint |-> IF p = 3 THEN 1 ELSE 0, fuzzy |-> IF p = 2 THEN 40 ELSE 0,
      uses |-> IF p = 1 THEN 10 ELSE 0, recency |-> IF p = 1 THEN 24 ELSE 0,
      favorite |-> 0, context |-> 0,
      target |-> IF p \notin {1, 2} THEN None ELSE IF p = 1 /\ m[1] = "prefix" THEN "y" ELSE "x",
      actions |-> {<<p, m[3]>>}] :
        p \in 1 .. 4, m \in MCMatches}

MCQuery(p) == [prefix |-> p, tokens |-> 1, separator |-> FALSE, trailing |-> FALSE,
               extension |-> "none", verb |-> FALSE]
MCQueries == {MCQuery("app"), MCQuery("plugin"), MCQuery("none"),
              [MCQuery("none") EXCEPT !.separator = TRUE, !.extension = "program"]}

\* No root's pattern matches another root.
MCPlain == [r \in {"a_c", "abc"} |-> {r}]

MCTextBytes == [term |-> 3, big |-> 1]
MCIconBytes == [x |-> 2, y |-> 2]
MCProviders == <<"app", "file", "plugin">>

\* Three commands, the third asking for confirmation; then one of them disabled, one gone.
MCCommand(id, hit, disabled, confirm) ==
    [provider |-> "p", id |-> id, hit |-> hit,
     actions |-> <<[id |-> "go", disabled |-> disabled, confirm |-> confirm]>>]
MCCatalogs ==
    {<<MCCommand("a", TRUE, FALSE, FALSE), MCCommand("b", TRUE, FALSE, FALSE),
       MCCommand("c", FALSE, FALSE, TRUE)>>,
     <<MCCommand("a", TRUE, TRUE, FALSE), MCCommand("b", FALSE, FALSE, FALSE)>>}
MCProposal(id, input) == [provider |-> "p", command |-> id, action |-> "go", input |-> input]
MCAnswers ==
    {agent_Down, agent_Refused, <<MCProposal("a", "none"), MCProposal("b", "agrees")>>,
     <<MCProposal("b", "other"), MCProposal("c", "none")>>,
     <<MCProposal("b", "none"), MCProposal("a", "none"), MCProposal("c", "none")>>}

=============================================================================
