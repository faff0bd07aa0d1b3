SPECIFICATION Spec
CONSTANTS
  Units = {"search", "ranking", "icons", "catalog", "favorites", "coordinator", "files",
           "settings", "editor", "trigger", "system", "agent"}
  None = None  Torn = Torn  Gone = Gone
  search_Texts = {"term", "big"}  search_Keys = {"k1", "k2"}  search_Contexts = {"explorer"}
  search_Providers = {"file"}  search_Empty = {}  search_Bytes <- MCTextBytes
  search_MaxEntries = 2  search_MaxBytes = 12  search_CompleteTtl = 2  search_NegativeTtl = 1
  search_MaxFavorites = 1  search_MaxMoves = 4
  ranking_Chars = {"a", "b", "-"}  ranking_Separator = "-"  ranking_MaxText = 3
  ranking_MaxQuery = 2  ranking_Candidates <- MCCandidates  ranking_Limit = 2
  icons_Exes = {"x", "y"}  icons_Bytes <- MCIconBytes  icons_Budget = 3
  icons_MaxFaults = 2
  catalog_Exes = {"x"}  catalog_Links = {"l1", "l2"}  catalog_MaxApps = 2
  catalog_MaxStarts = 2
  favorites_Keys = {"k", "l"}  favorites_Callers = {"a", "b"}  favorites_MAX_FAVORITES = 2
  favorites_MAX_PINS = 2  favorites_MaxCalls = 5
  coordinator_Providers <- MCProviders  coordinator_Queries <- MCQueries
  coordinator_MaxParallelism = 2  coordinator_MaxSearches = 2
  files_Roots = {"a_c", "abc"}  files_Names = {"n", "m"}  files_Covers <- MCPlain
  files_Foreign = {}  files_Hidden = {"m"}  files_Budget = 3  files_Trim = 2
  files_Limit = 2  files_MaxSteps = 5
  settings_Hotkeys = {"h1", "h2", "bad"}  settings_Parses = {"h1", "h2"}  settings_Taken = {}
  settings_Themes = {"dark", "light"}  settings_DefaultHotkey = "h1"
  settings_DefaultTheme = "dark"  settings_MaxEdits = 2  settings_MaxStarts = 4
  editor_Nodes = {"start", "b"}  editor_Entry = "start"  editor_MaxUndo = 2
  editor_MaxEdits = 4
  trigger_Workflows = {"w", "v"}  trigger_MaxEvents = 3  trigger_MaxFaults = 2
  system_Handles = {"h"}  system_Owners = {"p", "q"}  system_Origins = {"ai"}
  system_MaxLives = 3
  agent_Catalogs <- MCCatalogs  agent_Answers <- MCAnswers
  agent_Down = Down  agent_Refused = Refused  agent_max_proposals = 3
  agent_fallback_keyword = TRUE  agent_max_turns = 4  agent_max_proposals_per_turn = 3
  agent_max_total_executions = 6  agent_max_failures = 4  agent_max_replans = 3
INVARIANTS RankingSound ExtractedOnce OneEntryPerApp PinsAreFavorites CompleteIsAll OneRowPerFile
           StampIsTrue OneTimeline OnceInOrder EffectsWithinPolicy NeverRevives
PROPERTY NeverOlder
CHECK_DEADLOCK FALSE
