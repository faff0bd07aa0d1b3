SPECIFICATION Spec
CONSTANTS
  Units = {"plugin", "registry", "package", "wire", "tool", "http", "runtime"}
  None = None
  plugin_MaxCalls = 8
  registry_Plugins = {"p", "q"}  registry_Capabilities = {"c"}  registry_Tools = {"t"}
  registry_Damages = {"header", "inside", "empty"}
  registry_MaxCalls = 4
  package_Packages = {"a", "b", "c"}  package_Requests <- MCRequests
  package_Indexes <- MCIndexes  package_MaxCommands = 2
  wire_Manifests <- MCManifests  wire_Descriptors <- MCDescriptors  wire_MaxCalls = 4
  wire_MaxStrays = 1
  tool_MaxSessions = 2  tool_MaxEvents = 2
  http_Issuers = {"mine", "other"}  http_Configured = "mine"  http_Tools = {"t"}
  http_MaxCalls = 3
  runtime_Runtimes = {"r", "q"}  runtime_max_restarts = 1
  runtime_Policies = {"Never", "OnCrash"}  runtime_MaxSpawns = 3
INVARIANTS ThreeStrikes FailClosed PackagesSound AnswerIsOwn DrivesWhatItShows NoMixUp TreeDies
CHECK_DEADLOCK FALSE
