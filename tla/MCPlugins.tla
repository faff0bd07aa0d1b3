------------------------------ MODULE MCPlugins ------------------------------
(***************************************************************************)
(* What the launcher does for and with external plugins, side by side. The    *)
(* components keep no state in common: a behaviour of this module is one of    *)
(* one of the Units. The proofs are for any constants; the sets of             *)
(* MCPlugins_all.cfg are at the end.                                          *)
(***************************************************************************)
EXTENDS Naturals, Sequences, FiniteSets

CONSTANTS Units, None

CONSTANTS plugin_MaxCalls
CONSTANTS registry_Plugins, registry_Capabilities, registry_Tools, registry_Damages,
          registry_MaxCalls
CONSTANTS package_Packages, package_Requests, package_Indexes, package_MaxCommands
CONSTANTS wire_Manifests, wire_Descriptors, wire_MaxCalls, wire_MaxStrays
CONSTANTS tool_MaxSessions, tool_MaxEvents
CONSTANTS http_Issuers, http_Configured, http_Tools, http_MaxCalls
CONSTANTS runtime_Runtimes, runtime_max_restarts, runtime_Policies, runtime_MaxSpawns

VARIABLE unit
VARIABLES plugin_lifetime, plugin_row, plugin_backup, plugin_dirty, plugin_provider,
          plugin_process, plugin_strikes, plugin_lost, plugin_unsaved, plugin_calls
VARIABLES registry_db, registry_backup, registry_due, registry_aside, registry_held,
          registry_last, registry_calls
VARIABLES package_index, package_installed, package_staging, package_command,
          package_execution, package_loaded, package_commands
VARIABLES wire_manifest, wire_process, wire_inbox, wire_out, wire_pc, wire_method,
          wire_outcome, wire_calls, wire_strays
VARIABLES tool_slot, tool_openers, tool_unread, tool_alive, tool_closed, tool_relays,
          tool_closers, tool_holder, tool_posts, tool_screen, tool_sent, tool_opened,
          tool_events, tool_overlapped
VARIABLES http_attached, http_store, http_issued, http_honoured, http_flow, http_offered,
          http_call, http_answer, http_sent, http_provider, http_moves
VARIABLES runtime_policy, runtime_entries, runtime_restart_counts, runtime_sessions,
          runtime_admitted, runtime_spawns

Lifecycle == INSTANCE PluginLifecycle WITH
    MaxCalls <- plugin_MaxCalls, lifetime <- plugin_lifetime, row <- plugin_row,
    backup <- plugin_backup, dirty <- plugin_dirty, provider <- plugin_provider,
    process <- plugin_process, strikes <- plugin_strikes, lost <- plugin_lost,
    unsaved <- plugin_unsaved, calls <- plugin_calls
Registry == INSTANCE PluginRegistry WITH
    Plugins <- registry_Plugins, Capabilities <- registry_Capabilities,
    Tools <- registry_Tools, Damages <- registry_Damages,
    MaxCalls <- registry_MaxCalls, db <- registry_db, backup <- registry_backup,
    due <- registry_due, aside <- registry_aside, held <- registry_held,
    last <- registry_last, calls <- registry_calls
Packages == INSTANCE PackageManager WITH
    Packages <- package_Packages, Requests <- package_Requests, Indexes <- package_Indexes,
    MaxCommands <- package_MaxCommands, index <- package_index,
    installed <- package_installed, staging <- package_staging, command <- package_command,
    execution <- package_execution, loaded <- package_loaded, commands <- package_commands
Wire == INSTANCE PluginWire WITH
    Manifests <- wire_Manifests, Descriptors <- wire_Descriptors, MaxCalls <- wire_MaxCalls,
    MaxStrays <- wire_MaxStrays, manifest <- wire_manifest, process <- wire_process,
    inbox <- wire_inbox, out <- wire_out, pc <- wire_pc, method <- wire_method,
    outcome <- wire_outcome, calls <- wire_calls, strays <- wire_strays
Surface == INSTANCE ToolSurface WITH
    MaxSessions <- tool_MaxSessions, MaxEvents <- tool_MaxEvents, slot <- tool_slot,
    openers <- tool_openers, unread <- tool_unread, alive <- tool_alive,
    closed <- tool_closed, relays <- tool_relays, closers <- tool_closers,
    holder <- tool_holder, posts <- tool_posts, screen <- tool_screen, sent <- tool_sent,
    opened <- tool_opened, events <- tool_events, overlapped <- tool_overlapped
Http == INSTANCE McpHttp WITH
    Issuers <- http_Issuers, Configured <- http_Configured, Tools <- http_Tools,
    MaxCalls <- http_MaxCalls, attached <- http_attached, store <- http_store,
    issued <- http_issued, honoured <- http_honoured, flow <- http_flow,
    offered <- http_offered, call <- http_call, answer <- http_answer, sent <- http_sent,
    provider <- http_provider, moves <- http_moves
Manager == INSTANCE RuntimeManager WITH
    Runtimes <- runtime_Runtimes, max_restarts <- runtime_max_restarts,
    Policies <- runtime_Policies, MaxSpawns <- runtime_MaxSpawns, policy <- runtime_policy,
    entries <- runtime_entries, restart_counts <- runtime_restart_counts,
    sessions <- runtime_sessions, admitted <- runtime_admitted, spawns <- runtime_spawns

\* The issuer that the configuration names is one of the issuers; bounds are numbers. A
\* repository offers finitely many packages, each with the list of those it depends on, which
\* it may not have itself.
ASSUME PluginsAssumption ==
    /\ http_Configured \in http_Issuers
    /\ http_MaxCalls \in Nat /\ runtime_MaxSpawns \in Nat
    /\ runtime_max_restarts \in Nat /\ tool_MaxSessions \in Nat
    /\ IsFiniteSet(package_Packages) /\ package_Requests \subseteq Seq(package_Packages)
    /\ \A offered \in package_Indexes :
          /\ DOMAIN offered \subseteq package_Packages
          /\ \A p \in DOMAIN offered : offered[p] \in Seq(Packages!ToSet(offered[p]))

pluginVars == <<plugin_lifetime, plugin_row, plugin_backup, plugin_dirty, plugin_provider,
                plugin_process, plugin_strikes, plugin_lost, plugin_unsaved, plugin_calls>>
registryVars == <<registry_db, registry_backup, registry_due, registry_aside,
                  registry_held, registry_last, registry_calls>>
packageVars == <<package_index, package_installed, package_staging, package_command,
                 package_execution, package_loaded, package_commands>>
wireVars == <<wire_manifest, wire_process, wire_inbox, wire_out, wire_pc, wire_method,
              wire_outcome, wire_calls, wire_strays>>
toolVars == <<tool_slot, tool_openers, tool_unread, tool_alive, tool_closed, tool_relays,
              tool_closers, tool_holder, tool_posts, tool_screen, tool_sent, tool_opened,
              tool_events, tool_overlapped>>
httpVars == <<http_attached, http_store, http_issued, http_honoured, http_flow,
              http_offered, http_call, http_answer, http_sent, http_provider, http_moves>>
runtimeVars == <<runtime_policy, runtime_entries, runtime_restart_counts, runtime_sessions,
                 runtime_admitted, runtime_spawns>>
vars == <<unit, pluginVars, registryVars, packageVars, wireVars, toolVars, httpVars,
          runtimeVars>>

\* The variables of the units that a behaviour is not of.
No_plugin ==
    /\ plugin_lifetime = None /\ plugin_row = None /\ plugin_backup = None
    /\ plugin_dirty = None /\ plugin_provider = None /\ plugin_process = None
    /\ plugin_strikes = None /\ plugin_lost = None /\ plugin_unsaved = None
    /\ plugin_calls = None
No_registry ==
    /\ registry_db = None /\ registry_backup = None /\ registry_due = None
    /\ registry_aside = None /\ registry_held = None /\ registry_last = None
    /\ registry_calls = None
No_package ==
    /\ package_index = None /\ package_installed = None /\ package_staging = None
    /\ package_command = None /\ package_execution = None /\ package_loaded = None
    /\ package_commands = None
No_wire ==
    /\ wire_manifest = None /\ wire_process = None /\ wire_inbox = None
    /\ wire_out = None /\ wire_pc = None /\ wire_method = None /\ wire_outcome = None
    /\ wire_calls = None /\ wire_strays = None
No_tool ==
    /\ tool_slot = None /\ tool_openers = None /\ tool_unread = None /\ tool_alive = None
    /\ tool_closed = None /\ tool_relays = None /\ tool_closers = None
    /\ tool_holder = None /\ tool_posts = None /\ tool_screen = None /\ tool_sent = None
    /\ tool_opened = None /\ tool_events = None /\ tool_overlapped = None
No_http ==
    /\ http_attached = None /\ http_store = None /\ http_issued = None
    /\ http_honoured = None /\ http_flow = None /\ http_offered = None
    /\ http_call = None /\ http_answer = None /\ http_sent = None /\ http_provider = None
    /\ http_moves = None
No_runtime ==
    /\ runtime_policy = None /\ runtime_entries = None /\ runtime_restart_counts = None
    /\ runtime_sessions = None /\ runtime_admitted = None /\ runtime_spawns = None

Init ==
    /\ unit \in Units
    /\ IF unit = "plugin" THEN Lifecycle!Init ELSE No_plugin
    /\ IF unit = "registry" THEN Registry!Init ELSE No_registry
    /\ IF unit = "package" THEN Packages!Init ELSE No_package
    /\ IF unit = "wire" THEN Wire!Init ELSE No_wire
    /\ IF unit = "tool" THEN Surface!Init ELSE No_tool
    /\ IF unit = "http" THEN Http!Init ELSE No_http
    /\ IF unit = "runtime" THEN Manager!Init ELSE No_runtime

LifecycleStep ==
    /\ unit = "plugin" /\ Lifecycle!Next
    /\ UNCHANGED <<unit, registryVars, packageVars, wireVars, toolVars, httpVars,
                   runtimeVars>>
RegistryStep ==
    /\ unit = "registry" /\ Registry!Next
    /\ UNCHANGED <<unit, pluginVars, packageVars, wireVars, toolVars, httpVars, runtimeVars>>
PackagesStep ==
    /\ unit = "package" /\ Packages!Next
    /\ UNCHANGED <<unit, pluginVars, registryVars, wireVars, toolVars, httpVars,
                   runtimeVars>>
WireStep ==
    /\ unit = "wire" /\ Wire!Next
    /\ UNCHANGED <<unit, pluginVars, registryVars, packageVars, toolVars, httpVars,
                   runtimeVars>>
SurfaceStep ==
    /\ unit = "tool" /\ Surface!Next
    /\ UNCHANGED <<unit, pluginVars, registryVars, packageVars, wireVars, httpVars,
                   runtimeVars>>
HttpStep ==
    /\ unit = "http" /\ Http!Next
    /\ UNCHANGED <<unit, pluginVars, registryVars, packageVars, wireVars, toolVars,
                   runtimeVars>>
ManagerStep ==
    /\ unit = "runtime" /\ Manager!Next
    /\ UNCHANGED <<unit, pluginVars, registryVars, packageVars, wireVars, toolVars,
                   httpVars>>
Next == LifecycleStep \/ RegistryStep \/ PackagesStep \/ WireStep \/ SurfaceStep
        \/ HttpStep \/ ManagerStep

Spec == Init /\ [][Next]_vars

-----------------------------------------------------------------------------
\* Three failures running quarantine a plugin, restarts or not (plugin.rs).
ThreeStrikes == unit = "plugin" => Lifecycle!ThreeStrikes

\* Nothing is trusted or allowed that the host did not say last (plugin_registry.rs).
FailClosed == unit = "registry" => Registry!FailClosed

\* A plan is what is needed, and a package in place has what it needs in place (resolver.rs).
PackagesSound == unit = "package" => Packages!PackagesSound

\* What an invocation returns answers that invocation (launcher-plugin-host).
AnswerIsOwn == unit = "wire" => Wire!AnswerIsOwn

\* The session that gets the events is the one on the screen (tool_ui_host.rs).
DrivesWhatItShows == unit = "tool" => Surface!DrivesWhatItShows

\* A token goes out only if the configured issuer has issued it (auth/mod.rs).
NoMixUp == unit = "http" => Http!NoMixUp

\* Nothing in the job of a session outlives it (process.rs, windows.rs).
TreeDies == unit = "runtime" => Manager!TreeDies

-----------------------------------------------------------------------------
\* A chain, two packages over one, a cycle, and a dependency nobody offers.
MCIndex(a, b, c) == [p \in {"a", "b", "c"} |-> CASE p = "a" -> a [] p = "b" -> b [] p = "c" -> c]
MCIndexes == {MCIndex(<<>>, <<"a">>, <<"b", "a">>), MCIndex(<<>>, <<"a">>, <<"a">>),
              MCIndex(<<"b">>, <<"c">>, <<"a">>), MCIndex(<<"ghost">>, <<>>, <<"b">>)}

MCManifest == [api |-> "0.1", schema |-> 1, runtime |-> "process", path |-> "inside",
               lifetime |-> "Resident", granted |-> {"plugin.invoke"}]
MCManifests == {MCManifest, [MCManifest EXCEPT !.schema = None],
                [MCManifest EXCEPT !.lifetime = "Ephemeral"], [MCManifest EXCEPT !.path = "outside"],
                [MCManifest EXCEPT !.path = "missing", !.runtime = "python"],
                [MCManifest EXCEPT !.runtime = "wasm"]}
MCDescriptors == {[type |-> "plugin.own", requires |-> {}, input |-> TRUE],
                  [type |-> "plugin.mcp.invoke", requires |-> {}, input |-> TRUE]}
MCRequests == {<<"c">>, <<"b">>, <<"b", "c">>}

=============================================================================
