------------------------------- MODULE PluginWire -------------------------------
(***************************************************************************)
(* The conversation of the host with one plugin process                      *)
(* (launcher-plugin-host/src/lib.rs, runtime.rs; launcher-ipc) and the        *)
(* plugin's serving loop (launcher-plugin-api), as the plugin provider uses    *)
(* them: one request at a time as a line of JSON, one line back, a handshake   *)
(* first, the process killed when an answer fails to come or to fit.           *)
(*                                                                          *)
(* Abstraction: an invocation carries its number as query or execution id; an  *)
(* answer is its shape and one action descriptor. A timeout may strike at any  *)
(* moment at which no line is there.                                           *)
(***************************************************************************)
EXTENDS Naturals, Sequences, FiniteSets

CONSTANTS Manifests,    \* of [api, schema, runtime, path, lifetime, granted]
          Descriptors,  \* of [type, requires, input]
          None,
          MaxCalls,     \* bound on invocations
          MaxStrays     \* bound on lines that nobody asked for

VARIABLES manifest,
          process,   \* "none": no handle; "up"; "exited": the handle of a dead process
          inbox, out,
          pc, method, \* the request being waited for, the invocation it belongs to
          outcome,   \* of the last invocation: [of, answer, shape, action], or None
          calls, strays

wire == <<process, inbox, out>>
vars == <<manifest, wire, pc, method, outcome, calls, strays>>

Methods == {"initialize", "query", "discover", "execute_action", "shutdown"}
Shapes == {"echo", "bare", "error", "garbage"}

TypeOK ==
    /\ process \in {"none", "up", "exited"} /\ pc \in Methods \cup {"idle"}
    /\ \A i \in DOMAIN out : out[i].shape \in Shapes
    /\ pc # "idle" => process # "none"

-----------------------------------------------------------------------------
(* The manifest and what it lets the plugin do.                              *)

validate(m) ==
    /\ m.api = "0.1" /\ m.schema \in {None, 1}
    /\ m.runtime \in {"process", "python"} /\ m.path # "empty"

\* A path inside the directory of the plugin, present or not.
resolve_executable(m) == m.path \in {"inside", "missing"}
resolve_launch(m) == m.runtime \in {"process", "python"} /\ resolve_executable(m)

Required(d) ==
    d.requires \cup CASE d.type = "plugin.mcp.invoke" -> {"mcp.invoke"}
                      [] d.type = "plugin.own" -> {"plugin.invoke"}
                      [] OTHER -> {}

\* Capability denied: listed but not executable. Anything else that does not resolve: dropped.
resolve_descriptor_for(d) ==
    IF d.type = "plugin.other" THEN "dropped"
    ELSE IF ~(Required(d) \subseteq manifest.granted) THEN "disabled"
    ELSE IF d.type = "unknown" \/ ~d.input THEN "dropped" ELSE "executable"
\* A string is the command line of a plugin that predates descriptors.
classify_action(d) ==
    CASE d = None -> "dropped"
      [] d # None /\ d.type = "line" -> "executable"
      [] OTHER -> resolve_descriptor_for(d)

Init ==
    /\ manifest \in Manifests /\ process = "none" /\ inbox = <<>> /\ out = <<>>
    /\ pc = "idle" /\ method = None /\ outcome = None /\ calls = 0 /\ strays = 0

-----------------------------------------------------------------------------
(* The plugin.                                                               *)

Answer(of, shape, d) == [of |-> of, shape |-> shape, action |-> d]

\* The API's loop echoes; a plugin written against the contract by hand answers bare results,
\* which the legacy profile allows for a query. A panic of the action's handler is caught, one
\* of the query's handler is not.
ShapesFor(m) ==
    CASE m = "initialize" -> {"echo", "error"}
      [] m = "shutdown" -> {"echo"}
      [] m \in {"query", "discover"} -> {"echo", "bare", "garbage"}
      [] m = "execute_action" -> {"echo", "bare", "error"}

serve ==
    /\ process = "up" /\ inbox # <<>>
    /\ LET req == Head(inbox) IN
       \E shape \in ShapesFor(req.method), d \in Descriptors \cup {None} :
          /\ req.method # "query" => d = None
          /\ inbox' = Tail(inbox) /\ out' = Append(out, Answer(req.of, shape, d))
          /\ process' = IF req.method = "shutdown" THEN "exited" ELSE "up"
    /\ UNCHANGED <<manifest, pc, method, outcome, calls, strays>>

\* A line of its own accord, about this invocation or an earlier one.
Strays ==
    /\ process = "up" /\ strays < MaxStrays /\ strays' = strays + 1
    /\ \E shape \in Shapes, of \in 1 .. calls : out' = Append(out, Answer(of, shape, None))
    /\ UNCHANGED <<manifest, process, inbox, pc, method, outcome, calls>>

Exits ==
    /\ process = "up" /\ process' = "exited"
    /\ UNCHANGED <<manifest, inbox, out, pc, method, outcome, calls, strays>>

-----------------------------------------------------------------------------
(* The host.                                                                 *)

Sends(m, of) == inbox' = Append(inbox, [method |-> m, of |-> of]) /\ pc' = m

Gone == process' = "none" /\ inbox' = <<>> /\ out' = <<>>
Idle == pc' = "idle" /\ method' = None

\* ensure_running and PluginHandle::spawn: a live process is used again, any other replaced,
\* and a new one must shake hands first.
invoke(m) ==
    /\ pc = "idle" /\ calls < MaxCalls /\ calls' = calls + 1 /\ outcome' = None
    /\ \/ /\ process = "up" /\ Sends(m, calls') /\ method' = m /\ UNCHANGED <<process, out>>
       \/ /\ process # "up" /\ validate(manifest) /\ resolve_launch(manifest) /\ manifest.path = "inside"
          /\ process' = "up" /\ out' = <<>> /\ method' = m
          /\ inbox' = <<[method |-> "initialize", of |-> calls']>> /\ pc' = "initialize"
       \/ process # "up" /\ Gone /\ Idle
    /\ UNCHANGED <<manifest, strays>>

\* An idle resident process is shut down before the next use.
idle_reclaim ==
    /\ pc = "idle" /\ process = "up" /\ manifest.lifetime = "Resident" /\ Gone
    /\ UNCHANGED <<manifest, pc, method, outcome, calls, strays>>

\* Every error but a failed action: the provider drops the handle, which kills the process.
\* Bug: a resident process that does not answer in time is left to answer later.
Fails_alive == Idle /\ IF manifest.lifetime = "Ephemeral" THEN Gone ELSE UNCHANGED wire
Fails == Gone /\ Idle

\* finish_invocation: the process of an ephemeral plugin is asked to end, whatever came of it.
Finishes(shape) ==
    IF manifest.lifetime = "Ephemeral"
      THEN Sends("shutdown", calls) /\ UNCHANGED method ELSE Idle /\ UNCHANGED inbox

\* The echo is checked where there is one; a bare result of a query is for legacy manifests.
parse_query_result(line) ==
    \/ line.shape = "echo" /\ line.of = calls
    \/ line.shape = "bare" /\ manifest.schema = None
\* An error is the plugin's own, and the process stays.
execute_action_result(line) ==
    \/ line.shape = "echo" /\ line.of = calls
    \/ line.shape \in {"bare", "error"}
Fits(line) == IF method = "execute_action" THEN execute_action_result(line) ELSE parse_query_result(line)

Handshake(line) ==
    /\ pc = "initialize"
    /\ IF line.shape = "echo" THEN inbox' = Append(inbox, [method |-> method, of |-> calls]) /\ pc' = method
                                   /\ out' = Tail(out) /\ UNCHANGED <<process, method>>
                              ELSE Fails
    /\ UNCHANGED outcome

Accepts(line) ==
    /\ pc = method
    /\ IF Fits(line)
         THEN /\ outcome' = [of |-> calls, answer |-> line.of, shape |-> line.shape,
                             action |-> classify_action(line.action)]
              /\ out' = Tail(out) /\ Finishes(line.shape) /\ UNCHANGED process
         ELSE Fails /\ UNCHANGED outcome

\* Whatever the answer to the shutdown is: what does not end by itself is killed.
Shuts(line) ==
    /\ pc = "shutdown" /\ process' = "exited" /\ inbox' = <<>> /\ out' = <<>> /\ Idle
    /\ UNCHANGED outcome

\* Response::from_line, and the request's own id is not looked at.
Reads ==
    /\ pc # "idle" /\ out # <<>>
    /\ \/ Handshake(Head(out)) \/ Accepts(Head(out)) \/ Shuts(Head(out))
    /\ UNCHANGED <<manifest, calls, strays>>

\* Timeout, or the pipe of a process that has ended.
TimesOut ==
    /\ pc # "idle" /\ out = <<>>
    /\ IF pc = "shutdown" THEN Shuts(None) ELSE Fails /\ UNCHANGED outcome
    /\ UNCHANGED <<manifest, calls, strays>>

Next ==
    \/ serve \/ Strays \/ Exits \/ idle_reclaim \/ Reads \/ TimesOut
    \/ \E m \in {"query", "discover", "execute_action"} : invoke(m)

Spec == Init /\ [][Next]_vars

-----------------------------------------------------------------------------
\* Plugin contract, section 7 (launcher-plugin-host, query): what an invocation returns is the
\* plugin's answer to that invocation, after any timeouts, crashes and respawns. Only a shape
\* without an echo can be mistaken, and only once the plugin has written a line nobody asked for.
AnswerIsOwn ==
    outcome # None => outcome.answer = outcome.of \/ (strays > 0 /\ outcome.shape # "echo")

=============================================================================
