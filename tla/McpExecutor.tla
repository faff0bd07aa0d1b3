---------------------------- MODULE McpExecutor ----------------------------
(***************************************************************************)
(* StdMcpExecutor of launcher-mcp/src/executor.rs for one configured stdio *)
(* server: the ephemeral and the persistent path, the registry of protocol *)
(* sessions (src/protocol/session_manager.rs), the JSON-RPC transport      *)
(* (src/transport/stdio.rs) over a bounded-line child process              *)
(* (launcher-runtime/src/process.rs), and the server itself as far as the  *)
(* launcher can see it: it reads one line at a time, answers late or never,*)
(* writes lines nobody asked for and dies.                                 *)
(*                                                                         *)
(* execute holds the executor's mutexes from its first to its last line,   *)
(* so one execution is in progress at a time; the server interleaves.      *)
(***************************************************************************)
EXTENDS Naturals, Sequences

CONSTANTS
  MaxExec,      \* bound: executions
  MaxFaults     \* bound: crashes, stray lines, refused spawns and handshakes

ServerEndpoint ==
  [ profile : {"2025", "2026"},          \* initialize handshake; stateless
    mode : {"Ephemeral", "Persistent"},  \* EndpointRuntime
    owner : {"shared", "core"},          \* one executor lives on; Core builds one per call
    answersInitialized : BOOLEAN ]       \* does it answer notifications/initialized?

ASSUME McpAssumption ==
  MaxExec \in Nat /\ MaxFaults \in Nat

VARIABLES
  config,             \* the server this executor was configured with
  pid, spawned,       \* the cached transport's process (0: none); how many so far
  proc,               \* "none"; "up"; "mute": closed its stdout; "exited"
  handshaken,         \* has this process completed initialize
  next_id,            \* the transport's request counter
  inbox, out,         \* lines the server has not read; lines the client has not read
  session, active,    \* ProtocolSessionState ("None": no record); operation_active
  pc, cur,            \* where execute is; the execution that is or was last running
  result, answer,     \* what execution e returned; whose answer it returned
  ran,                \* history: how often the server performed e's tools/call
  faults, clean, fallout \* faults so far; did cur begin after the last one; failures since

transport == <<pid, proc, handshaken, next_id, inbox, out>>
allvars == <<config, transport, spawned, session, active, pc, cur, result, answer, ran,
             faults, clean, fallout>>

Exec == 1..MaxExec
Profile == config.profile
Mode == config.mode
Persists == Mode = "Persistent" /\ config.owner = "shared"

(* Err(..) of McpError as far as execute tells them apart; Ok and Business
   leave the protocol session in order. *)
Outcome == {"Ok", "Business", "InvalidInput", "Violation", "Crashed", "Timeout",
            "Unavailable", "Busy"}
Healthy == {"Ok", "Business", "InvalidInput"}

(* Initializing and Closed are declared and never entered by this executor. *)
ProtocolSessionState == {"New", "Initializing", "Ready", "Invalid", "Failed", "Closed"}

Request == [id : Nat, method : {"initialize", "initialized", "call"}, exec : Exec]
Line    == [id : Nat, kind : {"ok", "business", "invalid", "refused", "stray", "note"},
            exec : Exec \cup {0}]

TypeOK ==
  /\ config \in ServerEndpoint
  /\ pid \in 0..MaxExec /\ spawned \in 0..MaxExec /\ (pid = 0 <=> proc = "none")
  /\ proc \in {"none", "up", "mute", "exited"} /\ handshaken \in BOOLEAN 
  /\ next_id \in Nat /\ inbox \in Seq(Request) /\ out \in Seq(Line)
  /\ session \in ProtocolSessionState \cup {"None"} /\ active \in BOOLEAN
  /\ pc \in {"idle", "init", "initwrite", "initwait", "call", "callwrite", "callwait"}
  /\ cur \in 0..MaxExec
  /\ result \in [Exec -> Outcome \cup {"none"}] /\ answer \in [Exec -> Exec \cup {0}]
  /\ ran \in [Exec -> Nat]
  /\ faults \in 0..MaxFaults /\ clean \in BOOLEAN /\ fallout \in 0..MaxExec

Init ==
  /\ config \in ServerEndpoint
  /\ pid = 0 /\ spawned = 0 /\ proc = "none" /\ handshaken = FALSE
  /\ next_id = 0 /\ inbox = <<>> /\ out = <<>>
  /\ session = "None" /\ active = FALSE /\ pc = "idle" /\ cur = 0
  /\ result = [e \in Exec |-> "none"] /\ answer = [e \in Exec |-> 0]
  /\ ran = [e \in Exec |-> 0] /\ faults = 0 /\ clean = FALSE /\ fallout = 0

-----------------------------------------------------------------------------
(* Dropping a transport kills its process; whatever was in the pipes is gone. *)
Drop ==
  /\ pid' = 0 /\ proc' = "none" /\ handshaken' = FALSE /\ next_id' = 0
  /\ inbox' = <<>> /\ out' = <<>>

(* Mutant of Finish: only a success releases the operation slot. *)
Finish_leaks(outcome, state) ==
  /\ result' = [result EXCEPT ![cur] = outcome]
  /\ pc' = "idle" /\ active' = (Persists /\ outcome \notin Healthy)
  /\ session' = IF Persists THEN state ELSE "None"
  /\ fallout' = IF clean /\ outcome \notin Healthy THEN fallout + 1 ELSE fallout
  /\ UNCHANGED <<spawned, cur, faults, clean>>

(* execute returns: the operation slot is free in every case. *)
Finish(outcome, state) ==
  /\ result' = [result EXCEPT ![cur] = outcome]
  /\ pc' = "idle" /\ active' = FALSE
  /\ session' = IF Persists THEN state ELSE "None"
  /\ fallout' = IF clean /\ outcome \notin Healthy THEN fallout + 1 ELSE fallout
  /\ UNCHANGED <<spawned, cur, faults, clean>>

Count == faults < MaxFaults /\ faults' = faults + 1

(* A fault of the server: counting of its consequences starts again. *)
Fault == Count /\ clean' = FALSE /\ fallout' = 0

(* acquire_operation, or establish when there is no usable session.  The
   stateless profile has no handshake: initialize succeeds on the spot. *)
Usable == session = "Ready" /\ ~active
Refusing == (session = "Ready" /\ active) \/ session = "New"
Handshake == Profile = "2025" /\ ~Usable

(* establish keeps a Ready session; the stateless initialize marks a new one
   Ready on the spot. *)
establish == IF Usable \/ ~Handshake THEN "Ready" ELSE "New"

Begin ==
  /\ pc = "idle" /\ cur < MaxExec /\ cur' = cur + 1 /\ clean' = TRUE
  /\ IF pid = 0
     THEN /\ spawned' = spawned + 1 /\ pid' = spawned' /\ proc' = "up"
          /\ handshaken' = FALSE /\ next_id' = 0 /\ inbox' = <<>> /\ out' = <<>>
     ELSE UNCHANGED <<transport, spawned>>
  /\ pc' = IF Refusing THEN "idle" ELSE IF Handshake THEN "init" ELSE "call"
  /\ session' = IF Mode = "Ephemeral" \/ Refusing THEN session
                ELSE establish
  /\ active' = IF Mode = "Ephemeral" \/ Refusing THEN active ELSE ~Handshake
  /\ result' = IF Refusing THEN [result EXCEPT ![cur'] = "Busy"] ELSE result
  /\ UNCHANGED <<answer, ran, faults, fallout>>

(* from_json refuses an input without an identity, before anything is locked. *)
RefuseInput ==
  /\ pc = "idle" /\ cur < MaxExec /\ cur' = cur + 1 /\ clean' = TRUE
  /\ result' = [result EXCEPT ![cur'] = "InvalidInput"]
  /\ UNCHANGED <<transport, spawned, session, active, pc, answer, ran, faults, fallout>>

(* The opener cannot start the server: nothing is cached. *)
SpawnFails ==
  /\ pc = "idle" /\ cur < MaxExec /\ pid = 0 /\ cur' = cur + 1 /\ Fault
  /\ result' = [result EXCEPT ![cur'] = "Unavailable"]
  /\ UNCHANGED <<transport, spawned, session, active, pc, answer, ran>>

(* request: write one line; only the end of the process breaks the pipe.  The
   write has no deadline: a line that the pipe does not take as a whole blocks
   the executor until the server reads it, that is a call of up to
   MAX_INVOKE_INPUT_BYTES, or any line behind one that the server left unread. *)
Writable == proc # "exited"
Blocked == pc \in {"initwrite", "callwrite"}

Send(method) ==
  /\ next_id' = next_id + 1
  /\ inbox' = Append(inbox, [id |-> next_id + 1, method |-> method, exec |-> cur])

WriteInit ==
  /\ pc = "init" /\ Writable /\ Send("initialize")
  /\ pc' = "initwait" \/ (inbox # <<>> /\ pc' = "initwrite")
  /\ UNCHANGED <<pid, proc, handshaken, out, spawned, session, active, cur,
                 result, answer, ran, faults, clean, fallout>>

WriteCall ==
  /\ pc = "call" /\ Writable /\ Send("call") /\ pc' \in {"callwrite", "callwait"}
  /\ UNCHANGED <<pid, proc, handshaken, out, spawned, session, active, cur,
                 result, answer, ran, faults, clean, fallout>>

Waiting == pc \in {"initwait", "callwait"}

(* A notification is skipped, everything else must carry the awaited id. *)
SkipNote ==
  /\ Waiting /\ out # <<>> /\ Head(out).kind = "note" /\ out' = Tail(out)
  /\ UNCHANGED <<pid, proc, handshaken, next_id, inbox, spawned, session, active,
                 pc, cur, result, answer, ran, faults, clean, fallout>>

(* Mutant of Mine: the id of an answer is not compared. *)
Mine_unmatched == out # <<>> /\ Head(out).kind \notin {"note", "stray"}

Mine == out # <<>> /\ Head(out).kind \notin {"note", "stray"} /\ Head(out).id = next_id

Garbled == out # <<>> /\ Head(out).kind # "note" /\ ~Mine

(* What a failing read or write of the pipe is reported as: a stray or
   mismatched line; the end of the process; a pipe that closed without it. *)
ReadError(outcome) ==
  \/ Garbled /\ outcome = "Violation"
  \/ out = <<>> /\ proc = "exited" /\ outcome = "Crashed"
  \/ out = <<>> /\ proc = "mute" /\ outcome = "Unavailable"

WriteError(outcome) == ~Writable /\ outcome = "Unavailable"

(* initialize succeeded: notifications/initialized goes out with an id of its
   own, the session becomes Ready and the operation slot is taken. *)
InitOk ==
  /\ pc = "initwait" /\ Mine /\ Head(out).kind = "ok" /\ Writable
  /\ out' = Tail(out) /\ Send("initialized") /\ handshaken' = TRUE
  /\ session' = IF Mode = "Persistent" THEN "Ready" ELSE "None"
  /\ active' = (Mode = "Persistent") /\ pc' = "call"
  /\ UNCHANGED <<pid, proc, spawned, cur, result, answer, ran, faults, clean,
                 fallout>>

(* initialize failed: session Failed, transport dropped. *)
InitFails(outcome) ==
  /\ \/ pc \in {"init", "initwrite"} /\ WriteError(outcome)
     \/ pc = "initwait" /\ ReadError(outcome)
     \/ pc = "initwait" /\ Mine /\ Head(out).kind # "ok" /\ outcome = "Violation"
     \/ pc = "initwait" /\ Mine /\ Head(out).kind = "ok" /\ WriteError(outcome)
  /\ Finish(outcome, "Failed") /\ Drop
  /\ UNCHANGED <<answer, ran>>

(* How an answer to tools/call is classified; a result without a tool-result
   envelope is a violation. *)
call_tool(kind) ==
  CASE kind = "ok" -> "Ok" [] kind = "business" -> "Business"
    [] kind = "invalid" -> "InvalidInput" [] OTHER -> "Violation"

(* tools/call answered: Ok and business errors keep the session Ready, an
   invalid-params error or a malformed result does not; the process stays. *)
CallAnswered ==
  /\ pc = "callwait" /\ Mine
  /\ LET kind == Head(out).kind
     IN  /\ Finish(call_tool(kind), IF kind \in {"ok", "business"} THEN "Ready" ELSE "Invalid")
         /\ answer' = IF kind = "ok" THEN [answer EXCEPT ![cur] = Head(out).exec] ELSE answer
  /\ IF Persists THEN /\ out' = Tail(out)
                      /\ UNCHANGED <<pid, proc, handshaken, next_id, inbox>>
                 ELSE Drop
  /\ UNCHANGED ran

(* The call failed below the protocol: the session is invalid in every case,
   but only a crash or a timeout evicts the transport. *)
CallFails(outcome) ==
  /\ \/ pc \in {"call", "callwrite"} /\ WriteError(outcome)
     \/ pc = "callwait" /\ ReadError(outcome)
  /\ Finish(outcome, "Invalid")
  /\ IF outcome = "Crashed" \/ ~Persists THEN Drop
     ELSE /\ out' = IF pc # "callwait" \/ out = <<>> THEN out ELSE Tail(out)
          /\ UNCHANGED <<pid, proc, handshaken, next_id, inbox>>
  /\ UNCHANGED <<answer, ran>>

(* Mutant of Timeout: only the handshake has a deadline. *)
Timeout_handshake ==
  /\ pc = "initwait"
  /\ result' = [result EXCEPT ![cur] = "Timeout"]
  /\ pc' = "idle" /\ active' = FALSE
  /\ session' = IF Persists THEN "Failed" ELSE "None"
  /\ clean' = FALSE /\ fallout' = 0
  /\ Drop
  /\ UNCHANGED <<spawned, cur, answer, ran, faults>>

(* The deadline of request passes: handshake or call, the transport goes. *)
Timeout ==
  /\ Waiting
  /\ result' = [result EXCEPT ![cur] = "Timeout"]
  /\ pc' = "idle" /\ active' = FALSE
  /\ session' = IF ~Persists THEN "None" ELSE IF pc = "initwait" THEN "Failed" ELSE "Invalid"
  /\ clean' = FALSE /\ fallout' = 0
  /\ Drop
  /\ UNCHANGED <<spawned, cur, answer, ran, faults>>

-----------------------------------------------------------------------------
(* The server takes the line that is being written off the pipe: write_line
   returns, and only now the line is whole. *)
Drain ==
  /\ Blocked /\ proc \in {"up", "mute"} /\ Len(inbox) = 1
  /\ pc' = IF pc = "initwrite" THEN "initwait" ELSE "callwait"
  /\ UNCHANGED <<transport, spawned, session, active, cur, result, answer, ran,
                 faults, clean, fallout>>

(* The server reads the next line, performs it and answers, unless it closed
   its output; what it answers is its own business. *)
Reply(r, kind) ==
  out' = IF proc = "mute" THEN out
         ELSE Append(out, [id |-> r.id, kind |-> kind, exec |-> r.exec])

Serve ==
  /\ proc \in {"up", "mute"} /\ inbox # <<>> /\ inbox' = Tail(inbox)
  /\ ~(Blocked /\ Len(inbox) = 1)
  /\ LET r == Head(inbox) IN
     \/ /\ r.method = "initialize" /\ Reply(r, "ok")
        /\ UNCHANGED <<ran, faults, clean, fallout>>
     \/ /\ r.method = "initialize" /\ Reply(r, "refused") /\ Fault
        /\ UNCHANGED ran
     \/ /\ r.method = "initialized"
        /\ IF config.answersInitialized THEN Reply(r, "ok") ELSE UNCHANGED out
        /\ UNCHANGED <<ran, faults, clean, fallout>>
     \/ /\ r.method = "call" /\ ran' = [ran EXCEPT ![r.exec] = @ + 1]
        /\ \E kind \in {"ok", "business", "invalid"} : Reply(r, kind)
        /\ UNCHANGED <<faults, clean, fallout>>
     \/ /\ r.method = "call" /\ ran' = [ran EXCEPT ![r.exec] = @ + 1]
        /\ Reply(r, "refused") /\ Fault
  /\ UNCHANGED <<pid, proc, handshaken, next_id, spawned, session, active, pc, cur,
                 result, answer>>

(* Lines nobody asked for: a notification, or a stray or oversized line. *)
Notify ==
  /\ proc = "up" /\ Count
  /\ out' = Append(out, [id |-> 0, kind |-> "note", exec |-> 0])
  /\ UNCHANGED <<pid, proc, handshaken, next_id, inbox, spawned, session, active,
                 pc, cur, result, answer, ran, clean, fallout>>

Babble ==
  /\ proc = "up" /\ Fault
  /\ out' = Append(out, [id |-> 0, kind |-> "stray", exec |-> 0])
  /\ UNCHANGED <<pid, proc, handshaken, next_id, inbox, spawned, session, active,
                 pc, cur, result, answer, ran>>

(* The process closes its output, or ends. *)
Dies(how) ==
  /\ proc \in {"up", "mute"} /\ proc # how /\ proc' = how /\ Fault
  /\ inbox' = IF how = "exited" THEN <<>> ELSE inbox
  /\ UNCHANGED <<pid, handshaken, next_id, out, spawned, session, active, pc, cur,
                 result, answer, ran>>

Execute ==
  /\ UNCHANGED config
  /\ \/ Begin \/ RefuseInput \/ SpawnFails \/ WriteInit \/ WriteCall \/ SkipNote
     \/ InitOk \/ CallAnswered
     \/ Timeout
     \/ \E outcome \in Outcome : InitFails(outcome) \/ CallFails(outcome)

Server ==
  /\ UNCHANGED config
  /\ Drain \/ Serve \/ Notify \/ Babble \/ Dies("mute") \/ Dies("exited")

Next == Execute \/ Server

Spec == Init /\ [][Next]_allvars

(* The deadline is real time, so execute never waits for an answer for ever. *)
FairSpec == Spec /\ WF_allvars(Execute)

-----------------------------------------------------------------------------
(* Properties. *)

(* A result belongs to its call: whatever stray lines, late answers, crashes
   and reused processes came before, execution e is answered Ok only with the
   server's answer to e's own tools/call.  And "recovery MUST NOT replay an
   execution" (INV-RUNTIME-002, INV-MCP-SESSION-004): the server performs each
   execution at most once. *)
OwnAnswer ==
  \A e \in Exec : /\ answer[e] \in {0, e} /\ ran[e] <= 1
                  /\ result[e] = "Ok" => answer[e] = e /\ ran[e] = 1

(* A live runtime does not imply a valid session, but a Ready session implies
   one: between executions it has a cached process that saw the handshake. *)
ReadyIsHandshaken ==
  pc = "idle" /\ session = "Ready" =>
     pid # 0 /\ (Profile = "2025" => handshaken)

(* The operation slot is never left taken and no session is left in New, so no
   caller is turned away for an operation that is over. *)
SlotReleased ==
  /\ pc = "idle" => ~active /\ session # "New"
  /\ \A e \in Exec : result[e] # "Busy"

(* Every execution returns, whatever the server answers or leaves unanswered,
   unless the server leaves a line that does not fit the pipe unread for ever. *)
ExecutionReturns == pc # "idle" ~> (pc = "idle" \/ []Blocked)

-----------------------------------------------------------------------------
\* What the source says of itself and does not keep.

(* security_transport.rs: "misbehavior must map into the frozen failure taxonomy
   without hanging".  A server that stops reading blocks write_line, which has
   no deadline: execute does not return and keeps the executor's mutexes. *)
NeverHangs == pc # "idle" ~> pc = "idle"

(* Faults do not linger: after the last fault of the server at most two
   executions fail before the launcher is back on a working process. *)
FalloutBounded == fallout <= 2
=============================================================================
