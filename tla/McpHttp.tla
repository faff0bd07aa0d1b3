------------------------------- MODULE McpHttp -------------------------------
(***************************************************************************)
(* An MCP server reached over HTTP: StreamableHttpTransport with its        *)
(* optional StoreAuthProvider (transport/streamable_http.rs, auth/*.rs),    *)
(* the authorization flow that fills the credential store, and the          *)
(* McpProvider that projects the server's tools to commands under the       *)
(* host's grant (providers/mcp.rs, catalog.rs, adapter.rs).                 *)
(*                                                                          *)
(* The transport and the provider are borrowed mutably by every operation,  *)
(* so one call is in flight at a time; the servers, and the store of the    *)
(* operating system, change in between.                                     *)
(* Tokens are numbers: the authorization server honours only the newest     *)
(* access and refresh token it has issued, and none once it revoked them.   *)
(***************************************************************************)
EXTENDS Naturals, FiniteSets

CONSTANTS Issuers,      \* authorization servers
          Configured,   \* the issuer of the CredentialKey
          Tools,        \* tools the MCP server may offer
          None,
          MaxCalls      \* bound: calls and server changes

VARIABLES attached,     \* set_auth_provider was called
          store,        \* the credential under the key, or None
          issued,       \* issuer -> number of token pairs it has issued
          honoured,     \* issuer -> the newest pair is still honoured
          flow,         \* the pending authorization, or None
          offered,      \* tools of the server
          call,         \* the call in flight, or None
          answer,       \* class of the last answer
          sent,         \* issuers whose tokens, to refresh or to call, the last call sent
          provider,     \* the McpProvider
          moves

vars == <<attached, store, issued, honoured, flow, offered, call, answer, sent, provider, moves>>

Pairs == 0 .. MaxCalls + 1
Credentials == [issuer : Issuers, pair : Pairs, renewable : BOOLEAN, fresh : BOOLEAN]
Purposes == {"discover", "reproject", "call_tool"}
Stages == {"load", "refresh", "send"}
Answers == {"none", "ok", "auth", "permission", "unavailable", "timeout", "protocol", "unknown_tool"}

TypeOK ==
    /\ store \in Credentials \cup {None}
    /\ issued \in [Issuers -> Pairs] /\ honoured \in [Issuers -> BOOLEAN]
    /\ flow \in [state : BOOLEAN, issuer : Issuers] \cup {None}
    /\ call \in [purpose : Purposes, stage : Stages, token : Credentials \cup {None}] \cup {None}
    /\ answer \in Answers /\ sent \subseteq Issuers /\ offered \subseteq Tools
    /\ provider \in [discovered : BOOLEAN, granted : BOOLEAN, commands : SUBSET Tools,
                     ready : BOOLEAN, error : BOOLEAN]

Init ==
    /\ attached \in BOOLEAN
    /\ issued = [i \in Issuers |-> 1] /\ honoured = [i \in Issuers |-> TRUE]
    /\ \/ store = None
       \/ \E i \in Issuers, b \in BOOLEAN :
             store = [issuer |-> i, pair |-> 1, renewable |-> b, fresh |-> FALSE]
    /\ flow = None /\ offered = Tools /\ call = None /\ answer = "none" /\ sent = {}
    /\ provider = [discovered |-> FALSE, granted |-> TRUE, commands |-> {},
                   ready |-> TRUE, error |-> FALSE]
    /\ moves = 0

Move == moves < MaxCalls /\ moves' = moves + 1

-----------------------------------------------------------------------------
(* The authorization flow. *)

\* accept_authorization_server: the metadata must name the issuer it was discovered from.
accept_authorization_server(discovered, named) == discovered = named

\* begin_authorization after discovery; a new flow draws a new state.
begin_authorization(named) ==
    /\ Move /\ call = None /\ accept_authorization_server(Configured, named)
    /\ flow' = [state |-> TRUE, issuer |-> named]
    /\ UNCHANGED <<attached, store, issued, honoured, offered, call, answer, sent, provider>>

\* validate_callback: the state must match, and the issuer where the callback names one.
validate_callback(state, iss) == state = flow.state /\ iss \in {None, Configured}

\* The callback, the exchange at the token endpoint, and the credential: its issuer
\* is the expected one, whatever the answer says. The session is consumed.
Callback(state, iss) ==
    /\ call = None /\ flow # None
    /\ flow' = None
    /\ IF validate_callback(state, iss) /\ issued[flow.issuer] < MaxCalls
         THEN /\ issued' = [issued EXCEPT ![flow.issuer] = @ + 1]
              /\ honoured' = [honoured EXCEPT ![flow.issuer] = TRUE]
              /\ \E renewable \in BOOLEAN :
                    store' = [issuer |-> Configured, pair |-> issued[flow.issuer] + 1,
                              renewable |-> renewable, fresh |-> TRUE]
         ELSE UNCHANGED <<issued, honoured, store>>
    /\ UNCHANGED <<attached, offered, call, answer, sent, provider, moves>>

-----------------------------------------------------------------------------
(* One request: header, an eventual refresh, the POST, the answer. *)

\* The transport the provider builds has no authorization attached.
Start(purpose) ==
    /\ call' = [purpose |-> purpose, token |-> None,
                stage |-> IF attached /\ purpose = "call_tool" THEN "load" ELSE "send"]
    /\ sent' = {}
    /\ UNCHANGED <<attached, store, issued, honoured, flow, offered, answer>>

\* What the caller does with the end of the call: the catalog is replaced as a whole,
\* and every tool is projected under the grant of the moment.
Finish(class) ==
    /\ answer' = class /\ call' = None
    /\ provider' =
         IF call.purpose = "call_tool" THEN provider
         ELSE IF class = "ok" THEN [provider EXCEPT !.commands = offered, !.discovered = TRUE,
                                                    !.ready = provider.granted]
         ELSE IF call.purpose = "discover" THEN [provider EXCEPT !.error = TRUE]
         ELSE provider

Usable_any_issuer(credential) == credential # None

\* The credential in the store was issued for this key.
Usable(credential) == credential # None /\ credential.issuer = Configured

\* current_header: no credential means no header; another issuer's credential, or one that
\* does not parse, is an error.
CurrentHeader ==
    /\ call # None /\ call.stage = "load"
    /\ \/ store = None /\ call' = [call EXCEPT !.stage = "send"] /\ UNCHANGED <<answer, provider>>
       \/ store # None /\ Finish("auth")
       \/ /\ Usable(store)
          /\ call' = [call EXCEPT !.stage = IF store.fresh THEN "send" ELSE "refresh", !.token = store]
          /\ UNCHANGED <<answer, provider>>
    /\ UNCHANGED <<attached, store, issued, honoured, flow, offered, sent, moves>>

\* Bug: what the store has by now is taken for what was refreshed.
Renewed_from_store(token) == IF store = None THEN token ELSE [store EXCEPT !.pair = token.pair + 1, !.fresh = TRUE]
\* credential_from_token_response: the key's issuer, and the old refresh token if there is no
\* new one.
Renewed(token) == [issuer |-> Configured, pair |-> token.pair + 1, renewable |-> TRUE, fresh |-> TRUE]

\* refresh_credential of the credential that was loaded: the endpoint rotates the pair, then
\* the store is written over. A refresh token it no longer honours, or a failing store, ends
\* the call.
Refresh ==
    /\ call # None /\ call.stage = "refresh"
    /\ sent' = IF call.token.renewable THEN {call.token.issuer} ELSE {}
    /\ \/ /\ call.token.renewable /\ honoured[Configured] /\ call.token.pair = issued[Configured]
          /\ issued[Configured] < MaxCalls
          /\ issued' = [issued EXCEPT ![Configured] = @ + 1]
          /\ \/ /\ store' = Renewed(call.token)
                /\ call' = [call EXCEPT !.stage = "send", !.token = store']
                /\ UNCHANGED <<answer, provider>>
             \/ Finish("auth") /\ UNCHANGED store
       \/ Finish("auth") /\ UNCHANGED <<issued, store>>
    /\ UNCHANGED <<attached, honoured, flow, offered, moves>>

Accepted(token) == token # None /\ honoured[token.issuer] /\ token.pair = issued[token.issuer]

\* send_once, parse_response and rpc: a status from 400 on is an error of the HTTP
\* library, mapped by status_error and passed on, 401 among them; every other answer
\* is judged by its content type, its size, its error, its id and its discriminator.
status_error == [s400 |-> "unavailable", s401 |-> "auth", s403 |-> "permission",
                 s408 |-> "timeout", s429 |-> "unavailable", s500 |-> "unavailable",
                 s418 |-> "protocol"]

Send ==
    /\ call # None /\ call.stage = "send"
    /\ sent' = IF call.token = None THEN sent ELSE sent \cup {call.token.issuer}
    /\ \/ \E s \in DOMAIN status_error : Finish(status_error[s])
       \/ Finish("unavailable") \* no connection, no answer in time
       \/ Finish("protocol")
       \/ call.purpose = "call_tool" /\ Finish("unknown_tool")
       \/ (call.token # None => Accepted(call.token)) /\ Finish("ok")
    /\ UNCHANGED <<attached, store, issued, honoured, flow, offered, moves>>

-----------------------------------------------------------------------------
(* The provider and the world. *)

\* query: the first one that can discovers; a failure is tried again by the next.
query == Move /\ call = None /\ ~provider.discovered /\ Start("discover") /\ UNCHANGED provider
call_tool == Move /\ call = None /\ Start("call_tool") /\ UNCHANGED provider

\* set_invoke_granted: the commands change only with a successful new listing.
set_invoke_granted(granted) ==
    /\ Move /\ call = None /\ granted # provider.granted
    /\ provider' = [provider EXCEPT !.granted = granted]
    /\ IF provider.discovered
         THEN Start("reproject")
         ELSE UNCHANGED <<attached, store, issued, honoured, flow, offered, call, answer, sent>>

take_last_error ==
    /\ call = None /\ provider.error
    /\ provider' = [provider EXCEPT !.error = FALSE]
    /\ UNCHANGED <<attached, store, issued, honoured, flow, offered, call, answer, sent, moves>>

\* The store is the operating system's: another launcher, with a configuration of its own,
\* saves and deletes under the same name, during a call too.
SavedElsewhere ==
    /\ Move
    /\ \/ store # None /\ store' = None
       \/ \E i \in Issuers, renewable, fresh \in BOOLEAN :
             store' = [issuer |-> i, pair |-> issued[i], renewable |-> renewable, fresh |-> fresh]
    /\ UNCHANGED <<attached, issued, honoured, flow, offered, call, answer, sent, provider>>

Expires ==
    /\ Move /\ store # None /\ store.fresh
    /\ store' = [store EXCEPT !.fresh = FALSE]
    /\ UNCHANGED <<attached, issued, honoured, flow, offered, call, answer, sent, provider>>
Revokes(i) ==
    /\ Move /\ honoured[i]
    /\ honoured' = [honoured EXCEPT ![i] = FALSE]
    /\ UNCHANGED <<attached, store, issued, flow, offered, call, answer, sent, provider>>
ToolsChange(t) ==
    /\ Move /\ offered' = t /\ t # offered
    /\ UNCHANGED <<attached, store, issued, honoured, flow, call, answer, sent, provider>>

Next ==
    \/ \E i \in Issuers : begin_authorization(i) \/ Revokes(i)
    \/ \E state \in BOOLEAN, iss \in Issuers \cup {None} : Callback(state, iss)
    \/ CurrentHeader \/ Refresh \/ Send
    \/ query \/ call_tool \/ take_last_error \/ Expires \/ SavedElsewhere
    \/ \E granted \in BOOLEAN : set_invoke_granted(granted)
    \/ \E t \in SUBSET Tools : ToolsChange(t)

Spec == Init /\ [][Next]_vars

-----------------------------------------------------------------------------
\* auth/mod.rs, "the issuer binding is checked on EVERY load", "refresh can never change
\* issuer": no token, of access or to refresh with, goes out but those of the issuer the key
\* names, whatever is saved in the store before, during and after the call.
NoMixUp == sent \subseteq {Configured}

-----------------------------------------------------------------------------
\* What the source says of itself and does not keep: no run checks it, and the README lists it.

\* providers/mcp.rs:94, "deny -> projected invoke actions are Disabled": between two
\* calls, no command is executable without the grant.
DenyDisables == call = None /\ ~provider.granted /\ provider.commands # {} => ~provider.ready
=============================================================================
