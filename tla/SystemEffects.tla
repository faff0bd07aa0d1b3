----------------------------- MODULE SystemEffects -----------------------------
(***************************************************************************)
(* From a request to an effect on the system (launcher-action): a system     *)
(* command is built from an observation of a process or a window             *)
(* (system_process_window.rs), judged by the resolver's policy (system.rs),   *)
(* authorized by the engine and carried out by the adapter                    *)
(* (system_adapter.rs), which first verifies that the handle still names      *)
(* what was observed, and may later be probed. The system changes at any      *)
(* moment: handles die and are given to somebody else.                        *)
(*                                                                            *)
(* An untrusted action descriptor is resolved against the granted             *)
(* capabilities (launcher-domain/lib.rs) by operators without state.          *)
(***************************************************************************)
EXTENDS Naturals, FiniteSets

CONSTANTS Handles,     \* process ids or window handles
          Owners,      \* processes a window may belong to
          Origins,     \* who asks: search, workflow, ai, plugin
          None,
          MaxLives     \* bound: how often handles are given out

Risks == <<"info", "readonly", "reversible", "destructive", "privileged">>
Rank(risk) == CHOOSE i \in DOMAIN Risks : Risks[i] = risk

VARIABLES world,    \* handle -> what it names: [life, owner], or None
          lives,    \* handles given out so far
          policy,   \* the SystemResolver: [denied, allowed, ceiling]
          cmd,      \* the command under way, or None
          at,       \* its stage
          effect,   \* the last effect on the system, with the command that caused it
          probed    \* what the probe said of it

vars == <<world, lives, policy, cmd, at, effect, probed>>

process_risk == [list |-> "info", focus |-> "reversible", kill |-> "destructive"]
window_risk == [list |-> "info", focus |-> "reversible", close |-> "destructive"]

Init ==
    /\ world = [h \in Handles |-> None] /\ lives = 0
    /\ policy \in [denied : {{}, {"close"}}, allowed : {{}} \cup {{o} : o \in Origins},
                   ceiling : [Origins -> {"reversible", "privileged"}]]
    /\ cmd = None /\ at = "idle" /\ effect = None /\ probed = "none"

TypeOK ==
    /\ world \in [Handles -> {None} \cup [life : 1 .. MaxLives, owner : Owners]]
    /\ at \in {"idle", "resolved", "approved", "authorized", "verified", "unsettled"}
    /\ at = "idle" <=> cmd = None
    /\ probed \in {"none", "completed", "not_started", "unknown"}

-----------------------------------------------------------------------------
(* The system. *)

Appears(h, owner) ==
    /\ world[h] = None /\ lives < MaxLives /\ lives' = lives + 1
    /\ world' = [world EXCEPT ![h] = [life |-> lives + 1, owner |-> owner]]
    /\ UNCHANGED <<policy, cmd, at, effect, probed>>
Disappears(h) ==
    /\ world[h] # None /\ world' = [world EXCEPT ![h] = None]
    /\ UNCHANGED <<lives, policy, cmd, at, effect, probed>>

-----------------------------------------------------------------------------
(* The command. *)

Go(stage) == at' = stage /\ UNCHANGED <<cmd, effect, probed>>
Refuse == cmd' = None /\ at' = "idle" /\ UNCHANGED <<effect, probed>>
Same == UNCHANGED <<world, lives, policy>>

\* confirmed and seen (the handles given out when it was verified) are recorded for the
\* properties. process_command(_with_identity), window_command(_with_identity): the identity is the
\* creation time of a process, the owner of a window, or nothing in the older constructors.
Command(kind, op, h, origin, identified) ==
    [kind |-> kind, op |-> op, handle |-> h, origin |-> origin, observed |-> world[h],
     identity |-> IF ~identified THEN None
                  ELSE IF kind = "process" THEN world[h].life ELSE world[h].owner,
     risk |-> IF kind = "process" THEN process_risk[op] ELSE window_risk[op],
     confirmed |-> FALSE, seen |-> 0]

Observe(kind, op, h, origin, identified) ==
    /\ cmd = None /\ world[h] # None
    /\ cmd' = Command(kind, op, h, origin, identified)
    /\ at' = "resolved" /\ effect' = None /\ probed' = "none" /\ Same

\* SystemPolicy and SystemResolver: the deny list, the allowed origins, the ceiling.
origin_allowed(origin) == policy.allowed = {} \/ origin \in policy.allowed
Within_ceiling_off(c) == TRUE
Within_ceiling(c) == Rank(c.risk) <= Rank(policy.ceiling[c.origin])

resolve ==
    /\ at = "resolved" /\ Same
    /\ IF cmd.op \notin policy.denied /\ origin_allowed(cmd.origin) /\ Within_ceiling(cmd)
         THEN Go("approved") ELSE Refuse

requires_confirmation(risk) == risk \in {"destructive", "privileged"}

\* authorize_system_command: the token is bound to this command and used once.
authorize_system_command(confirmed) ==
    /\ at = "approved" /\ Same
    /\ IF requires_confirmation(cmd.risk) /\ ~confirmed
         THEN Refuse
         ELSE /\ cmd' = [cmd EXCEPT !.confirmed = confirmed]
              /\ at' = "authorized" /\ UNCHANGED <<effect, probed>>

\* execute_authorized: observations are no effects.
Wired(c) == c.op \in (IF c.kind = "process" THEN {"kill"} ELSE {"focus", "close"})

\* verify_process_identity, verify_window_identity: nothing recorded is accepted.
Is_same(c) ==
    /\ world[c.handle] # None
    /\ \/ c.identity = None
       \/ c.kind = "process" /\ c.identity = world[c.handle].life
       \/ c.kind = "window" /\ c.identity = world[c.handle].owner

verify ==
    /\ at = "authorized" /\ Same
    /\ IF Wired(cmd) /\ Is_same(cmd)
         THEN at' = "verified" /\ cmd' = [cmd EXCEPT !.seen = lives] /\ UNCHANGED <<effect, probed>>
         ELSE Refuse

\* The handle is opened anew for the effect. An effect that fails is reported as one;
\* a caller that gives up waiting leaves it unsettled.
Apply ==
    /\ at = "verified"
    /\ LET there == world[cmd.handle] IN
       /\ effect' = [cmd |-> cmd, on |-> there]
       /\ \/ /\ there # None /\ cmd.op \in {"kill", "close"}
             /\ world' = [world EXCEPT ![cmd.handle] = None]
          \/ UNCHANGED world
       /\ \/ cmd' = None /\ at' = "idle"
          \/ at' = "unsettled" /\ UNCHANGED cmd
    /\ UNCHANGED <<lives, policy, probed>>

\* probe_effect: gone counts as done, the same as not started, another as unknown; a
\* process that may not be opened looks gone.
probe_effect ==
    /\ at = "unsettled" /\ Same
    /\ probed' \in IF cmd.identity = None \/ cmd.op \notin {"kill", "close"} THEN {"unknown"}
                   ELSE (IF world[cmd.handle] = None \/ cmd.kind = "process" THEN {"completed"} ELSE {})
                        \cup (IF world[cmd.handle] = None THEN {}
                              ELSE IF Is_same(cmd) THEN {"not_started"} ELSE {"unknown"})
    /\ cmd' = None /\ at' = "idle" /\ UNCHANGED effect

Next ==
    \/ \E h \in Handles, o \in Owners : Appears(h, o)
    \/ \E h \in Handles : Disappears(h)
    \/ \E h \in Handles, o \in Origins, i \in BOOLEAN :
          \/ \E op \in DOMAIN process_risk : Observe("process", op, h, o, i)
          \/ \E op \in DOMAIN window_risk : Observe("window", op, h, o, i)
    \/ resolve \/ verify \/ Apply \/ probe_effect
    \/ \E c \in BOOLEAN : authorize_system_command(c)

Spec == Init /\ [][Next]_vars

-----------------------------------------------------------------------------
(* Descriptors. *)

Capabilities == {"mcp.invoke", "plugin.invoke", "shell.execute", "clipboard.write"}
Types == {"system.copy", "plugin.mcp.invoke", "plugin.own.x", "plugin.other.x", "bogus"}
Descriptors == [type : Types, requires : SUBSET Capabilities, valid : BOOLEAN, confirm : BOOLEAN]

owns_plugin_namespace(own, type) == own /\ type = "plugin.own.x"

Effective(d) ==
    d.requires
    \cup (IF d.type = "plugin.mcp.invoke" THEN {"mcp.invoke"} ELSE {})
    \cup (IF d.type \in {"plugin.own.x", "plugin.other.x"} THEN {"plugin.invoke"} ELSE {})

\* resolve_system, after the capabilities: the type must be known and its input fit.
resolve_system(d) ==
    IF d.valid /\ d.type # "bogus"
      THEN [ok |-> TRUE, confirm |-> d.confirm \/ "shell.execute" \in d.requires]
      ELSE [ok |-> FALSE, confirm |-> FALSE]

resolve_descriptor_for(d, granted, own) ==
    IF \/ d.type \in {"plugin.own.x", "plugin.other.x"} /\ ~owns_plugin_namespace(own, d.type)
       \/ ~(Effective(d) \subseteq granted)
      THEN [ok |-> FALSE, confirm |-> FALSE]
      ELSE resolve_system(d)

-----------------------------------------------------------------------------
\* system.rs and launcher-action: nothing happens to the system for an origin above its
\* ceiling, and what destroys something was confirmed. However the system changed between
\* the observation and the effect, a command that recorded an identity reaches what was
\* observed, or something that took its place after the adapter had looked.
OnTargetWithinCeiling ==
    effect # None =>
        LET c == effect.cmd  there == effect.on IN
        /\ Rank(c.risk) <= Rank(policy.ceiling[c.origin])
        /\ c.op \in {"kill", "close"} => c.confirmed
        /\ there # None /\ c.identity # None =>
               there.life > c.seen \/ IF c.kind = "process" THEN there = c.observed
                                      ELSE there.owner = c.observed.owner

\* launcher-domain/lib.rs, "Capability monotonicity": a descriptor resolves only with every
\* capability its type implies, whatever it declares itself; more grants never take an
\* action away or spare its confirmation.
CapabilityMonotone ==
    \A d \in Descriptors, granted \in SUBSET Capabilities, own \in BOOLEAN :
        LET r == resolve_descriptor_for(d, granted, own) IN
        r.ok => /\ d.type = "plugin.mcp.invoke" => "mcp.invoke" \in granted
                /\ d.type = "plugin.own.x" => "plugin.invoke" \in granted
                /\ d.type # "plugin.other.x"
                /\ \A more \in SUBSET Capabilities :
                      resolve_descriptor_for(d, granted \cup more, own) = r

-----------------------------------------------------------------------------
\* What the source says of itself and does not keep: no run checks it, and the README lists it.

\* system_adapter.rs:49-50, "a reused pid must never be terminated": what a command that
\* recorded an identity acts on is what was observed.
ActsOnTarget ==
    effect # None /\ effect.cmd.identity # None /\ effect.cmd.kind = "process" /\ effect.on # None
    => effect.on = effect.cmd.observed
=============================================================================
