------------------------------- MODULE ToolSurface -------------------------------
(***************************************************************************)
(* The surface on which a plugin draws a tool (launcher-app/tool_ui_host.rs): *)
(* a thread for every opening, every event and every closing, one global slot  *)
(* for the session, whose mutex is held while the plugin is asked, and what is  *)
(* to be shown posted to the event loop of the UI.                             *)
(*                                                                          *)
(* Abstraction: nodes are the session they come from and the event they answer *)
(* (0: the opening). A tool request that times out leaves its answer to come.   *)
(***************************************************************************)
EXTENDS Naturals, Sequences, FiniteSets

CONSTANTS None,
          MaxSessions,
          MaxEvents     \* bound on events and closings

VARIABLES slot,        \* TOOL_SESSION: the session whose handle it holds, or None
          openers,     \* session -> "asking" or "posting"
          unread,      \* session -> events sent to its plugin whose answers are not read yet
          alive,       \* sessions whose plugin runs
          closed,      \* sessions that the plugin was told to close
          relays,      \* events whose threads wait for the mutex: [event, of]
          closers,     \* closing threads that wait for it
          holder,      \* the event being relayed: [event, to], or None
          posts,       \* for the event loop, in order
          screen,      \* [session, shows, visible]
          sent,        \* what the plugins were sent: [event, of, to, closed]
          opened, events, overlapped

session == <<slot, unread, alive, closed>>
threads == <<openers, relays, closers, holder>>
vars == <<session, threads, posts, screen, sent, opened, events, overlapped>>

Sessions == 1 .. MaxSessions

\* Bug: the mutex is given back before the plugin is asked.
Free_early == TRUE
Free == holder = None

TypeOK ==
    /\ slot \in Sessions \cup {None} /\ DOMAIN openers \subseteq Sessions
    /\ closed \subseteq Sessions /\ Cardinality(relays) <= MaxEvents
    /\ holder # None => slot # None
    /\ alive \subseteq Sessions /\ (slot = None => alive = {})

Init ==
    /\ slot = None /\ openers = <<>> /\ unread = [n \in Sessions |-> <<>>] /\ alive = {} /\ closed = {}
    /\ relays = {} /\ closers = 0 /\ holder = None /\ posts = <<>>
    /\ screen = [session |-> None, shows |-> 0, visible |-> FALSE]
    /\ sent = {} /\ opened = 0 /\ events = 0 /\ overlapped = FALSE

-----------------------------------------------------------------------------
(* Opening: a process of its own, its answer, the slot, the screen.           *)

open_tool ==
    /\ opened < MaxSessions /\ opened' = opened + 1
    /\ openers' = [n \in DOMAIN openers \cup {opened'} |-> IF n = opened' THEN "asking" ELSE openers[n]]
    /\ overlapped' = (overlapped \/ openers # <<>>)
    /\ UNCHANGED <<session, relays, closers, holder, posts, screen, sent, events>>

Ends(n) == openers' = [k \in DOMAIN openers \ {n} |-> openers[k]]

\* The handle that was in the slot is dropped, and its process with it.
Opened(n) ==
    /\ n \in DOMAIN openers /\ openers[n] = "asking" /\ Free
    /\ slot' = n /\ alive' = (alive \ {slot}) \cup {n}
    /\ openers' = [openers EXCEPT ![n] = "posting"]
    /\ UNCHANGED <<unread, closed, relays, closers, holder, posts, screen, sent, opened, events, overlapped>>

OpenFails(n) ==
    /\ n \in DOMAIN openers /\ openers[n] = "asking" /\ Ends(n)
    /\ UNCHANGED <<session, relays, closers, holder, posts, screen, sent, opened, events, overlapped>>

Post(p) == posts' = Append(posts, p)

Shown(n) ==
    /\ n \in DOMAIN openers /\ openers[n] = "posting" /\ Ends(n)
    /\ Post([kind |-> "open", session |-> n, shows |-> 0])
    /\ UNCHANGED <<session, relays, closers, holder, screen, sent, opened, events, overlapped>>

-----------------------------------------------------------------------------
(* Events. A thread takes the mutex when it gets it, sends the event to the   *)
(* session it finds there, and reads one line.                                *)

\* tool_request: the line is written, and the next line read is taken for the answer.
tool_request(s, what) == IF s \in alive THEN [unread EXCEPT ![s] = Append(@, what)] ELSE unread

relay_event ==
    /\ screen.visible /\ events < MaxEvents /\ events' = events + 1
    /\ relays' = relays \cup {[event |-> events', of |-> screen.session]}
    /\ UNCHANGED <<session, openers, closers, holder, posts, screen, sent, opened, overlapped>>

Sends(e) ==
    /\ e \in relays /\ Free /\ relays' = relays \ {e}
    /\ IF slot = None THEN UNCHANGED <<unread, holder, sent>>
       ELSE /\ holder' = [event |-> e.event, to |-> slot]
            /\ unread' = tool_request(slot, e.event)
            /\ sent' = sent \cup {[event |-> e.event, of |-> e.of, to |-> slot, closed |-> slot \in closed]}
    /\ UNCHANGED <<slot, alive, closed, openers, closers, posts, screen, opened, events, overlapped>>

\* The next line, whichever event it answers; with nodes it goes to the screen, still under
\* the mutex.
Answers(nodes) ==
    /\ holder # None /\ holder' = None
    /\ LET answers == unread[holder.to] IN
       /\ answers # <<>> /\ unread' = [unread EXCEPT ![holder.to] = Tail(@)]
       /\ IF nodes THEN Post([kind |-> "update", session |-> holder.to, shows |-> Head(answers)])
                   ELSE UNCHANGED posts
    /\ UNCHANGED <<slot, alive, closed, openers, relays, closers, screen, sent, opened, events, overlapped>>

\* Timeout, or a dead process: logged, and the session stays.
Fails ==
    /\ holder # None /\ holder' = None
    /\ UNCHANGED <<session, openers, relays, closers, posts, screen, sent, opened, events, overlapped>>

-----------------------------------------------------------------------------
(* Closing: the plugin is told, the surface hidden, the slot left as it is.   *)

close_session ==
    /\ screen.visible /\ events < MaxEvents /\ events' = events + 1 /\ closers' = closers + 1
    /\ Post([kind |-> "hide", session |-> None, shows |-> 0])
    /\ UNCHANGED <<session, openers, relays, holder, screen, sent, opened, overlapped>>

\* The line read may be the late answer of an event.
Closes(answered) ==
    /\ closers > 0 /\ Free /\ closers' = closers - 1
    /\ IF slot \notin alive THEN UNCHANGED <<closed, unread>>
       ELSE /\ closed' = closed \cup {slot}
            /\ LET late == tool_request(slot, 0) IN
               unread' = IF answered THEN [late EXCEPT ![slot] = Tail(@)] ELSE late
    /\ UNCHANGED <<slot, alive, openers, relays, holder, posts, screen, sent, opened, events, overlapped>>

Exits ==
    /\ slot \in alive /\ alive' = alive \ {slot}
    /\ UNCHANGED <<slot, unread, closed, threads, posts, screen, sent, opened, events, overlapped>>

\* The event loop runs what was posted, in order.
Applied(p) ==
    CASE p.kind = "open" -> [session |-> p.session, shows |-> 0, visible |-> TRUE]
      [] p.kind = "update" -> [screen EXCEPT !.session = p.session, !.shows = p.shows]
      [] p.kind = "hide" -> [screen EXCEPT !.visible = FALSE]
Run ==
    /\ posts # <<>> /\ screen' = Applied(Head(posts)) /\ posts' = Tail(posts)
    /\ UNCHANGED <<session, threads, sent, opened, events, overlapped>>

Next ==
    \/ open_tool \/ relay_event \/ close_session \/ Fails \/ Exits \/ Run
    \/ \E n \in DOMAIN openers : Opened(n) \/ OpenFails(n) \/ Shown(n)
    \/ \E e \in relays : Sends(e)
    \/ \E b \in BOOLEAN : Answers(b) \/ Closes(b)

Spec == Init /\ [][Next]_vars

-----------------------------------------------------------------------------
\* tool_ui_host.rs: once the threads and the event loop have come to rest, the session that
\* gets the events is the one on the screen, if no two tools were opened at the same time:
\* what an event of an earlier session drew cannot come after a later session's nodes.
DrivesWhatItShows ==
    openers = <<>> /\ holder = None /\ posts = <<>> /\ ~overlapped /\ screen.session # None =>
        screen.session = slot

-----------------------------------------------------------------------------
\* What the source says of itself and does not keep: no run checks it, and the README lists it.

\* tool.rs, section 28: the host "rejects duplicates, events for closed sessions, and events
\* for unknown nodes".
ClosedTakesNoEvents == \A s \in sent : ~s.closed

KnownNodesOnly == \A s \in sent : s.of = s.to

\* P3-UI design, section 71: the host "MUST ignore" a "stale event response". tool_request
\* compares nothing, so the answer of an event that timed out is drawn for the next one.
StaleIgnored ==
    [][Len(posts') > Len(posts) /\ posts'[Len(posts')].kind = "update"
          => posts'[Len(posts')].shows = holder.event]_vars
=============================================================================
