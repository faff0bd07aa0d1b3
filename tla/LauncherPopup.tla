---------------------------- MODULE LauncherPopup ----------------------------
(***************************************************************************)
(* launcher-app: the popup between the hot key and an executed action.       *)
(* Key presses are callbacks of the UI thread.  Debounce timers, searches,   *)
(* the recent view, context refreshes, icon passes and executions run on     *)
(* threads of their own, share AppState behind one mutex, and reach the      *)
(* window only through closures queued for the event loop.                   *)
(*                                                                         *)
(* Two copies of the result list exist: `results` in AppState, in which      *)
(* actions are looked up, and `rows`, the list on the screen, whose command   *)
(* ids the keys submit.  A view <<kind, q>> stands for the list a source      *)
(* yields; Answers says which commands it holds.                             *)
(***************************************************************************)
EXTENDS Naturals, Sequences, SequencesExt

CONSTANTS Queries, Empty,   \* texts of the search box
          Answers,          \* commands of each view, best first
          PluginCommands,   \* those provided by a plugin
          Actions,          \* action ids of each command, in declaration order
          NeedConfirmation, \* those that ask for a second press
          None,
          Plans             \* bounds on the inputs: how many of each kind

\* Every source has an answer to every text; inputs are counted.
ASSUME PopupAssumption ==
    /\ \A view \in DOMAIN Answers : Answers[view] \in Seq(DOMAIN Actions)
    /\ {"none", "recent", "context", "scope"} \X {Empty} \subseteq DOMAIN Answers
    /\ {"search"} \X (Queries \cup {Empty}) \subseteq DOMAIN Answers
    /\ \A plan \in Plans : plan \in [DOMAIN plan -> Nat]

VARIABLES text,             \* the search box
          epoch,            \* debounce_epoch
          session,          \* SearchSession: number of the newest search
          results, selected,\* AppState.current_results (and its context), selected
          rows, index,      \* the list on the screen, its selected row
          contextGen, resultsGen,
          pending,          \* pending_confirmation, and the context it was armed in
          uiState, roots,   \* UiStateMachine: current state, depth of root_stack
          lastQuery, parent,\* last_query; the parent_query of the plugin scope
          inScope, panel,   \* in-plugin-context and panel-visible of the window
          visible,
          holder,           \* the search that holds the AppState mutex, or None
          threads, uiq,     \* running threads, closures queued for the event loop
          quota,            \* inputs the user has left, by kind
          published,        \* number of the newest search the screen has answered
          busy,             \* the callback on the UI thread that executes an action, or None
          confirmed         \* [armed, now]: contexts of the last confirmation, or None

window == <<text, rows, index, inScope, panel, visible>>
app    == <<results, selected, contextGen, resultsGen, pending, uiState, roots, lastQuery,
            parent, holder>>
vars   == <<window, app, epoch, session, threads, uiq, quota, published, busy, confirmed>>

Views == DOMAIN Answers
Found(view) == Range(Answers[view])

TypeOK ==
    /\ text \in Queries \cup {Empty} /\ epoch \in Nat /\ session \in Nat
    /\ results \in [view : Views, context : Nat] /\ rows \in Views
    /\ selected = 0 \/ selected < Len(Answers[results.view])
    /\ index = 0 \/ index < Len(Answers[rows])
    /\ contextGen \in Nat /\ resultsGen = contextGen
    /\ pending = None \/ pending.context \in Nat
    /\ busy = None \/ busy.at \in {"lookup", "context", "resolve", "confirm"}
    /\ uiState \in {"Closed", "Search", "ActionPanel", "PluginContext"} /\ roots \in Nat
    /\ lastQuery \in Queries \cup {Empty} /\ parent \in Queries \cup {Empty}
    /\ inScope \in BOOLEAN /\ panel \in BOOLEAN /\ visible \in BOOLEAN
    /\ quota \in [DOMAIN quota -> Nat] /\ published \in 0 .. session

Init ==
    /\ text = Empty /\ epoch = 0 /\ session = 0 /\ published = 0
    /\ results = [view |-> <<"none", Empty>>, context |-> 0] /\ selected = 0
    /\ rows = <<"none", Empty>> /\ index = 0
    /\ contextGen = 0 /\ resultsGen = 0 /\ pending = None
    /\ uiState = "Closed" /\ roots = 0 /\ lastQuery = Empty /\ parent = Empty
    /\ inScope = FALSE /\ panel = FALSE
    /\ visible = FALSE /\ holder = None
    /\ threads = <<>> /\ uiq = <<>> /\ quota \in Plans
    /\ busy = None /\ confirmed = None

Unlocked == holder = None

SetResults(view) ==
    /\ results' = [view |-> view, context |-> contextGen] /\ selected' = 0
    /\ resultsGen' = contextGen

Spawn(t)     == threads' = Append(threads, t)
Becomes(i,t) == threads' = [threads EXCEPT ![i] = t]
Ends(i)      == threads' = RemoveAt(threads, i)
Post(c)      == uiq' = Append(uiq, c)
Search(q)    == [kind |-> "search", q |-> q]

----------------------------------------------------------------------------
(* Keys, handled on the UI thread.  One that needs AppState waits for it.    *)

Press(k) ==
    /\ k \in DOMAIN quota /\ quota[k] > 0 /\ quota' = [quota EXCEPT ![k] = @ - 1]
    /\ UNCHANGED <<published, holder, rows, contextGen, resultsGen, results, lastQuery>>

\* A callback runs to its end before the next key or closure.
UiFree == busy = None
Key(k) == Press(k) /\ UiFree /\ UNCHANGED busy

\* Only an edit by the user reports a new text: a text set by the program does not.
on_query_changed(q) ==
    /\ Key("type") /\ visible /\ ~panel /\ q # text
    /\ text' = q /\ epoch' = epoch + 1
    /\ IF q # Empty THEN Spawn([kind |-> "timer", q |-> q, epoch |-> epoch + 1])
       ELSE /\ Unlocked
            /\ Spawn(IF uiState = "PluginContext" THEN Search(q) ELSE [kind |-> "recent"])
    /\ UNCHANGED <<parent, session, selected, index, pending, uiState, roots, inScope, panel,
                   visible, uiq, confirmed>>

\* Enter submits the id of the selected row: its first action, or the panel's choice.
Enter(a) ==
    /\ Press("enter") /\ UiFree /\ visible /\ Len(Answers[rows]) > 0
    /\ LET c == Answers[rows][index + 1] IN
          IF panel THEN a \in Range(Actions[c]) /\ busy' = [at |-> "context", of |-> <<c, a>>]
                   ELSE a = Actions[c][1] /\ busy' = [at |-> "lookup", of |-> <<c, a>>]
    /\ UNCHANGED <<parent, text, epoch, session, selected, index, pending, uiState, roots, inScope,
                   panel, visible, threads, uiq, confirmed>>

\* Shift+Enter, Ctrl+O and the shortcuts take the action of the selected result of AppState.
on_action_shortcut(a) ==
    /\ Press("shortcut") /\ UiFree /\ visible /\ Unlocked /\ Len(Answers[results.view]) > 0
    /\ a \in Range(Actions[Answers[results.view][selected + 1]])
    /\ busy' = [at |-> "lookup", of |-> <<None, a>>]
    /\ UNCHANGED <<parent, text, epoch, session, selected, index, pending, uiState, roots, inScope,
                   panel, visible, threads, uiq, confirmed>>

\* Up, Down, Home and End move in the results; the row follows if there is one.
on_nav_requested ==
    /\ Key("nav") /\ visible /\ ~panel /\ Len(Answers[rows]) > 0 /\ Unlocked
    /\ \E n \in 0 .. Len(Answers[results.view]) - 1 :
          /\ n # selected /\ selected' = n
          /\ index' = IF n < Len(Answers[rows]) THEN n ELSE Len(Answers[rows]) - 1
    /\ pending' = None
    /\ UNCHANGED <<parent, text, epoch, session, uiState, roots, inScope, panel, visible,
                   threads, uiq, confirmed>>

enter_overlay(s) == uiState' = IF uiState = "Search" THEN s ELSE uiState

escape ==
    IF uiState \in {"ActionPanel", "PluginContext"}
    THEN uiState' = "Search" /\ UNCHANGED roots
    ELSE /\ uiState' = IF roots > 0 THEN "Search" ELSE "Closed"
         /\ roots' = IF roots > 0 THEN roots - 1 ELSE 0

on_panel_toggled ==
    /\ Key("panel") /\ visible /\ ~panel /\ Unlocked
    /\ Len(Answers[rows]) > 0 /\ Len(Answers[results.view]) > 0
    /\ panel' = TRUE /\ enter_overlay("ActionPanel")
    /\ UNCHANGED <<parent, text, epoch, session, selected, index, pending, roots, inScope, visible,
                   threads, uiq, confirmed>>

on_panel_closed ==
    /\ Key("esc") /\ visible /\ panel /\ Unlocked
    /\ panel' = FALSE /\ pending' = None /\ escape
    /\ UNCHANGED <<parent, text, epoch, session, selected, index, inScope, visible, threads, uiq,
                   confirmed>>

on_dismissed ==
    /\ Key("esc") /\ visible /\ ~panel /\ ~inScope /\ Unlocked
    /\ pending' = None /\ uiState' = "Closed" /\ roots' = 0 /\ visible' = FALSE
    /\ UNCHANGED <<parent, text, epoch, session, selected, index, inScope, panel, threads, uiq,
                   confirmed>>

\* The window enters the scope whatever enter_overlay answers.
on_plugin_context_requested ==
    /\ Key("scope") /\ visible /\ ~panel /\ Unlocked
    /\ Len(Answers[rows]) > 0 /\ Len(Answers[results.view]) > 0
    /\ Answers[results.view][selected + 1] \in PluginCommands
    /\ enter_overlay("PluginContext")
    /\ parent' = IF uiState = "Search" THEN lastQuery ELSE parent
    /\ inScope' = TRUE /\ text' = Empty
    /\ Spawn(Search(Empty))
    /\ UNCHANGED <<epoch, session, selected, index, pending, roots, panel, visible, uiq,
                   confirmed>>

\* The parent query comes back into the box.
on_plugin_context_exited ==
    /\ Key("esc") /\ visible /\ ~panel /\ inScope /\ Unlocked
    /\ inScope' = FALSE /\ escape
    /\ LET q == IF uiState = "PluginContext" THEN parent ELSE Empty IN
          text' = q /\ Spawn(IF q = Empty THEN [kind |-> "recent"] ELSE Search(q))
    /\ UNCHANGED <<parent, epoch, session, selected, index, pending, panel, visible, uiq, confirmed>>

\* The hot key listener and the tray number the popup like a search.
Summon(how) ==
    /\ Press(how) /\ session' = session + 1 /\ Post(<<how, session + 1>>)
    /\ UNCHANGED <<busy, parent, text, epoch, selected, index, pending, uiState, roots, inScope, panel,
                   visible, threads, confirmed>>

\* One callback, in sections of the lock; between them the threads go on.
Continue(at) ==
    /\ busy # None /\ busy.at = at /\ Unlocked
    /\ UNCHANGED <<window, epoch, session, results, selected, contextGen, resultsGen, uiState, roots,
                   lastQuery, parent, holder, uiq, quota, published>>

LookUp ==
    /\ Continue("lookup")
    /\ LET picked == Len(Answers[results.view]) > 0
           c == IF busy.of[1] = None /\ picked THEN Answers[results.view][selected + 1] ELSE busy.of[1]
       IN  busy' = IF c \in Found(results.view) THEN [at |-> "context", of |-> <<c, busy.of[2]>>]
                                               ELSE None
    /\ UNCHANGED <<pending, threads, confirmed>>

context_is_stale ==
    /\ Continue("context")
    /\ busy' = IF resultsGen # contextGen THEN None ELSE [at |-> "resolve", of |-> busy.of]
    /\ UNCHANGED <<pending, threads, confirmed>>

\* The action of the command as the results now have it.
Resolve ==
    /\ Continue("resolve")
    /\ LET c == busy.of[1]
           a == busy.of[2]
           known == c \in Found(results.view) /\ a \in Range(Actions[c])
       IN  /\ busy' = IF known /\ a \in NeedConfirmation THEN [at |-> "confirm", of |-> busy.of] ELSE None
           /\ IF known /\ a \notin NeedConfirmation THEN Spawn([kind |-> "execute"])
                                                   ELSE UNCHANGED threads
    /\ UNCHANGED <<pending, confirmed>>

\* The first press arms, the second executes.
Confirm ==
    /\ Continue("confirm") /\ busy' = None
    /\ IF pending = None \/ busy.of # pending.of
       THEN pending' = [of |-> busy.of, context |-> contextGen] /\ UNCHANGED <<threads, confirmed>>
       ELSE /\ pending' = None /\ Spawn([kind |-> "execute"])
            /\ confirmed' = [armed |-> pending.context, now |-> contextGen]

----------------------------------------------------------------------------
(* Threads.                                                                *)

Background == UNCHANGED <<quota, text, rows, index, inScope, panel, visible, published,
                          epoch, busy, confirmed, uiState, roots, parent>>

Is(i, kind) == threads[i].kind = kind

\* The timer of an outdated text ends; the other waits for AppState.
TimerFires(i) ==
    /\ Is(i, "timer") /\ Background
    /\ IF threads[i].epoch = epoch THEN Becomes(i, [kind |-> "dispatch", q |-> threads[i].q])
                                   ELSE Ends(i)
    /\ UNCHANGED <<app, session, uiq>>

spawn_search_or_recent(i) ==
    /\ Is(i, "dispatch") /\ Unlocked /\ Background
    /\ Becomes(i, Search(threads[i].q))
    /\ UNCHANGED <<app, session, uiq>>

\* The number is drawn by the thread, not by the key press.
begin(i) ==
    /\ Is(i, "search") /\ Background
    /\ session' = session + 1
    /\ Becomes(i, [kind |-> "begun", q |-> threads[i].q, id |-> session + 1])
    /\ UNCHANGED <<app, uiq>>

SearchLocks(i) ==
    /\ Is(i, "begun") /\ Unlocked /\ Background
    /\ holder' = threads[i].id
    /\ UNCHANGED <<results, selected, contextGen, resultsGen, pending, session,
                   threads, uiq, lastQuery>>

\* Bug: a popup's number does not supersede the searches before it.
Is_current_off_by_one(id) == id + 1 >= session

is_current(id) == id = session

\* A superseded query drops its results.
SearchReturns(i) ==
    LET t == threads[i] IN
    /\ Is(i, "begun") /\ holder = t.id /\ Background
    /\ holder' = None /\ Ends(i) /\ lastQuery' = t.q
    /\ IF is_current(t.id)
       THEN /\ SetResults(IF uiState = "PluginContext" THEN <<"scope", Empty>> ELSE <<"search", t.q>>)
            /\ Post(<<"publish", t.id>>)
       ELSE UNCHANGED <<results, selected, resultsGen, uiq>>
    /\ UNCHANGED <<contextGen, pending, session>>

\* The recent view has no number, and asks for none.
spawn_recent(i) ==
    /\ Is(i, "recent") /\ Unlocked /\ Background
    /\ SetResults(<<"recent", Empty>>) /\ Post(<<"recent", 0>>) /\ Ends(i)
    /\ UNCHANGED <<lastQuery, contextGen, pending, holder, session>>

\* Bug: the confirmation of the last popup survives.
NewContext_keeps_pending(i) ==
    /\ Is(i, "refresh") /\ Unlocked /\ Background
    /\ contextGen' = contextGen + 1 /\ resultsGen' = contextGen + 1
    /\ Becomes(i, [threads[i] EXCEPT !.kind = "gather"])
    /\ UNCHANGED <<lastQuery, pending, results, selected, holder, session, uiq>>

\* spawn_context_refresh: a new context; the results at hand count as resolved in it.
NewContext(i) ==
    /\ Is(i, "refresh") /\ Unlocked /\ Background
    /\ contextGen' = contextGen + 1 /\ resultsGen' = contextGen + 1
    /\ pending' = None
    /\ Becomes(i, [threads[i] EXCEPT !.kind = "gather"])
    /\ UNCHANGED <<lastQuery, results, selected, holder, session, uiq>>

\* Its suggestions, if it found any and no search has begun since.
Gathered(i) ==
    /\ Is(i, "gather") /\ Background
    /\ \/ is_current(threads[i].id) /\ Becomes(i, [threads[i] EXCEPT !.kind = "suggest"])
       \/ Ends(i)
    /\ UNCHANGED <<app, session, uiq>>

\* try_lock: a busy AppState keeps its results, the screen gets the suggestions.
Suggest(i) ==
    /\ Is(i, "suggest") /\ Background
    /\ IF Unlocked THEN /\ results' = [view |-> <<"context", Empty>>, context |-> contextGen]
                        /\ selected' = 0
                   ELSE UNCHANGED <<results, selected>>
    /\ Post(<<"context", threads[i].id>>) /\ Ends(i)
    /\ UNCHANGED <<lastQuery, contextGen, resultsGen, pending, holder, session>>

\* The icons of the results at this moment; none to add ends the pass.
spawn_icon_refresh(i) ==
    /\ Is(i, "icons") /\ Unlocked /\ Background
    /\ Ends(i)
    /\ Post(<<"icons", 0>>) \/ UNCHANGED uiq
    /\ UNCHANGED <<app, session>>

\* The effect takes place; success closes the popup.
ExecuteReturns(i) ==
    /\ Is(i, "execute") /\ Unlocked /\ Background
    /\ Ends(i)
    /\ Post(<<"close_and_restore", 0>>) \/ UNCHANGED uiq
    /\ UNCHANGED <<app, session>>

----------------------------------------------------------------------------
(* The event loop.                                                         *)

Loop == /\ UiFree /\ uiq # <<>> /\ uiq' = Tail(uiq)
        /\ UNCHANGED <<quota, busy, epoch, session, confirmed, results, selected, contextGen,
                       resultsGen, pending, holder, lastQuery, parent>>

Closure(kind) == Loop /\ Head(uiq)[1] = kind

Show(view) == rows' = view /\ index' = 0

\* Bug: a hidden window skips the answer, and nobody asks again.
Publish_if_visible ==
    /\ Closure("publish")
    /\ IF is_current(Head(uiq)[2]) /\ visible
       THEN Unlocked /\ Show(results.view) /\ panel' = FALSE /\ published' = Head(uiq)[2]
            /\ Spawn([kind |-> "icons"])
       ELSE UNCHANGED <<rows, index, panel, published, threads>>
    /\ UNCHANGED <<text, inScope, visible, uiState, roots>>

Publish ==
    /\ Closure("publish")
    /\ IF is_current(Head(uiq)[2])
       THEN Unlocked /\ Show(results.view) /\ panel' = FALSE /\ published' = Head(uiq)[2]
            /\ Spawn([kind |-> "icons"])
       ELSE UNCHANGED <<rows, index, panel, published, threads>>
    /\ UNCHANGED <<text, inScope, visible, uiState, roots>>

PublishRecent ==
    /\ Closure("recent") /\ Unlocked
    /\ Show(results.view) /\ Spawn([kind |-> "icons"])
    /\ UNCHANGED <<text, inScope, panel, visible, published, uiState, roots>>

PublishContext ==
    /\ Closure("context")
    /\ IF is_current(Head(uiq)[2])
       THEN Unlocked /\ Show(<<"context", Empty>>) /\ panel' = FALSE
       ELSE UNCHANGED <<rows, index, panel>>
    /\ UNCHANGED <<text, inScope, visible, published, threads, uiState, roots>>

\* Redraws the results as they are now, the selected row where it was.
PublishIcons ==
    /\ Closure("icons") /\ Unlocked
    /\ rows' = results.view
    /\ index' = IF index < Len(Answers[results.view]) THEN index ELSE 0
    /\ UNCHANGED <<text, inScope, panel, visible, published, threads, uiState, roots>>

close_and_restore ==
    /\ Closure("close_and_restore") /\ visible' = FALSE
    /\ UNCHANGED <<text, rows, index, inScope, panel, published, threads, uiState, roots>>

open_root ==
    CASE uiState = "Closed" -> uiState' = "Search" /\ UNCHANGED roots
      [] uiState = "Search" -> roots' = roots + 1 /\ UNCHANGED uiState
      [] uiState = "ActionPanel" -> roots' = roots + 1 /\ uiState' = "Search"
      [] OTHER -> UNCHANGED <<uiState, roots>>

\* The hot key hides what is visible; otherwise a fresh popup.
Hotkey ==
    /\ Closure("hotkey") /\ Unlocked
    /\ visible' = ~visible
    /\ IF visible THEN UNCHANGED <<text, uiState, roots, threads>>
       ELSE /\ open_root /\ text' = Empty
            /\ Spawn([kind |-> "refresh", id |-> Head(uiq)[2]])
    /\ UNCHANGED <<rows, index, inScope, panel, published>>

Tray ==
    /\ Closure("tray") /\ Unlocked
    /\ visible' = TRUE /\ Spawn([kind |-> "refresh", id |-> Head(uiq)[2]])
    /\ UNCHANGED <<text, rows, index, inScope, panel, published, uiState, roots>>

----------------------------------------------------------------------------

UserStep ==
    \/ \E q \in Queries \cup {Empty} : on_query_changed(q)
    \/ \E a \in UNION {Range(Actions[c]) : c \in DOMAIN Actions} : Enter(a) \/ on_action_shortcut(a)
    \/ on_nav_requested \/ on_panel_toggled \/ on_panel_closed \/ on_dismissed
    \/ on_plugin_context_requested \/ on_plugin_context_exited
    \/ \E how \in {"hotkey", "tray"} : Summon(how)

ThreadStep(i) ==
    \/ TimerFires(i) \/ spawn_search_or_recent(i) \/ begin(i) \/ SearchLocks(i)
    \/ SearchReturns(i) \/ spawn_recent(i) \/ NewContext(i) \/ Gathered(i) \/ Suggest(i)
    \/ spawn_icon_refresh(i) \/ ExecuteReturns(i)

Threads   == \E i \in DOMAIN threads : ThreadStep(i)
Callback  == LookUp \/ context_is_stale \/ Resolve \/ Confirm
EventLoop == Publish \/ PublishRecent \/ PublishContext \/ PublishIcons \/ close_and_restore
             \/ Hotkey \/ Tray

Next == UserStep \/ Callback \/ Threads \/ EventLoop

\* Threads run, callbacks return and the event loop drains its queue; the user may stop at
\* any time.
Spec == Init /\ [][Next]_vars /\ WF_vars(Threads) /\ WF_vars(Callback) /\ WF_vars(EventLoop)

----------------------------------------------------------------------------
(* Properties.                                                             *)

\* The screen's search answers move forward only: is_current, asked under the lock and
\* again on the UI thread, keeps a superseded search out (the comment at spawn_search).
Promise == INSTANCE SearchSession WITH begun <- session, published <- published
NewestOnly == Promise!Spec

\* A search that is the newest when it begins reaches the screen, unless another search
\* or a popup is numbered after it: neither the lock nor the queue loses it.
NewestPublished ==
    \A id \in 1 .. 6 :       \* more than any plan begins
        (session = id /\ \E i \in DOMAIN threads : Is(i, "begun") /\ threads[i].id = id)
            ~> (published = id \/ session > id)

\* What asks for confirmation only runs in the context it was armed in: a popup's context
\* refresh drops the confirmation of an earlier one (spawn_context_refresh).
ConfirmedInContext ==
    confirmed # None => confirmed.armed = confirmed.now

Quiet == threads = <<>> /\ uiq = <<>> /\ UiFree

-----------------------------------------------------------------------------
\* What the source says of itself and does not keep: no run checks it, and the README lists it.

\* What passes context_is_stale was resolved in this context.
NothingStaleExecutes == busy # None /\ busy.at \in {"resolve", "confirm"} => results.context = contextGen

\* Once everything has settled, the list under a query is the answer to it.
AnswersText ==
    Quiet /\ visible /\ ~inScope /\ text \in Queries => rows = <<"search", text>>

\* Once everything has settled, the commands on the screen can be executed.
ScreenIsExecutable == Quiet /\ visible => Found(rows) \subseteq Found(results.view)
=============================================================================
