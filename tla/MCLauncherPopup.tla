-------------------------- MODULE MCLauncherPopup --------------------------
EXTENDS LauncherPopup

\* The query is answered by a plugin and by a command that asks for confirmation.
MCAnswers == <<"none", "">> :> <<>> @@ <<"recent", "">> :> <<"app">>
             @@ <<"search", "p">> :> <<"off", "plug">>
             @@ <<"search", "">> :> <<"app">>
             @@ <<"scope", "">> :> <<"plug">> @@ <<"context", "">> :> <<"file">>

MCActions == "app" :> <<"open">> @@ "off" :> <<"shutdown">> @@ "plug" :> <<"run">>
             @@ "file" :> <<"open">>

\* A popup in which everything can be pressed once; a confirmation across two summons;
\* a plugin scope.
Of(keys, n) == [k \in keys |-> n]
OnceEach   == Of({"hotkey", "type", "enter", "esc"}, 1)
TwoSummons == Of({"hotkey", "type"}, 2) @@ Of({"esc"}, 1)
Confirming == Of({"tray", "shortcut"}, 2) @@ Of({"type"}, 1)
ScopeTrip  == Of({"esc", "type"}, 2) @@ Of({"hotkey", "nav", "scope"}, 1)
PanelTrip  == Of({"hotkey", "type", "panel", "enter", "esc"}, 1)
MCPlans    == {OnceEach, TwoSummons, Confirming, ScopeTrip, PanelTrip}

=============================================================================
