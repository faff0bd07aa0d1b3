----------------------------- MODULE ShellSettings -----------------------------
(***************************************************************************)
(* config.toml and what depends on it: the start of the launcher with its    *)
(* health marker (main), the two writers of the file (the management window   *)
(* on the UI thread, settings_ui::apply on threads of its own) that share the  *)
(* name of one temporary file (launcher-config), the reload when the popup is  *)
(* summoned and the registration of the hot key (launcher-hotkey).             *)
(*                                                                         *)
(* A configuration is abstracted to its hot key and its theme. Files are      *)
(* followed by name and by open handle: a rename moves what a handle writes.   *)
(***************************************************************************)
EXTENDS Naturals

CONSTANTS Hotkeys, Parses,     \* hot key strings; those parse_hotkey accepts
          Taken,               \* keys other programs have registered
          Themes, DefaultHotkey, DefaultTheme,
          Gone,                \* no file, no hot key, no configuration
          MaxEdits, MaxStarts  \* bounds

VARIABLES file, mtime,         \* config.toml and its modification time
          temp,                \* config.toml.tmp
          writer,              \* "ui" and "worker": [at, cfg, handle]
          phase,               \* of the process: "down", "starting", "running", "reloading"
          using, stamp,        \* ReloadState: the settings in use and their mtime
          seen,                \* what a reload under way has read: [at, cfg]
          key,                 \* the registered hot key
          classes,             \* the window class of the hot key exists in this process
          marker, degraded,    \* startup_state.json; this start is degraded
          failed,              \* starts in a row that died (only the properties read it)
          missed,              \* the last change was not read (likewise)
          edits, starts

files == <<file, mtime, temp, edits>>
shell == <<using, stamp, seen, key, classes>>
health == <<marker, degraded, failed, starts>>
vars == <<files, writer, phase, shell, health, missed>>

Config == [hotkey : Hotkeys, theme : Themes]
Default == [hotkey |-> DefaultHotkey, theme |-> DefaultTheme]
Empty == [hotkey |-> "", theme |-> "empty"]   \* a truncated file
Mixed == [hotkey |-> "", theme |-> "mixed"]   \* one text over the rest of another
Threads == {"ui", "worker"}
Idle == [at |-> "idle", cfg |-> Gone, handle |-> Gone]

TypeOK ==
    /\ file \in Config \cup {Empty, Mixed, Gone} /\ temp \in Config \cup {Empty, Mixed, Gone}
    /\ \A t \in Threads : writer[t].at \in {"idle", "loaded", "created", "written"}
    /\ phase \in {"down", "starting", "running", "reloading"}
    /\ using \in Config \cup {Gone} /\ key \in Hotkeys \cup {Gone}
    /\ phase = "running" => using # Gone
    /\ phase = "reloading" => writer["ui"].at = "idle"

Init ==
    /\ file = Default /\ mtime = 0 /\ temp = Gone
    /\ writer = [t \in Threads |-> Idle]
    /\ phase = "down" /\ using = Gone /\ stamp = Gone /\ seen = Gone
    /\ key = Gone /\ classes = FALSE
    /\ marker = Gone /\ degraded = FALSE /\ failed = 0
    /\ missed = FALSE /\ edits = 0 /\ starts = 0

----------------------------------------------------------------------------
(* launcher-config.                                                        *)

\* load_or_create: every field has a default, so an empty file is a valid one; a file that
\* does not parse is set aside and replaced by the defaults.
Parsed(f) == IF f \in Config THEN f ELSE Default

Loads(f) == IF f \in {Mixed, Gone} THEN Default ELSE f
Touched(f) == IF Loads(f) # f THEN mtime + 1 ELSE mtime

\* The settings a control of the management window, or a settings command, changes.
Changes(c) == {[c EXCEPT !.theme = t] : t \in Themes} \cup {[c EXCEPT !.hotkey = h] : h \in Hotkeys}

Running == phase \in {"running", "reloading"}

Begin(t) ==
    /\ Running /\ writer[t].at = "idle" /\ edits < MaxEdits /\ edits' = edits + 1
    /\ t = "ui" => phase = "running"
    /\ file' = Loads(file) /\ mtime' = Touched(file)
    /\ \E c \in Changes(Parsed(file)) :
          writer' = [writer EXCEPT ![t] = [at |-> "loaded", cfg |-> c, handle |-> Gone]]
    /\ UNCHANGED <<temp, phase, shell, health, missed>>

\* File::create truncates the temporary file, also one that another thread is writing.
CreateTemp(t) ==
    /\ writer[t].at = "loaded" /\ temp' = Empty
    /\ writer' = [writer EXCEPT ![t] = [@ EXCEPT !.at = "created", !.handle = "temp"]]
    /\ UNCHANGED <<file, mtime, edits, phase, shell, health, missed>>

Over(f, cfg) == IF f = Empty THEN {cfg} ELSE {cfg, Mixed}

WriteTemp(t) ==
    /\ writer[t].at = "created"
    /\ writer' = [writer EXCEPT ![t].at = "written"]
    /\ CASE writer[t].handle = "temp" -> temp' \in Over(temp, writer[t].cfg) /\ UNCHANGED <<file, mtime>>
         [] writer[t].handle = "file" -> file' \in Over(file, writer[t].cfg) /\ mtime' = mtime + 1
                                         /\ UNCHANGED temp
         [] OTHER -> UNCHANGED <<file, mtime, temp>>
    /\ UNCHANGED <<edits, phase, shell, health, missed>>

\* Handles follow the file they were opened on.
Follows(h) == CASE h = "temp" -> "file" [] h = "file" -> Gone [] OTHER -> h

Rename(t) ==
    /\ writer[t].at = "written"
    /\ IF temp = Gone
       THEN writer' = [writer EXCEPT ![t] = Idle] /\ UNCHANGED <<file, mtime, temp>>
       ELSE /\ file' = temp /\ mtime' = mtime + 1 /\ temp' = Gone
            /\ writer' = [u \in Threads |->
                             IF u = t THEN Idle ELSE [writer[u] EXCEPT !.handle = Follows(@)]]
    /\ UNCHANGED <<edits, phase, shell, health, missed>>

\* The user saves the file in an editor.
Edit ==
    /\ edits < MaxEdits /\ edits' = edits + 1
    /\ file' \in Config
    /\ mtime' = mtime + 1 /\ missed' = (missed \/ phase = "starting")
    /\ UNCHANGED <<temp, writer, phase, shell, health>>

----------------------------------------------------------------------------
(* The process.                                                            *)

\* RegisterClassW refuses a class that exists, and nothing ever unregisters it; the key
\* itself may belong to another program.
register_hotkey(h, exists) ==
    IF h \notin Parses THEN key' = Gone /\ classes' = exists
    ELSE /\ classes' = TRUE
         /\ key' = IF exists \/ h \in Taken THEN Gone ELSE h

\* A marker that says healthy is left alone.
Marked == IF marker = Gone THEN [state |-> "starting", failures |-> 0]
          ELSE IF marker.state = "healthy" THEN marker
          ELSE [marker EXCEPT !.failures = @ + 1]

Start ==
    /\ phase = "down" /\ starts < MaxStarts /\ starts' = starts + 1
    /\ phase' = "starting" /\ missed' = FALSE
    /\ file' = Loads(file) /\ mtime' = Touched(file) /\ using' = Parsed(file)
    /\ marker' = Marked /\ degraded' = (Marked.state = "starting" /\ Marked.failures >= 3)
    /\ UNCHANGED <<temp, edits, writer, stamp, seen, key, classes, failed>>

\* The stamp is taken after build_core, from the file as it is then.
Started ==
    /\ phase = "starting" /\ phase' = "running"
    /\ stamp' = mtime /\ register_hotkey(using.hotkey, FALSE)
    /\ marker' = [state |-> "healthy", failures |-> 0] /\ failed' = 0
    /\ UNCHANGED <<files, writer, using, seen, degraded, starts, missed>>

Dies ==
    /\ phase # "down" /\ phase' = "down"
    /\ failed' = IF phase = "starting" THEN failed + 1 ELSE failed
    /\ writer' = [t \in Threads |-> Idle]
    /\ using' = Gone /\ stamp' = Gone /\ seen' = Gone /\ key' = Gone /\ classes' = FALSE
    /\ UNCHANGED <<files, marker, degraded, starts, missed>>

----------------------------------------------------------------------------
(* maybe_reload_config, on the UI thread, when the hot key summons the popup. *)

Summon ==
    /\ phase = "running" /\ key # Gone /\ writer["ui"].at = "idle"
    /\ mtime # stamp /\ phase' = "reloading" /\ seen' = [at |-> mtime, cfg |-> Gone]
    /\ UNCHANGED <<files, writer, using, stamp, key, classes, health, missed>>

\* A file that cannot be read, as while an editor saves it, counts as the defaults.
Load ==
    /\ phase = "reloading" /\ seen.cfg = Gone
    /\ \/ /\ seen' = [seen EXCEPT !.cfg = Parsed(file)] /\ missed' = FALSE
          /\ file' = Loads(file) /\ mtime' = Touched(file)
       \/ /\ seen' = [seen EXCEPT !.cfg = Default] /\ missed' = TRUE /\ UNCHANGED <<file, mtime>>
    /\ UNCHANGED <<temp, edits, writer, phase, using, stamp, key, classes, health>>

\* Bug: the modification time is read when the settings are taken over.
Stamp_late == mtime

Stamp == seen.at

Apply ==
    /\ phase = "reloading" /\ seen.cfg # Gone
    /\ phase' = "running" /\ using' = seen.cfg /\ stamp' = Stamp /\ seen' = Gone
    /\ IF seen.cfg.hotkey # using.hotkey THEN register_hotkey(seen.cfg.hotkey, classes)
       ELSE UNCHANGED <<key, classes>>
    /\ UNCHANGED <<files, writer, health, missed>>

Next ==
    \/ Edit \/ Start \/ Started \/ Dies \/ Summon \/ Load \/ Apply
    \/ \E t \in Threads : Begin(t) \/ CreateTemp(t) \/ WriteTemp(t) \/ Rename(t)

Spec == Init /\ [][Next]_vars

----------------------------------------------------------------------------

\* While the stamp is the file's own, the settings in use are those of the file, so a change
\* is never taken for one already applied (maybe_reload_config). Excused are a change made while
\* the launcher was starting and a file that could not be read, which are stamped all the same.
StampIsTrue == phase = "running" /\ stamp = mtime /\ ~missed => using = Parsed(file)

-----------------------------------------------------------------------------
\* What the source says of itself and does not keep: no run checks it, and the README lists it.

\* "a crash mid-save can never leave a half-written config behind" (save).
NeverHalfWritten == file \notin {Empty, Mixed}

\* A start after three starts in a row that died is degraded (main: "detect a previous
\* interrupted startup").
CrashLoopDegrades == phase = "starting" /\ failed >= 3 => degraded

\* A hot key that parses and is free is registered once the reload has applied it
\* (maybe_reload_config: "re-registers the global hotkey if it changed").
HotkeyApplied ==
    [][phase = "reloading" /\ phase' = "running" /\ using'.hotkey # using.hotkey /\ using'.hotkey \in Parses \ Taken
       => key' # Gone]_vars
=============================================================================
