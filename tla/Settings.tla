------------------------------- MODULE Settings -------------------------------
(***************************************************************************)
(* The client's settings: the configuration in memory, its file, the       *)
(* fields of the menu that edit it, and the name a server is told.         *)
(*                                                                         *)
(* Save truncates the file before it writes; a crash in between leaves a   *)
(* file that does not parse.  A connection can come up while the player    *)
(* is still typing, and the window can be closed at any time.  The file    *)
(* has both its sections, and can be written.                              *)
(***************************************************************************)
EXTENDS Integers

CONSTANTS
    Values,         \* what a setting can be
    Languages,
    Static,         \* setting -> its value before anything is loaded
    IfAbsent,       \* setting -> its value if the file does not mention it
    Fresh,          \* setting -> its value in a new configuration
    AtStart         \* what is never saved -> its value in a new program

\* The settings by what the menu does with them; "other" stands for those it does not
\* know (frame rate, master's address, favourites).
Edited == {"name", "address", "server"}
AllKeys == Edited \cup {"language", "other"}

\* Load does not read the language.
Read == AllKeys \ {"language"}

\* What the menu edits and no save writes: the volume, which the audio has, and whether
\* a lobby is public, which the menu has.
Unsaved == {"volume", "public"}

Choices == AllKeys \cup Unsaved

None == "none"

ASSUME SettingsAssumption ==
    /\ Static \in [AllKeys -> Values] /\ IfAbsent \in [AllKeys -> Values]
    /\ Fresh \in [AllKeys -> Values] /\ AtStart \in [Unsaved -> Values]
    /\ Languages \subseteq Values /\ None \notin Values

VARIABLES
    app,            \* where the program is
    config,         \* ConfigManager's config
    readable,       \* config.json is there and parses
    file,           \* the settings in it
    saving,         \* the file is truncated and not written
    fields,         \* the menu's buffers
    options,        \* masterVolume and isPublicServer
    editing,        \* the name's field has the keyboard
    sceneDue,       \* nextScene is the game
    connected,
    pending,        \* a CONNECT that is not handled
    joined,         \* the name of this connection's last JOIN
    chosen,         \* history: what the player chose last
    kept,           \* history: the settings last written
    intact          \* history: no crash since the menu was last opened

menu == <<fields, options, editing, sceneDue>>
net == <<connected, pending, joined>>
history == <<chosen, kept, intact>>
disk == <<readable, file, saving>>
settings == <<app, config, disk, menu, net, history>>

\* The names say Settings where Keyboard has the same ones: MenuProofs is about both.
SettingsOK ==
    /\ app \in {"off", "starting", "opening", "menu", "entering", "game", "closing"}
    /\ config \in [AllKeys -> Values]
    /\ readable \in BOOLEAN /\ saving \in BOOLEAN
    /\ DOMAIN file \subseteq AllKeys /\ file \in [DOMAIN file -> Values]
    /\ fields \in [Edited -> Values] /\ options \in [Unsaved -> Values]
    /\ editing \in BOOLEAN /\ sceneDue \in BOOLEAN
    /\ connected \in BOOLEAN /\ pending \in BOOLEAN /\ joined \in Values \cup {None}
    /\ chosen \in [Choices -> Values] /\ kept \in [AllKeys -> Values] /\ intact \in BOOLEAN

-----------------------------------------------------------------------------
(* The file.                                                               *)

LoadedFrom(f) ==
    [k \in AllKeys |-> IF k \notin Read THEN Static[k]
                    ELSE IF k \in DOMAIN f THEN f[k] ELSE IfAbsent[k]]

\* Save, as far as the handler runs before the file is written.
BeginSave(c) ==
    config' = c /\ readable' = FALSE /\ saving' = TRUE /\ UNCHANGED file

WriteForgetsAddress ==
    /\ saving
    /\ file' = [k \in AllKeys \ {"address"} |-> config[k]]
    /\ readable' = TRUE /\ saving' = FALSE /\ kept' = config
    /\ UNCHANGED <<app, config, menu, net, chosen, intact>>

WriteFile ==
    /\ saving
    /\ file' = config /\ readable' = TRUE /\ saving' = FALSE /\ kept' = config
    /\ UNCHANGED <<app, config, menu, net, chosen, intact>>

\* Initialize and Load; a file that is missing or does not parse is replaced.
Launch ==
    /\ app = "off"
    /\ app' = "starting"
    /\ IF readable THEN config' = LoadedFrom(file) /\ UNCHANGED disk
       ELSE BeginSave(Fresh)
    /\ options' = AtStart
    /\ UNCHANGED <<fields, editing, sceneDue, net, history>>

-----------------------------------------------------------------------------
(* The menu.  Every handler waits for a save to end.                       *)

Idle(place) == app = place /\ ~saving

\* The menu is about to open: the program's first, or another after a game.
Opens == app \in {"starting", "opening"}

EnterMenu ==
    /\ Opens /\ ~saving
    /\ app' = "menu"
    /\ fields' = [k \in Edited |-> config[k]] /\ editing' = FALSE /\ sceneDue' = FALSE
    /\ options' = [options EXCEPT !["public"] = AtStart["public"]]
    /\ chosen' = [k \in Choices |-> IF k \in Unsaved THEN options'[k] ELSE config[k]]
    /\ intact' = TRUE
    /\ UNCHANGED <<config, disk, net, kept>>

EditName(v) ==
    /\ Idle("menu")
    /\ editing' = TRUE
    /\ fields' = [fields EXCEPT !["name"] = v] /\ chosen' = [chosen EXCEPT !["name"] = v]
    /\ UNCHANGED <<app, config, disk, options, sceneDue, net, kept, intact>>

StopEditing ==
    /\ Idle("menu") /\ editing
    /\ editing' = FALSE
    /\ config' = [config EXCEPT !["name"] = fields["name"]]
    /\ UNCHANGED <<app, disk, fields, options, sceneDue, net, history>>

\* Another field, or a slider: the name's field is left first.
EditField(k, v) ==
    /\ Idle("menu") /\ ~editing /\ k \in {"address", "server"}
    /\ fields' = [fields EXCEPT ![k] = v] /\ chosen' = [chosen EXCEPT ![k] = v]
    /\ UNCHANGED <<app, config, disk, options, editing, sceneDue, net, kept, intact>>

\* The volume's slider or the public lobby's checkbox.
EditOption(k, v) ==
    /\ Idle("menu") /\ ~editing
    /\ options' = [options EXCEPT ![k] = v] /\ chosen' = [chosen EXCEPT ![k] = v]
    /\ UNCHANGED <<app, config, disk, fields, editing, sceneDue, net, kept, intact>>

JoinDirect ==
    /\ Idle("menu") /\ ~editing
    /\ BeginSave([config EXCEPT !["address"] = fields["address"]])
    /\ UNCHANGED <<app, menu, net, history>>

CreateLobby ==
    /\ Idle("menu") /\ ~editing
    /\ config' = [config EXCEPT !["server"] = fields["server"]]
    /\ UNCHANGED <<app, disk, menu, net, history>>

CycleLanguage ==
    /\ Idle("menu") /\ ~editing
    /\ \E l \in Languages \ {config["language"]} :
         /\ BeginSave([config EXCEPT !["language"] = l])
         /\ chosen' = [chosen EXCEPT !["language"] = l]
    /\ UNCHANGED <<app, menu, net, kept, intact>>

FromFields == [k \in AllKeys |-> IF k \in Edited THEN fields[k] ELSE config[k]]

\* MainMenuScene::Exit, at the start of the next frame or when the program ends.
ExitMenu(next) ==
    /\ Idle("menu")
    /\ app' = next
    /\ BeginSave(FromFields)
    /\ UNCHANGED <<menu, net, history>>

LeaveMenu == sceneDue /\ ExitMenu("entering")

-----------------------------------------------------------------------------
(* The game.                                                               *)

Join == IF connected THEN config["name"] ELSE joined

EnterGameSilently ==
    /\ Idle("entering")
    /\ app' = "game"
    /\ UNCHANGED <<config, disk, menu, net, history>>

EnterGame ==
    /\ Idle("entering")
    /\ app' = "game"
    /\ joined' = Join
    /\ UNCHANGED <<config, disk, menu, connected, pending, history>>

\* The frame loop's, or a detached thread's, connect comes to an end.
ConnectionUp ==
    /\ app \in {"menu", "entering", "game"} /\ ~connected
    /\ connected' = TRUE /\ pending' = TRUE /\ joined' = None
    /\ UNCHANGED <<app, config, disk, menu, history>>

ConnectionDown ==
    /\ connected
    /\ connected' = FALSE /\ joined' = None
    /\ UNCHANGED <<app, config, disk, menu, pending, history>>

HandleConnect ==
    /\ pending /\ app \in {"menu", "game"} /\ ~saving
    /\ pending' = FALSE /\ joined' = Join
    /\ sceneDue' = (sceneDue \/ app = "menu")
    /\ UNCHANGED <<app, config, disk, fields, options, editing, connected, history>>

\* GameplayScene::Exit; the menu that follows is a new one.
ReturnToMenu ==
    /\ Idle("game")
    /\ app' = "opening"
    /\ connected' = FALSE /\ pending' = FALSE /\ joined' = None
    /\ UNCHANGED <<config, disk, menu, history>>

-----------------------------------------------------------------------------
(* The end of the program.                                                 *)

Ended ==
    /\ app' = "off"
    /\ connected' = FALSE /\ pending' = FALSE /\ joined' = None
    /\ UNCHANGED <<config, readable, file, menu>>

ClosedSilently == Idle("menu") /\ Ended /\ UNCHANGED <<saving, history>>

\* ~GameClient calls the scene's Exit.
CloseMenu == ExitMenu("closing")

CloseGame == Idle("game") /\ Ended /\ UNCHANGED <<saving, history>>

Closed == Idle("closing") /\ Ended /\ UNCHANGED <<saving, history>>

Crash ==
    /\ app # "off" /\ Ended
    /\ saving' = FALSE /\ intact' = FALSE
    /\ UNCHANGED <<chosen, kept>>

SettingsNext ==
    \/ WriteFile \/ Launch \/ EnterMenu \/ StopEditing
    \/ \E v \in Values :
         \/ EditName(v)
         \/ \E k \in Edited : EditField(k, v)
         \/ \E k \in Unsaved : EditOption(k, v)
    \/ JoinDirect \/ CreateLobby \/ CycleLanguage \/ LeaveMenu
    \/ EnterGame \/ ConnectionUp \/ ConnectionDown \/ HandleConnect \/ ReturnToMenu
    \/ CloseMenu \/ CloseGame \/ Closed \/ Crash

\* The program was never started; the file may be there, with any of the settings.
SettingsInit ==
    /\ app = "off" /\ saving = FALSE
    /\ readable \in BOOLEAN /\ \E S \in SUBSET AllKeys : file \in [S -> Values]
    /\ config = Static /\ options = AtStart /\ intact = FALSE
    /\ chosen = [k \in Choices |-> IF k \in Unsaved THEN AtStart[k] ELSE Static[k]]
    /\ kept = IF readable THEN LoadedFrom(file) ELSE Fresh
    /\ fields = [k \in Edited |-> Static[k]] /\ editing = FALSE /\ sceneDue = FALSE
    /\ connected = FALSE /\ pending = FALSE /\ joined = None

SettingsSpec == SettingsInit /\ [][SettingsNext]_settings

-----------------------------------------------------------------------------
\* Every setting that is saved and loaded is, when the menu opens again, what the player
\* chose before closing the window or before a game, whichever handler saved what in
\* between; the volume is so only after a game.  (Lost are the language and the volume
\* when the program is started again, and whether a lobby is public with every menu.
\* Of a crash nothing is promised.)
ChoicesSurvive ==
    /\ Opens /\ intact => \A k \in Read : config[k] = chosen[k]
    /\ app = "opening" => options["volume"] = chosen["volume"]

\* A crash at any time, also in the middle of Save, leaves the settings last written
\* or those of a new configuration, never a mixture.
AllOrNothing ==
    Opens => config = Fresh \/ \A k \in Read : config[k] = kept[k]

\* The name a server knows a player by is the one typed last, although the connection
\* may have come up, and JOIN been sent, while it was being typed.
CalledAsTyped ==
    app = "game" /\ connected /\ ~pending => joined = chosen["name"]
=============================================================================
