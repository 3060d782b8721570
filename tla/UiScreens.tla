----------------------------- MODULE UiScreens -----------------------------
(***************************************************************************)
(* The screens of the touchscreen program: which screen an input leads to, *)
(* which request it begins, and where the answer leaves the user           *)
(* (src/ui/src/ui_input.c, src/ui/src/ui.c), with what the main loop does  *)
(* for the requests of the network, update and stock UI screens            *)
(* (src/ui/src/target.c).                                                  *)
(*                                                                         *)
(* All 56 screens are here.  The choices of a value screen are Choices     *)
(* cells; whether one of them is the present value is left open, and so is *)
(* whether automatic time is on and what the gallery shows.  The           *)
(* loop around the screens (worker, sequence, sleep) is TouchUi's.         *)
(***************************************************************************)
EXTENDS Integers, Sequences

CONSTANTS
  Choices,    \* cells of a value screen
  Networks    \* most networks a scan lists

ASSUME ScreensAssumption == Choices \in Nat \ {0} /\ Networks \in Nat \ {0}

VARIABLES
  ui,        \* screen, focus_index, focus_visible, return_to_main, pending_action
  wifi,      \* networks listed, wifi_enabled, wifi_selected_index, wifi_password
  seq,       \* capture_sequence_active
  status,    \* ui->status: idle, or recording, streaming, playing back or unknown
  moved      \* a key has moved the focus since this confirm screen was entered
vars == <<ui, wifi, seq, status, moved>>

None == "none"
-----------------------------------------------------------------------------
(* The menus, and the cells in them that lead to no screen.                *)
Menu == [
  SETTINGS |-> <<"SETTINGS_CAMERA", "SETTINGS_IMAGE", "SETTINGS_ENCODING",
    "SETTINGS_RECORDING", "SETTINGS_LIVE", "SETTINGS_NETWORK", "SETTINGS_AUDIO",
    "SETTINGS_STORAGE", "SETTINGS_DATETIME", "SETTINGS_GENERAL">>,
  SETTINGS_CAMERA |-> <<"CAPTURE_MODE", "CAMERA_RESOLUTION", "PHOTO_FORMAT", "DRIVE_MODE">>,
  SETTINGS_IMAGE |-> <<"WHITE_BALANCE", "EV", "IMAGE_BRIGHTNESS", "IMAGE_CONTRAST",
    "IMAGE_SATURATION", "IMAGE_SHARPNESS", "IMAGE_DNR", "ANTIFLICKER", "IMAGE_EFFECT">>,
  SETTINGS_ENCODING |-> <<"ENCODING_CODEC", "ENCODING_IMAGE_QUALITY", "ENCODING_COLOR_RANGE">>,
  SETTINGS_RECORDING |-> <<"RECORDING_CODEC", "RECORDING_BITRATE", "RECORDING_GOP",
    "RECORDING_COLOR_RANGE">>,
  SETTINGS_LIVE |-> <<"later", "later", "later", "later">>,
  SETTINGS_NETWORK |-> <<"scan", "wifi power", "ETHERNET", "USB_ETHERNET">>,
  SETTINGS_AUDIO |-> <<"AUDIO_INPUT", "AUDIO_BUILTIN_VOLUME", "AUDIO_LINEIN_VOLUME",
    "AUDIO_USB_VOLUME", "AUDIO_SPEAKER_VOLUME">>,
  SETTINGS_STORAGE |-> <<"later", "later", "later", "later">>,
  SETTINGS_DATETIME |-> <<"TIMEZONE", "AUTO_TIME", "ADJUST_DATETIME">>,
  SETTINGS_GENERAL |-> <<"DISPLAY", "DISPLAY_OFF", "LANGUAGE", "INDICATOR_LED", "check",
    "later", "POWER_HISTORY", "STOCK_UI_CONFIRM">>]

(* The value screens, by the menu they belong to.  A request to set a      *)
(* value has the name of its screen here.                                  *)
CameraValues == {"CAPTURE_MODE", "CAMERA_RESOLUTION", "PHOTO_FORMAT", "DRIVE_MODE"}
ImageValues == {"WHITE_BALANCE", "EV", "ANTIFLICKER", "IMAGE_BRIGHTNESS", "IMAGE_CONTRAST",
                "IMAGE_SATURATION", "IMAGE_SHARPNESS", "IMAGE_DNR", "IMAGE_EFFECT"}
EncodingValues == {"ENCODING_CODEC", "ENCODING_IMAGE_QUALITY", "ENCODING_COLOR_RANGE"}
RecordingValues == {"RECORDING_CODEC", "RECORDING_BITRATE", "RECORDING_GOP",
                    "RECORDING_COLOR_RANGE"}
AudioValues == {"AUDIO_INPUT", "AUDIO_BUILTIN_VOLUME", "AUDIO_LINEIN_VOLUME",
                "AUDIO_USB_VOLUME", "AUDIO_SPEAKER_VOLUME"}
TimeValues == {"TIMEZONE", "AUTO_TIME"}
GeneralValues == {"DISPLAY", "DISPLAY_OFF", "LANGUAGE", "INDICATOR_LED"}
Values == CameraValues \cup ImageValues \cup EncodingValues \cup RecordingValues
            \cup AudioValues \cup TimeValues \cup GeneralValues
            \cup {"EXPOSURE", "ISO", "USB_ETHERNET"}
(* Those that wait for an idle camera (guarded_setting_action).            *)
GuardedValues == CameraValues \cup EncodingValues \cup RecordingValues

Screens == DOMAIN Menu \cup Values \cup
  {"MAIN", "ADJUST_DATETIME", "GALLERY", "DELETE_CONFIRM", "WIFI_LIST", "WIFI_PASSWORD",
   "WIFI_OFF_CONFIRM", "ETHERNET", "UPDATE_CONFIRM", "STOCK_UI_CONFIRM", "POWER_HISTORY"}

(* The confirm screens: where CANCEL leads, what the other button asks.    *)
Confirms == [
  DELETE_CONFIRM |-> [back |-> "GALLERY", ask |-> "GALLERY_DELETE"],
  UPDATE_CONFIRM |-> [back |-> "SETTINGS_GENERAL", ask |-> "FIRMWARE_INSTALL"],
  STOCK_UI_CONFIRM |-> [back |-> "SETTINGS_GENERAL", ask |-> "LOAD_STOCK_UI"],
  WIFI_OFF_CONFIRM |-> [back |-> "SETTINGS_NETWORK", ask |-> "WIFI_OFF"]]
Destructive == {Confirms[s].ask : s \in DOMAIN Confirms}

Requests == Values \cup Destructive \cup
  {"LCD_POWER", "RECORD_TOGGLE", "SNAPSHOT", "SEQUENCE_START", "SEQUENCE_CANCEL",
   "GALLERY_ENTER", "GALLERY_EXIT", "GALLERY_MOVE", "GALLERY_PLAY_TOGGLE", "DATETIME",
   "WIFI_SCAN", "WIFI_CONNECT_SAVED", "WIFI_CONNECT_PASSWORD", "WIFI_ON", "FIRMWARE_CHECK"}
Passwords == {"empty", "short", "long"}   \* 0, 1..7 and 8..63 characters
Keys == {"UP", "DOWN", "LEFT", "RIGHT", "MENU", "BACK", "FILE", "F1", "SHUTTER", "POWER"}

TypeOK ==
  /\ ui \in [screen : Screens, focus : 0..(10 + Choices + Networks), visible : BOOLEAN,
             ret : BOOLEAN, pending : Requests \cup {None}]
  /\ wifi \in [listed : 0..Networks, on : BOOLEAN, sel : -1..(Networks - 1),
               password : Passwords]
  /\ seq \in BOOLEAN /\ status \in {"idle", "busy"}
  /\ moved \in BOOLEAN

-----------------------------------------------------------------------------
(* parent_screen                                                           *)
ParentScreen(s) ==
  CASE s \in CameraValues -> "SETTINGS_CAMERA"
    [] s \in EncodingValues -> "SETTINGS_ENCODING"
    [] s \in RecordingValues -> "SETTINGS_RECORDING"
    [] s = "WIFI_PASSWORD" -> "WIFI_LIST"
    [] s \in {"WIFI_LIST", "WIFI_OFF_CONFIRM", "ETHERNET", "USB_ETHERNET"} -> "SETTINGS_NETWORK"
    [] s \in GeneralValues \cup {"UPDATE_CONFIRM", "STOCK_UI_CONFIRM", "POWER_HISTORY"}
         -> "SETTINGS_GENERAL"
    [] s \in ImageValues -> "SETTINGS_IMAGE"
    [] s \in AudioValues -> "SETTINGS_AUDIO"
    [] s \in TimeValues \cup {"ADJUST_DATETIME"} -> "SETTINGS_DATETIME"
    [] s \in DOMAIN Menu \ {"SETTINGS"} -> "SETTINGS"
    [] OTHER -> "MAIN"

(* screen_grid: the cells of a screen in rows of so many columns.          *)
Cells(s) == IF s \in DOMAIN Menu THEN Len(Menu[s]) ELSE IF s \in Values THEN Choices ELSE 0
Columns(s) == IF s = "SETTINGS_IMAGE" THEN 3 ELSE 2

(* calf_ui_focus_default: the focus of a screen that is entered.  The      *)
(* present value of a value screen, or network of the list, is left open.  *)
DefaultFocusWrong(s, listed) ==  \* the focus of a confirm screen starts on its second button
  IF s \in DOMAIN Confirms THEN {<<1, TRUE>>}
  ELSE IF s \in Values THEN {<<f, TRUE>> : f \in 0..(Choices - 1)}
  ELSE IF s = "WIFI_LIST" THEN {<<f, TRUE>> : f \in 0..(listed - 1)} \cup {<<0, TRUE>>}
  ELSE {<<0, Cells(s) > 0>>}
DefaultFocus(s, listed) ==
  IF s \in {"ADJUST_DATETIME", "WIFI_PASSWORD", "DELETE_CONFIRM", "WIFI_OFF_CONFIRM",
            "UPDATE_CONFIRM"} THEN {<<0, TRUE>>}
  ELSE IF s = "WIFI_LIST" THEN {<<f, TRUE>> : f \in 0..(listed - 1)} \cup {<<0, TRUE>>}
  ELSE IF s \in Values THEN {<<f, TRUE>> : f \in 0..(Choices - 1)}
  ELSE {<<0, Cells(s) > 0>>}

(* change_screen                                                           *)
Entered(u, s, listed) ==
  {[u EXCEPT !.screen = s, !.focus = f[1], !.visible = f[2]] : f \in DefaultFocus(s, listed)}
Shown(u, s) == Entered(u, s, wifi.listed)
(* A confirm screen is entered with the focus on CANCEL, and visible.      *)
Confirmed(u, s) == {[u EXCEPT !.screen = s, !.focus = 0, !.visible = TRUE]}
Shortcut(u, s) == {[v EXCEPT !.ret = TRUE] : v \in Shown(u, s)}   \* return_to_main = 1
Back(u) == {[v EXCEPT !.ret = FALSE] :
              v \in Shown(u, IF u.ret THEN "MAIN" ELSE ParentScreen(u.screen))}

(* begin_action, guarded_setting_action                                    *)
Asking(u, k) == [u EXCEPT !.pending = k]
Guarded(u, k) == {IF status = "idle" THEN Asking(u, k) ELSE u}
-----------------------------------------------------------------------------
(* What a cell does when it is touched, or activated with MENU.            *)
MenuCell(u, target) ==
  CASE target = "later" -> {u}
    [] target = "scan" -> {IF wifi.on THEN Asking(u, "WIFI_SCAN") ELSE u}
    [] target = "wifi power" ->
         IF wifi.on THEN Confirmed(u, "WIFI_OFF_CONFIRM") ELSE {Asking(u, "WIFI_ON")}
    [] target = "check" -> {Asking(u, "FIRMWARE_CHECK")}
    [] target = "STOCK_UI_CONFIRM" -> Confirmed(u, target)
    [] target = "ADJUST_DATETIME" -> Shown(u, target) \cup {u}   \* unless AUTO SET is on
    [] OTHER -> Shown(u, target)

(* The present mode, resolution, format or drive mode only leaves.         *)
ValueCell(u, s) ==
  (IF s \in GuardedValues THEN Guarded(u, s) ELSE {Asking(u, s)})
    \cup (CASE s = "CAPTURE_MODE" -> Shown(u, "MAIN")
            [] s \in {"CAMERA_RESOLUTION", "PHOTO_FORMAT"} -> Shown(u, "SETTINGS_CAMERA")
            [] s = "DRIVE_MODE" ->
                 IF u.ret THEN {[v EXCEPT !.ret = FALSE] : v \in Shown(u, "MAIN")}
                 ELSE Shown(u, "SETTINGS_CAMERA")
            [] OTHER -> {})

Cell(u, i) == IF u.screen \in Values THEN ValueCell(u, u.screen)
              ELSE MenuCell(u, Menu[u.screen][i + 1])

(* MAIN: record or photograph, as the mode and the drive mode are.         *)
RecordToggle(u) == {Asking(u, "RECORD_TOGGLE")}
GalleryEnter(u) == Guarded(u, "GALLERY_ENTER")
MainShutter(u) == RecordToggle(u) \cup {Asking(u, "SNAPSHOT"), Asking(u, "SEQUENCE_START")}
MainKey(u, key) ==
  CASE key = "UP" -> Shortcut(u, "ISO")
    [] key = "DOWN" -> Shortcut(u, "EXPOSURE")
    [] key = "LEFT" -> Shortcut(u, "EV")
    [] key = "RIGHT" -> Shortcut(u, "WHITE_BALANCE")
    [] key = "MENU" -> Shown(u, "SETTINGS")
    [] key = "FILE" -> GalleryEnter(u)
    [] key = "SHUTTER" -> MainShutter(u)
    [] OTHER -> {u}
MainTap(u) ==
  Shown(u, "SETTINGS") \cup Shown(u, "EXPOSURE") \cup Shown(u, "ISO")
    \cup Shortcut(u, "WHITE_BALANCE") \cup Shortcut(u, "EV") \cup Shortcut(u, "DRIVE_MODE")
    \cup Shortcut(u, "CAPTURE_MODE") \cup RecordToggle(u) \cup {u}

(* The gallery, with or without an item, which may be a playing video.     *)
GalleryKey(u, key) ==
  CASE key = "BACK" -> {Asking(u, "GALLERY_EXIT")}
    [] key \in {"UP", "DOWN"} -> {u, Asking(u, "AUDIO_SPEAKER_VOLUME")}
    [] key \in {"LEFT", "RIGHT"} -> {u, Asking(u, "GALLERY_MOVE")}
    [] key \in {"MENU", "SHUTTER"} -> {u, Asking(u, "GALLERY_PLAY_TOGGLE")}
    [] key = "FILE" -> {u} \cup Confirmed(u, "DELETE_CONFIRM")
    [] OTHER -> {u}
GalleryTap(u) ==
  {u} \cup {Asking(u, k) : k \in {"GALLERY_EXIT", "GALLERY_MOVE", "GALLERY_PLAY_TOGGLE"}}
      \cup Confirmed(u, "DELETE_CONFIRM")

(* The four confirm screens are alike; only the gallery's hears SHUTTER.   *)
ConfirmAsk(u) == IF u.screen = "STOCK_UI_CONFIRM" THEN Guarded(u, "LOAD_STOCK_UI")
                 ELSE {Asking(u, Confirms[u.screen].ask)}
ConfirmBack(u) == Shown(u, Confirms[u.screen].back)
ConfirmKey(u, key) ==
  CASE key = "BACK" -> ConfirmBack(u)
    [] key \in {"LEFT", "RIGHT"} ->
         {[u EXCEPT !.focus = IF key = "RIGHT" THEN 1 ELSE 0, !.visible = TRUE]}
    [] key = "MENU" \/ (key = "SHUTTER" /\ u.screen = "DELETE_CONFIRM") ->
         IF u.visible /\ u.focus = 1 THEN ConfirmAsk(u) ELSE ConfirmBack(u)
    [] OTHER -> {u}
ConfirmTap(u) == {u} \cup ConfirmBack(u) \cup ConfirmAsk(u)

(* The arrows on a grid; MENU activates the focused cell and, on another   *)
(* screen, sets that screen's default focus once more (activate_focus).    *)
GridMoved(u, key) ==
  LET from == IF u.visible /\ u.focus < Cells(u.screen) THEN u.focus ELSE 0
      to == CASE key = "LEFT" -> from - 1 [] key = "RIGHT" -> from + 1
              [] key = "UP" -> from - Columns(u.screen) [] key = "DOWN" -> from + Columns(u.screen)
  IN [u EXCEPT !.focus = IF to \in 0..(Cells(u.screen) - 1) THEN to ELSE from, !.visible = TRUE]
ActivateFocus(u) ==
  LET focus == IF u.focus < Cells(u.screen) THEN u.focus ELSE 0
  IN UNION {IF v.screen = u.screen THEN {[v EXCEPT !.focus = focus, !.visible = TRUE]}
            ELSE Shown(v, v.screen) : v \in Cell([u EXCEPT !.visible = FALSE], focus)}
GridKey(u, key) ==
  IF Cells(u.screen) = 0 THEN {u}
  ELSE CASE key = "MENU" -> ActivateFocus(u)
         [] key \in {"UP", "DOWN", "LEFT", "RIGHT"} -> {GridMoved(u, key)}
         [] OTHER -> {u}

(* ADJUST DATE TIME: the fields (focus 0) and APPLY (focus 1).             *)
DateKey(u, key) ==
  CASE key \in {"UP", "DOWN"} -> {[u EXCEPT !.focus = f, !.visible = TRUE] : f \in {0, 1}}
    [] key = "MENU" /\ u.visible /\ u.focus = 1 -> {Asking(u, "DATETIME")}
    [] OTHER -> {[u EXCEPT !.visible = TRUE]}
DateTap(u) == {u, Asking(u, "DATETIME")}
-----------------------------------------------------------------------------
Init ==
  /\ ui = [screen |-> "MAIN", focus |-> 0, visible |-> FALSE, ret |-> FALSE, pending |-> None]
  /\ \E on \in BOOLEAN :
       wifi = [listed |-> 0, on |-> on, sel |-> -1, password |-> "empty"]
  /\ seq = FALSE /\ status = "busy" /\ moved = FALSE

Free == ui.pending = None
InputKeeps == UNCHANGED <<seq, status>>
Networking == {"WIFI_LIST", "WIFI_PASSWORD"}

(* calf_ui_key_press, every screen but the two that carry more than it.    *)
KeyPress(key) ==
  /\ Free /\ InputKeeps
  /\ IF key = "POWER" THEN ui' = Asking(ui, "LCD_POWER")
     ELSE IF seq THEN ui' = IF key \in {"SHUTTER", "BACK"} THEN Asking(ui, "SEQUENCE_CANCEL") ELSE ui
     ELSE /\ ui.screen \notin Networking
          /\ ui' \in CASE ui.screen \in DOMAIN Confirms -> ConfirmKey(ui, key)
                       [] ui.screen = "GALLERY" -> GalleryKey(ui, key)
                       [] ui.screen = "MAIN" -> MainKey(ui, key)
                       [] key = "BACK" -> Back(ui)
                       [] ui.screen = "ADJUST_DATETIME" -> DateKey(ui, key)
                       [] OTHER -> GridKey(ui, key)
  /\ UNCHANGED wifi

(* calf_ui_tap, the same.  A touch hides the focus first.                  *)
Touched == [ui EXCEPT !.visible = FALSE]
Tap ==
  /\ Free /\ InputKeeps /\ UNCHANGED wifi
  /\ IF seq THEN ui' \in {Touched, Asking(Touched, "SEQUENCE_CANCEL")}
     ELSE /\ ui.screen \notin Networking
          /\ ui' \in CASE ui.screen = "GALLERY" -> GalleryTap(Touched)
                       [] ui.screen \in DOMAIN Confirms -> ConfirmTap(Touched)
                       [] ui.screen = "MAIN" -> MainTap(Touched)
                       [] ui.screen = "ADJUST_DATETIME" -> DateTap(Touched) \cup Back(Touched)
                       [] OTHER -> {Touched} \cup Back(Touched)
                            \cup UNION {Cell(Touched, i) : i \in 0..(Cells(ui.screen) - 1)}

(* The list of networks: a row asks for the saved login of its network.    *)
ListNetwork(u, i) ==
  ui' = Asking(u, "WIFI_CONNECT_SAVED") /\ wifi' = [wifi EXCEPT !.sel = i]
WifiListKey(key) ==
  /\ Free /\ ~seq /\ ui.screen = "WIFI_LIST" /\ InputKeeps
  /\ LET focus == IF ui.visible THEN ui.focus ELSE 0
         Focused(f) == ui' = [ui EXCEPT !.focus = f, !.visible = TRUE] /\ UNCHANGED wifi IN
     \/ key = "BACK" /\ ui' \in Shown(ui, "SETTINGS_NETWORK") /\ UNCHANGED wifi
     \/ key \in {"UP", "LEFT"} /\ Focused(IF focus > 0 THEN focus - 1 ELSE focus)
     \/ key \in {"DOWN", "RIGHT"} /\ Focused(IF focus < wifi.listed THEN focus + 1 ELSE focus)
     \/ key = "MENU" /\ focus = wifi.listed /\ ui' = Asking(ui, "WIFI_SCAN") /\ UNCHANGED wifi
     \/ key = "MENU" /\ focus < wifi.listed /\ ListNetwork(ui, focus)
WifiListTap ==
  /\ Free /\ ~seq /\ ui.screen = "WIFI_LIST" /\ InputKeeps
  /\ \/ ui' \in Shown(Touched, "SETTINGS_NETWORK") \cup {Touched, Asking(Touched, "WIFI_SCAN")}
        /\ UNCHANGED wifi
     \/ \E i \in 0..(wifi.listed - 1) : ListNetwork(Touched, i)

(* The keyboard.  Any of its keys may be the one in focus.                 *)
Longer(p) == IF p = "empty" THEN {"short"} ELSE {p, "long"}
Shorter(p) == IF p = "long" THEN {"long", "short"} ELSE {"short", "empty"}
Type(u) ==
  /\ ui' = u
  /\ \E p \in Longer(wifi.password) \cup Shorter(wifi.password) \cup {wifi.password} :
       wifi' = [wifi EXCEPT !.password = p]
PasswordConnect(u) ==
  /\ ui' = IF wifi.sel \in 0..(wifi.listed - 1) /\ wifi.password # "short"
           THEN Asking(u, "WIFI_CONNECT_PASSWORD") ELSE u
  /\ UNCHANGED wifi
ForgetPassword == [wifi EXCEPT !.password = "empty"]
LeavePassword(u) == ui' \in Shown(u, "WIFI_LIST") /\ wifi' = ForgetPassword
WifiPassword ==
  /\ Free /\ ~seq /\ ui.screen = "WIFI_PASSWORD" /\ InputKeeps
  /\ \E u \in {ui, Touched, [ui EXCEPT !.visible = TRUE]} :
       Type(u) \/ PasswordConnect(u) \/ LeavePassword(u)
-----------------------------------------------------------------------------
(* calf_ui_complete_action: the screen after an answer.                    *)
CompletedScreen(u, k) ==
  CASE k \in {"EXPOSURE", "ISO", "CAPTURE_MODE", "SEQUENCE_START", "SEQUENCE_CANCEL",
              "GALLERY_EXIT"} -> "MAIN"
    [] k \in {"GALLERY_ENTER", "GALLERY_MOVE", "GALLERY_PLAY_TOGGLE", "GALLERY_DELETE"}
         -> "GALLERY"
    [] k \in ImageValues -> IF u.ret THEN "MAIN" ELSE "SETTINGS_IMAGE"
    [] k \in GeneralValues \cup {"LOAD_STOCK_UI"} -> "SETTINGS_GENERAL"
    [] k \in AudioValues ->
         IF k = "AUDIO_SPEAKER_VOLUME" /\ u.screen = "GALLERY" THEN "GALLERY" ELSE "SETTINGS_AUDIO"
    [] k \in TimeValues \cup {"DATETIME"} -> "SETTINGS_DATETIME"
    [] k \in {"CAMERA_RESOLUTION", "PHOTO_FORMAT"} -> "SETTINGS_CAMERA"
    [] k = "DRIVE_MODE" -> IF u.ret THEN "MAIN" ELSE "SETTINGS_CAMERA"
    [] k \in EncodingValues -> "SETTINGS_ENCODING"
    [] k \in RecordingValues -> "SETTINGS_RECORDING"
    [] k \in {"WIFI_SCAN", "WIFI_CONNECT_SAVED", "WIFI_CONNECT_PASSWORD"} -> "WIFI_LIST"
    [] k \in {"WIFI_ON", "WIFI_OFF", "USB_ETHERNET"} -> "SETTINGS_NETWORK"
    [] k = "FIRMWARE_CHECK" -> "UPDATE_CONFIRM"
    [] OTHER -> u.screen
Completed(u, ok, listed) ==
  LET s == CompletedScreen(u, u.pending)
      v == [u EXCEPT !.pending = None, !.ret = @ /\ s # "MAIN"]
  IN IF ~ok THEN {[u EXCEPT !.pending = None]}
     ELSE IF s = u.screen THEN {v} ELSE Entered(v, s, listed)

Special == {"WIFI_SCAN", "WIFI_CONNECT_SAVED", "WIFI_CONNECT_PASSWORD", "WIFI_OFF", "WIFI_ON",
            "FIRMWARE_CHECK", "FIRMWARE_INSTALL"}
(* The mode and the resolution look at the status once more.               *)
Answer ==
  /\ ui.pending \notin Special \cup {None}
  /\ \E ok \in BOOLEAN :
       /\ ok /\ ui.pending \in {"CAPTURE_MODE", "CAMERA_RESOLUTION"} => status = "idle"
       /\ ui' \in Completed(ui, ok, wifi.listed)
       /\ seq' = IF ok /\ ui.pending = "SEQUENCE_START" THEN TRUE
                 ELSE IF ok /\ ui.pending = "SEQUENCE_CANCEL" THEN FALSE ELSE seq
  /\ UNCHANGED <<wifi, status>>

(* calf_ui_set_wifi_networks                                               *)
ScanAnswered ==
  /\ ui.pending = "WIFI_SCAN"
  /\ \/ ui' \in Completed(ui, FALSE, wifi.listed) /\ UNCHANGED wifi
     \/ \E n \in 0..Networks :
          /\ wifi' = [wifi EXCEPT !.listed = n, !.on = TRUE, !.sel = -1]
          /\ ui' \in Entered([ui EXCEPT !.pending = None], "WIFI_LIST", n)
  /\ UNCHANGED <<seq, status>>

(* A saved login that fails, or is not there, opens the keyboard           *)
(* (calf_ui_wifi_require_password).                                        *)
SavedAnswered ==
  /\ ui.pending = "WIFI_CONNECT_SAVED"
  /\ \/ ui' \in Completed(ui, TRUE, wifi.listed) /\ UNCHANGED wifi
     \/ /\ ui' \in Shown([ui EXCEPT !.pending = None], "WIFI_PASSWORD")
        /\ wifi' = ForgetPassword
  /\ UNCHANGED <<seq, status>>

(* A password that was taken is zeroed; one that was not stays for another *)
(* try.                                                                    *)
PasswordAnswered ==
  /\ ui.pending = "WIFI_CONNECT_PASSWORD"
  /\ \E ok \in BOOLEAN :
       /\ ui' \in Completed(ui, ok, wifi.listed)
       /\ wifi' = IF ok THEN ForgetPassword ELSE wifi
  /\ UNCHANGED <<seq, status>>

PowerAnswered ==
  /\ ui.pending \in {"WIFI_ON", "WIFI_OFF"}
  /\ \E ok \in BOOLEAN :
       /\ ui' \in Completed(ui, ok, wifi.listed)
       /\ wifi' = IF ~ok THEN wifi ELSE IF ui.pending = "WIFI_ON" THEN [wifi EXCEPT !.on = TRUE]
                  ELSE [wifi EXCEPT !.on = FALSE, !.listed = 0]
  /\ UNCHANGED <<seq, status>>

(* firmware_preflight looks at power, battery and activity, and finds a    *)
(* package that is valid and carries its identity; any of it may fail.     *)
CheckAnswered ==
  /\ ui.pending = "FIRMWARE_CHECK"
  /\ \/ status = "idle" /\ ui' \in Confirmed([ui EXCEPT !.pending = None], "UPDATE_CONFIRM")
     \/ ui' \in Completed(ui, FALSE, wifi.listed)
  /\ UNCHANGED <<wifi, seq, status>>

(* After the same preflight and a comparison of the digests the backend is *)
(* asked, which has no route for it (src/ngcd/src/api.c:1182) and refuses. *)
InstallAnswered ==
  /\ ui.pending = "FIRMWARE_INSTALL"
  /\ ui' \in Completed(ui, FALSE, wifi.listed)
  /\ UNCHANGED <<wifi, seq, status>>

(* calf_ui_set_status: what a poll of the backend brings.                  *)
StatusArrives ==
  /\ status' \in {"idle", "busy"} \ {status}
  /\ UNCHANGED <<ui, wifi, seq>>

(* The sequence ends by itself (TouchUi).                                  *)
SequenceEnds == seq /\ seq' = FALSE /\ UNCHANGED <<ui, wifi, status>>

(* The program starts again: after the stock UI, or after a crash.         *)
Restart ==
  /\ ui' = [screen |-> "MAIN", focus |-> 0, visible |-> FALSE, ret |-> FALSE, pending |-> None]
  /\ wifi' = [listed |-> 0, on |-> wifi.on, sel |-> -1, password |-> "empty"]
  /\ seq' = FALSE /\ status' = "busy"

AnyKeyPress == \E key \in Keys : KeyPress(key) \/ WifiListKey(key)
Input == AnyKeyPress \/ Tap \/ WifiListTap \/ WifiPassword
Loop == \/ Answer \/ ScanAnswered \/ SavedAnswered \/ PasswordAnswered \/ PowerAnswered
        \/ CheckAnswered \/ InstallAnswered \/ StatusArrives \/ SequenceEnds
Next ==
  /\ Input \/ Loop \/ Restart
  /\ moved' = (/\ ui'.screen = ui.screen /\ ui.screen \in DOMAIN Confirms
               /\ moved \/ ui'.focus # ui.focus)
Spec == Init /\ [][Next]_vars
-----------------------------------------------------------------------------
(* Nothing is left over from a screen that was left.  No file is deleted,    *)
(* no update installed, no Wi-Fi switched off and no stock session started   *)
(* by a key unless keys had moved the focus off CANCEL on that very screen:  *)
(* not by a focus left over from another screen, and not by two presses of   *)
(* one key.  And what was typed into the keyboard is gone once the keyboard  *)
(* is: by BACK, a touch, success, another list or network (ui_input.c:508,   *)
(* :160).                                                                   *)
NothingLeftOver ==
  [][/\ AnyKeyPress /\ Free /\ ui'.pending \in Destructive => moved
     /\ wifi'.password # "empty" => ui'.screen = "WIFI_PASSWORD"]_vars
=============================================================================
