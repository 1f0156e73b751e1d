------------------------------- MODULE Update -------------------------------
(***************************************************************************)
(* How the firmware replaces itself, and what of it depends on Wi-Fi.      *)
(*                                                                         *)
(* The parts are app_main and app_prepare_for_ota (esp/main/main.c), the   *)
(* Wi-Fi events (esp/main/wireless_controller.c), the update task          *)
(* (esp/main/ota.c) and the screens that start it, confirm the new image   *)
(* and enter Wi-Fi credentials (src/ui/ui_ota.c, ui_wireless.c,            *)
(* ui_keyboard.c, ui_modal.c).  The display learns of Wi-Fi through the    *)
(* bus only, which loses messages: before ui_init has subscribed, and when *)
(* queue_gui is full.                                                      *)
(*                                                                         *)
(* The bootloader is that of ESP-IDF with rollback: an image that starts   *)
(* for the first time is pending, and one that is still pending at the     *)
(* next reset is given up for the other slot.                              *)
(***************************************************************************)
EXTENDS Naturals, Sequences

CONSTANTS
  Slot,        \* the two OTA partitions
  Capacity,    \* the length of queue_gui
  MinUptime,   \* OTA_MIN_UPTIME_MS, in steps of the clock
  MaxFetches,  \* bound: tasks that ask for the available version at once
  MaxResets,   \* bound: resets that the firmware does not ask for
  MaxFaults    \* bound: tasks that cannot be created, confirmations that fail

ASSUME UpdateAssumption ==
  /\ \E s, t \in Slot : s # t /\ Slot = {s, t}
  /\ Capacity \in Nat \ {0}
  /\ MinUptime \in Nat
  /\ MaxFetches \in Nat /\ MaxResets \in Nat /\ MaxFaults \in Nat

VARIABLES
  image,      \* flash: the state of the image in each slot
  running,    \* the slot the device runs from
  credentials,\* flash: the Wi-Fi credentials
  booted,     \* the init calls of app_main that have returned
  services,   \* the tasks that run
  wifi,       \* the Wi-Fi station itself
  missed,     \* its last event reached no queue_gui
  gui,        \* queue_gui
  connected,  \* s_wifi_connected of the display
  uptime,     \* time since boot, counted up to MinUptime
  screen,     \* the screen that is loaded
  button,     \* the section of the OTA screen that is not hidden
  enabled,    \* the confirm button is not disabled
  timer,      \* s_refresh_timer exists
  fetching,   \* ota_fetch_version_task instances that run
  fields,     \* what is entered on the Wi-Fi screen
  ota,        \* the update task
  resets,     \* unasked resets so far
  faults      \* tasks not created and confirmations failed so far

flashVars == <<image, running, credentials>>
bootVars == <<booted, services>>
wifiVars == <<wifi, missed, gui, connected>>
otaScreenVars == <<button, enabled, timer, fetching>>
boundVars == <<resets, faults>>
vars == <<flashVars, bootVars, wifiVars, uptime, screen, otaScreenVars, fields, ota, boundVars>>

Other(s) == CHOOSE t \in Slot : t # s

\* The init calls of app_main that matter here, in its order.
Boot == <<"wifi", "load", "ui", "web", "scpi", "lvgl">>

\* app_prepare_for_ota stops the services in this order.
StopOrder == <<"load", "web", "scpi", "rssi", "lvgl">>

Status == {"connecting", "connected", "disconnected"}
Message == Status \cup {"other"}

\* Text in a field of the Wi-Fi screen: nothing, something that fits the
\* configuration of the driver, something too long for it.
Text == {"empty", "short", "long"}

Subscribed == booted >= 3
Ready == "lvgl" \in services
Pending == image[running] = "pending"

Fresh == [ssid |-> "short", password |-> "empty"]

\* The memory of the firmware after a reset.
RamInit ==
  /\ booted = 0 /\ services = {}
  /\ wifi = "off" /\ missed = FALSE /\ gui = <<>> /\ connected = FALSE
  /\ uptime = 0
  /\ screen = "main"
  /\ button = "update" /\ enabled = FALSE /\ timer = FALSE /\ fetching = 0
  /\ fields = Fresh
  /\ ota = "none"

\* A device that left the factory, or one that runs an update for the first time.
Init ==
  /\ \E s \in Slot :
       /\ running = s
       /\ \/ image = [t \in Slot |-> IF t = s THEN "valid" ELSE "none"]
          \/ image = [t \in Slot |-> IF t = s THEN "pending" ELSE "valid"]
  /\ credentials \in {"none", "saved"}
  /\ RamInit
  /\ resets = 0 /\ faults = 0

-----------------------------------------------------------------------------
(***************************************************************************)
(* Resets.  The bootloader marks a new image pending and gives up a        *)
(* pending one.                                                            *)
(***************************************************************************)
BootLoader(slot, img) ==
  CASE img[slot] = "new" ->
         /\ running' = slot
         /\ image' = [img EXCEPT ![slot] = "pending"]
    [] img[slot] = "pending" ->
         /\ running' = Other(slot)
         /\ image' = [img EXCEPT ![slot] = "none"]
    [] OTHER ->
         /\ running' = slot
         /\ image' = img

Restart(slot, img) ==
  /\ BootLoader(slot, img)
  /\ booted' = 0 /\ services' = {}
  /\ wifi' = "off" /\ missed' = FALSE /\ gui' = <<>> /\ connected' = FALSE
  /\ uptime' = 0
  /\ screen' = "main"
  /\ button' = "update" /\ enabled' = FALSE /\ timer' = FALSE /\ fetching' = 0
  /\ fields' = Fresh
  /\ ota' = "none"

\* Power fails, or a task panics, at any moment.
Reset ==
  /\ resets < MaxResets
  /\ Restart(running, image)
  /\ resets' = resets + 1
  /\ UNCHANGED <<credentials, faults>>

-----------------------------------------------------------------------------
(***************************************************************************)
(* app_main.                                                               *)
(***************************************************************************)
Starts(part) ==
  CASE part = "wifi" -> {"rssi"} [] part = "ui" -> {} [] OTHER -> {part}

\* The next init call returns.  wireless_init needs credentials.
BootStep ==
  /\ booted < Len(Boot)
  /\ Boot[booted + 1] = "wifi" => credentials # "none"
  /\ booted' = booted + 1
  /\ services' = services \cup Starts(Boot[booted + 1])
  /\ wifi' = IF Boot[booted + 1] = "wifi" THEN "starting" ELSE wifi
  /\ UNCHANGED <<flashVars, missed, gui, connected, uptime, screen, otaScreenVars, fields,
                 ota, boundVars>>

\* wireless_init without credentials stores the defaults and restarts.
StoreDefaults ==
  /\ booted < Len(Boot) /\ Boot[booted + 1] = "wifi"
  /\ credentials = "none"
  /\ credentials' = "default"
  /\ Restart(running, image)
  /\ UNCHANGED boundVars

Tick ==
  /\ uptime < MinUptime
  /\ uptime' = uptime + 1
  /\ UNCHANGED <<flashVars, bootVars, wifiVars, screen, otaScreenVars, fields, ota, boundVars>>

-----------------------------------------------------------------------------
(***************************************************************************)
(* Wi-Fi and the display's copy of it.                                     *)
(***************************************************************************)
\* app_bus_publish, for queue_gui: lost before ui_init and when it is full.
Reaches == Subscribed /\ Len(gui) < Capacity

Publish(m) ==
  /\ gui' = IF Reaches THEN Append(gui, m) ELSE gui
  /\ missed' = IF m \in Status THEN ~Reaches ELSE missed

\* wifi_event_handler.  The station starts, the connection succeeds or fails,
\* and may end; nothing calls esp_wifi_connect a second time.
WifiEvent(from, to, status) ==
  /\ wifi \in from
  /\ wifi' = to
  /\ Publish(status)
  /\ UNCHANGED <<flashVars, bootVars, connected, uptime, screen, otaScreenVars, fields, ota,
                 boundVars>>

StationStart == WifiEvent({"starting"}, "connecting", "connecting")
StationConnected == WifiEvent({"connecting"}, "up", "connected")
StationDisconnected == WifiEvent({"connecting", "up"}, "down", "disconnected")

\* rssi_task, the measurements of the controller, the commands of the clients.
Traffic ==
  /\ services \cap {"rssi", "load", "web", "scpi"} # {}
  /\ Publish("other")
  /\ UNCHANGED <<flashVars, bootVars, wifi, connected, uptime, screen, otaScreenVars, fields,
                 ota, boundVars>>

NoStatusAfter(k, q) == \A j \in 1 .. Len(q) : j > k => q[j] \notin Status

\* Mutant: any status but "disconnected" counts as connected.
ViewOfAny(known, q) ==
  \/ \E k \in 1 .. Len(q) : q[k] \in Status \ {"disconnected"} /\ NoStatusAfter(k, q)
  \/ known /\ NoStatusAfter(0, q)

\* The status that is known after the messages of q, oldest first.
View(known, q) ==
  \/ \E k \in 1 .. Len(q) : q[k] = "connected" /\ NoStatusAfter(k, q)
  \/ known /\ NoStatusAfter(0, q)

\* gui_queue_timer_cb empties the queue.
Drain ==
  /\ Ready
  /\ gui # <<>>
  /\ connected' = View(connected, gui)
  /\ gui' = <<>>
  /\ UNCHANGED <<flashVars, bootVars, wifi, missed, uptime, screen, otaScreenVars, fields,
                 ota, boundVars>>

-----------------------------------------------------------------------------
(***************************************************************************)
(* The screens.  lv_scr_load unloads one screen and loads another; the OTA *)
(* screen refreshes itself by a timer that lives while it is loaded, and   *)
(* asks for the available version in a task of its own.  All of it runs on *)
(* the LVGL task.                                                          *)
(***************************************************************************)
Min(a, b) == IF a < b THEN a ELSE b

\* ota_confirm_allowed
Allowed == uptime >= MinUptime /\ connected

\* Mutant: the update section is shown whatever the state of the image.
SectionAlways(state) == "update"

\* ota_screen_refresh: the section that is shown, and its confirm button.
Section(state) == IF state = "pending" THEN "confirm" ELSE "update"

Refresh ==
  /\ button' = Section(image[running])
  /\ enabled' = IF Pending THEN Allowed ELSE enabled

\* ota_screen_loaded_cb; the result of xTaskCreate is not looked at.
Loaded ==
  /\ Refresh
  /\ timer' = TRUE
  /\ fetching' = Min(fetching + 1, MaxFetches)

\* Mutant: the timer is left behind.
UnloadedKeeping == UNCHANGED <<timer, button, enabled, fetching>>

\* ota_screen_unloaded_cb
Unloaded ==
  /\ timer' = FALSE
  /\ UNCHANGED <<button, enabled, fetching>>

Elsewhere == UNCHANGED <<flashVars, bootVars, wifiVars, uptime, resets>>

\* A screen other than the OTA screen opens another one like it.
Navigate(from, to) ==
  /\ Ready /\ screen = from
  /\ screen' = to
  /\ fields' = IF to = "wireless" THEN Fresh ELSE fields
  /\ Elsewhere /\ UNCHANGED <<otaScreenVars, ota, faults>>

OpenOta(from) ==
  /\ Ready /\ screen = from
  /\ screen' = "ota"
  /\ Loaded
  /\ Elsewhere /\ UNCHANGED <<fields, ota, faults>>

OtaBack ==
  /\ Ready /\ screen = "ota"
  /\ screen' = "settings"
  /\ Unloaded
  /\ Elsewhere /\ UNCHANGED <<fields, ota, faults>>

\* ota_refresh_timer_cb
RefreshTimer ==
  /\ Ready /\ timer
  /\ Refresh
  /\ Elsewhere /\ UNCHANGED <<screen, timer, fetching, fields, ota, faults>>

\* ota_fetch_version_task ends, with a version or without.
FetchDone ==
  /\ fetching > 0
  /\ fetching' = fetching - 1
  /\ Elsewhere /\ UNCHANGED <<screen, button, enabled, timer, fields, ota, faults>>

\* ui_event_ota_update_github_pages and ota_go.  The dialogue cannot be
\* dismissed, also when the task could not be created.
PressUpdate ==
  /\ Ready /\ screen = "ota" /\ button = "update"
  /\ ota = "none"
  /\ screen' = "updating"
  /\ Unloaded
  /\ \/ ota' = "stopping" /\ UNCHANGED faults
     \/ faults < MaxFaults /\ faults' = faults + 1 /\ UNCHANGED ota
  /\ Elsewhere /\ UNCHANGED fields

\* Mutant: the handler trusts the button.
PressConfirmByButton ==
  /\ Ready /\ screen = "ota" /\ button = "confirm" /\ enabled
  /\ image' = [image EXCEPT ![running] = "valid"]
  /\ screen' = "confirmed"
  /\ Unloaded
  /\ UNCHANGED <<running, credentials, bootVars, wifiVars, uptime, fields, ota, boundVars>>

\* ui_event_ota_confirm.  The button may be up to a second old, and the result of
\* esp_ota_mark_app_valid_cancel_rollback is not looked at.
PressConfirm ==
  /\ Ready /\ screen = "ota" /\ button = "confirm" /\ enabled
  /\ Allowed
  /\ \/ image' = [image EXCEPT ![running] = "valid"] /\ UNCHANGED faults
     \/ faults < MaxFaults /\ faults' = faults + 1 /\ UNCHANGED image
  /\ screen' = "confirmed"
  /\ Unloaded
  /\ UNCHANGED <<running, credentials, bootVars, wifiVars, uptime, fields, ota, resets>>

-----------------------------------------------------------------------------
(***************************************************************************)
(* Wi-Fi credentials: two fields that are edited on the keyboard screen.   *)
(***************************************************************************)
Field == {"ssid", "password"}
KeyboardFor == [ssid |-> "ssid keyboard", password |-> "password keyboard"]

\* keyboard_close(true) hands the text to the field and returns.
KeyboardOk(field) ==
  /\ Ready /\ screen = KeyboardFor[field]
  /\ \E text \in Text : fields' = [fields EXCEPT ![field] = text]
  /\ screen' = "wireless"
  /\ Elsewhere /\ UNCHANGED <<otaScreenVars, ota, faults>>

\* update_save_button_state
CanSave == \A f \in Field : fields[f] # "empty"

\* wireless_save_credentials accepts what fits the configuration.
Fits == \A f \in Field : fields[f] # "long"

SaveAndReboot ==
  /\ Ready /\ screen = "wireless" /\ CanSave /\ Fits
  /\ credentials' = "saved"
  /\ Restart(running, image)
  /\ UNCHANGED boundVars

\* What does not fit, and what the driver refuses, is dropped silently.
SaveRefused ==
  /\ CanSave
  /\ Navigate("wireless", "main")

-----------------------------------------------------------------------------
(***************************************************************************)
(* ota_task.                                                               *)
(***************************************************************************)
\* app_prepare_for_ota stops one service after the other.
StopNext ==
  /\ ota = "stopping"
  /\ \E k \in 1 .. Len(StopOrder) :
       /\ StopOrder[k] \in services
       /\ \A j \in 1 .. k - 1 : StopOrder[j] \notin services
       /\ services' = services \ {StopOrder[k]}
  /\ UNCHANGED <<flashVars, booted, wifiVars, uptime, screen, otaScreenVars, fields, ota,
                 boundVars>>

\* esp_https_ota_begin and the first block: the other slot is erased.
Erase ==
  /\ ota = "stopping" /\ services = {}
  /\ image' = [image EXCEPT ![Other(running)] = "none"]
  /\ ota' = "writing"
  /\ UNCHANGED <<running, credentials, bootVars, wifiVars, uptime, screen, otaScreenVars,
                 fields, boundVars>>

\* Mutant: a download that fails is tried again, without end.
AbortAsRetry ==
  /\ ota = "writing"
  /\ ota' = "stopping"
  /\ UNCHANGED <<flashVars, bootVars, wifiVars, uptime, screen, otaScreenVars, fields,
                 boundVars>>

\* Mutant: the slot to boot from is set before the download is checked.
AbortBootingOther ==
  /\ services = {}
  /\ ota \in {"stopping", "writing"}
  /\ Restart(Other(running), image)
  /\ UNCHANGED <<credentials, boundVars>>

\* The download fails at its start or later: ESP_ERROR_CHECK aborts.
Abort ==
  /\ services = {}
  /\ ota \in {"stopping", "writing"}
  /\ Restart(running, image)
  /\ UNCHANGED <<credentials, boundVars>>

Finish ==
  /\ ota = "writing"
  /\ Restart(Other(running), [image EXCEPT ![Other(running)] = "new"])
  /\ UNCHANGED <<credentials, boundVars>>

-----------------------------------------------------------------------------
OtaTask == StopNext \/ Erase \/ Abort \/ Finish

Screens ==
  \/ Navigate("main", "settings") \/ Navigate("settings", "main")
  \/ Navigate("main", "wireless") \/ Navigate("settings", "wireless")
  \/ Navigate("wireless", "main")
  \/ \E f \in Field :
       \/ Navigate("wireless", KeyboardFor[f])
       \/ KeyboardOk(f)
  \/ OpenOta("settings") \/ OpenOta("confirmed") \/ OtaBack
  \/ RefreshTimer \/ FetchDone
  \/ PressUpdate \/ PressConfirm
  \/ SaveAndReboot \/ SaveRefused

Next ==
  \/ Reset \/ BootStep \/ StoreDefaults \/ Tick
  \/ StationStart \/ StationConnected \/ StationDisconnected
  \/ Traffic \/ Drain
  \/ Screens
  \/ OtaTask

Spec == Init /\ [][Next]_vars

\* The scheduler runs every task that is ready; the downloads have timeouts.
FairSpec ==
  /\ Spec
  /\ WF_vars(BootStep) /\ WF_vars(StoreDefaults)
  /\ WF_vars(Drain) /\ WF_vars(RefreshTimer) /\ WF_vars(OtaTask)

-----------------------------------------------------------------------------
(***************************************************************************)
(* Properties.                                                             *)
(***************************************************************************)
Screen == {"main", "settings", "ota", "wireless", "updating", "confirmed"}
            \cup {KeyboardFor[f] : f \in Field}

\* Type: the state of main.c, wireless_controller.c, ota.c and the screens;
\* the refresh timer exists exactly while the OTA screen is loaded.
TypeOK ==
  /\ image \in [Slot -> {"none", "new", "pending", "valid"}]
  /\ running \in Slot
  /\ credentials \in {"none", "default", "saved"}
  /\ booted \in 0 .. Len(Boot) /\ services \subseteq {"rssi", "load", "web", "scpi", "lvgl"}
  /\ wifi \in {"off", "starting", "connecting", "up", "down"}
  /\ missed \in BOOLEAN /\ connected \in BOOLEAN
  /\ gui \in Seq(Message) /\ Len(gui) <= Capacity
  /\ uptime \in 0 .. MinUptime
  /\ screen \in Screen
  /\ button \in {"update", "confirm"} /\ enabled \in BOOLEAN
  /\ timer = (screen = "ota")
  /\ fetching \in 0 .. MaxFetches
  /\ fields \in [Field -> Text]
  /\ ota \in {"none", "stopping", "writing"}
  /\ resets \in 0 .. MaxResets /\ faults \in 0 .. MaxFaults

\* Whatever is interrupted or fails, and whenever power is lost, a slot with a
\* confirmed image is left, and the device never runs from an erased slot
\* (ota.c writes the slot it does not run from, ui_ota.c offers an update only
\* when the running image is confirmed).
FallbackKept ==
  /\ \E s \in Slot : image[s] = "valid"
  /\ image[running] \in {"pending", "valid"}

\* Unless the last Wi-Fi event was lost on its way to the display, the display's
\* flag and the messages that wait for it amount to the state of the station
\* (wifi_event_handler, gui_queue_timer_cb).
FlagFollowsWifi == ~missed => (View(connected, gui) <=> wifi = "up")

\* An image is confirmed only after the minimal uptime, and only while the
\* station is connected, unless the event that ended the connection was lost or
\* still waits in queue_gui (ota_confirm_allowed is asked again when the button
\* is pressed; ui_ota.c says "Confirm requires 3 minutes of uptime and a Wi-Fi
\* connection").
ConfirmedOnline ==
  [][Pending /\ running' = running /\ image'[running] = "valid" =>
       /\ uptime = MinUptime
       /\ wifi = "up" \/ missed \/ \E k \in 1 .. Len(gui) : gui[k] \in Status]_vars

(***************************************************************************)
(* What the update promises, module TwoSlots: which images there may be    *)
(* one after the other, and from which the device runs.                    *)
(***************************************************************************)
Slots == INSTANCE TwoSlots WITH image <- image, running <- running

\* Boot, screens, update task and bootloader implement TwoSlots: among others,
\* only the slot that does not run is erased and only while the other is
\* confirmed, a new image starts only in a slot that was erased, and a
\* pending one is given up only for a confirmed one.
ImplementsTwoSlots == Slots!Spec

\* An update that has begun ends in a restart, with the new image or without
\* (ota_task: every way out of it restarts the device).
UpdateEnds == ota # "none" ~> booted = 0
=============================================================================
