---------------------------- MODULE UpdateProofs ----------------------------
(***************************************************************************)
(* Proofs about Update: its types, that an image to fall back to is always *)
(* kept, that what the display knows of Wi-Fi is good enough to let an     *)
(* image be confirmed only while the device is online, and that flash      *)
(* changes as TwoSlots says.                                               *)
(***************************************************************************)
EXTENDS Update, TLAPS

ImageState == {"none", "new", "pending", "valid"}

\* The parts of TypeOK: flash, what boot and Wi-Fi change, the screens, and the
\* budgets of the bounds.
FlashTyped ==
  /\ image \in [Slot -> ImageState] /\ running \in Slot
  /\ credentials \in {"none", "default", "saved"}

DeviceTyped ==
  /\ booted \in 0 .. Len(Boot) /\ services \subseteq {"rssi", "load", "web", "scpi", "lvgl"}
  /\ wifi \in {"off", "starting", "connecting", "up", "down"}
  /\ missed \in BOOLEAN /\ connected \in BOOLEAN
  /\ gui \in Seq(Message) /\ Len(gui) <= Capacity
  /\ uptime \in 0 .. MinUptime

ScreenTyped ==
  /\ screen \in Screen
  /\ button \in {"update", "confirm"} /\ enabled \in BOOLEAN
  /\ timer = (screen = "ota")
  /\ fetching \in 0 .. MaxFetches
  /\ fields \in [Field -> Text]

BoundTyped ==
  /\ ota \in {"none", "stopping", "writing"}
  /\ resets \in 0 .. MaxResets /\ faults \in 0 .. MaxFaults

\* TypeOK is the conjunction of its parts.
LEMMA TypeParts == TypeOK <=> FlashTyped /\ DeviceTyped /\ ScreenTyped /\ BoundTyped
  BY DEF TypeOK, FlashTyped, DeviceTyped, ScreenTyped, BoundTyped, ImageState

-----------------------------------------------------------------------------
\* There are two slots.
LEMMA OtherSlot ==
  ASSUME NEW s \in Slot
  PROVE  Other(s) \in Slot /\ Other(s) # s /\ \A t \in Slot : t = s \/ t = Other(s)
<1>1. PICK a \in Slot, b \in Slot : a # b /\ Slot = {a, b}
  BY UpdateAssumption
<1>2. \E t \in Slot : t # s
  BY <1>1
<1> QED  BY <1>1, <1>2 DEF Other

\* The order of the init calls and the queue's messages, written out.
LEMMA BootCalls ==
  /\ Len(Boot) = 6
  /\ \A k \in 1 .. 6 : Boot[k] \in {"wifi", "load", "ui", "web", "scpi", "lvgl"}
  /\ \A k \in 1 .. 6 : Boot[k] = "wifi" => k = 1
  BY DEF Boot

\* Which screens there are, and that the keyboards are not the OTA screen.
LEMMA ScreenNames ==
  /\ {"main", "settings", "ota", "wireless", "updating", "confirmed"} \subseteq Screen
  /\ \A f \in Field : KeyboardFor[f] \in Screen /\ KeyboardFor[f] # "ota"
<1>1. \A f \in Field : KeyboardFor[f] # "ota"
  <2>1. KeyboardFor["ssid"] = "ssid keyboard" /\ KeyboardFor["password"] = "password keyboard"
    BY DEF KeyboardFor
  <2>2. "ssid keyboard" # "ota" /\ "password keyboard" # "ota"
    OBVIOUS
  <2> QED  BY <2>1, <2>2 DEF Field
<1> QED  BY <1>1 DEF Screen

\* What the Wi-Fi screen starts with.
LEMMA FreshTyped == Fresh \in [Field -> Text]
  BY DEF Fresh, Field, Text

\* A restart of the device into a slot leaves every variable in its type; the
\* budgets and the credentials are not its business.
LEMMA RestartTyped ==
  ASSUME NEW slot \in Slot, NEW img \in [Slot -> ImageState], Restart(slot, img)
  PROVE  /\ image' \in [Slot -> ImageState] /\ running' \in Slot
         /\ DeviceTyped' /\ ScreenTyped' /\ ota' = "none"
<1>1. image' \in [Slot -> ImageState] /\ running' \in Slot
  BY OtherSlot DEF Restart, BootLoader, ImageState
<1>2. DeviceTyped'
  <2>1. <<>> \in Seq(Message) /\ Len(<<>>) <= Capacity
    BY UpdateAssumption
  <2>2. 0 \in 0 .. Len(Boot) /\ 0 \in 0 .. MinUptime
    BY UpdateAssumption, BootCalls
  <2> QED  BY <2>1, <2>2 DEF Restart, DeviceTyped
<1>3. ScreenTyped'
  <2>1. 0 \in 0 .. MaxFetches
    BY UpdateAssumption
  <2> QED  BY <2>1, ScreenNames, FreshTyped DEF Restart, ScreenTyped
<1> QED  BY <1>1, <1>2, <1>3 DEF Restart

\* A publication keeps the queue and the flag in their types.
LEMMA PublishTyped ==
  ASSUME DeviceTyped, NEW m \in Message, Publish(m)
  PROVE  gui' \in Seq(Message) /\ Len(gui') <= Capacity /\ missed' \in BOOLEAN
<1>1. gui \in Seq(Message) /\ Len(gui) <= Capacity /\ missed \in BOOLEAN
  BY DEF DeviceTyped
<1>2. CASE Reaches
  <2>1. gui' = Append(gui, m) /\ Len(gui) < Capacity
    BY <1>2 DEF Publish, Reaches
  <2>2. gui' \in Seq(Message) /\ Len(gui') = Len(gui) + 1 /\ Len(gui) \in Nat
    BY <1>1, <2>1
  <2>3. missed' \in BOOLEAN
    BY <1>1, <1>2 DEF Publish
  <2> QED  BY <2>1, <2>2, <2>3, UpdateAssumption
<1>3. CASE ~Reaches
  BY <1>1, <1>3 DEF Publish
<1> QED  BY <1>2, <1>3

LEMMA InitTyped == Init => TypeOK
<1> SUFFICES ASSUME Init PROVE TypeOK
  OBVIOUS
<1>1. FlashTyped
  BY DEF Init, FlashTyped, ImageState
<1>2. DeviceTyped
  <2>1. <<>> \in Seq(Message) /\ Len(<<>>) <= Capacity
    BY UpdateAssumption
  <2>2. 0 \in 0 .. Len(Boot) /\ 0 \in 0 .. MinUptime
    BY UpdateAssumption, BootCalls
  <2> QED  BY <2>1, <2>2 DEF Init, RamInit, DeviceTyped
<1>3. ScreenTyped
  <2>1. 0 \in 0 .. MaxFetches
    BY UpdateAssumption
  <2> QED  BY <2>1, ScreenNames, FreshTyped DEF Init, RamInit, ScreenTyped
<1>4. BoundTyped
  BY UpdateAssumption DEF Init, RamInit, BoundTyped
<1> QED  BY <1>1, <1>2, <1>3, <1>4, TypeParts

-----------------------------------------------------------------------------
\* What the actions leave alone keeps its type.
LEMMA FlashFrame == FlashTyped /\ UNCHANGED flashVars => FlashTyped'
  BY DEF FlashTyped, flashVars

LEMMA DeviceFrame ==
  DeviceTyped /\ UNCHANGED <<bootVars, wifiVars, uptime>> => DeviceTyped'
  BY DEF DeviceTyped, bootVars, wifiVars

LEMMA ScreenFrame ==
  ScreenTyped /\ UNCHANGED <<screen, otaScreenVars, fields>> => ScreenTyped'
  BY DEF ScreenTyped, otaScreenVars

LEMMA BoundFrame == BoundTyped /\ UNCHANGED <<ota, boundVars>> => BoundTyped'
  BY DEF BoundTyped, boundVars

\* A restart into a slot, from a state whose types are right.
LEMMA RestartOk ==
  ASSUME TypeOK, NEW slot \in Slot, NEW img \in [Slot -> ImageState], Restart(slot, img),
         credentials' \in {"none", "default", "saved"},
         resets' \in 0 .. MaxResets, faults' \in 0 .. MaxFaults
  PROVE  TypeOK'
<1>1. FlashTyped'
  BY RestartTyped DEF FlashTyped
<1>2. DeviceTyped' /\ ScreenTyped' /\ BoundTyped'
  BY RestartTyped DEF BoundTyped
<1> QED  BY <1>1, <1>2 DEF TypeOK, FlashTyped, DeviceTyped, ScreenTyped, BoundTyped, ImageState

\* The resets.
LEMMA RestartsTyped ==
  ASSUME TypeOK, Reset \/ StoreDefaults \/ SaveAndReboot \/ Abort \/ Finish
  PROVE  TypeOK'
<1> USE DEF ImageState
<1>1. /\ image \in [Slot -> ImageState] /\ running \in Slot
      /\ credentials \in {"none", "default", "saved"}
      /\ resets \in 0 .. MaxResets /\ faults \in 0 .. MaxFaults
  BY DEF TypeOK
<1>2. CASE Reset
  <2>1. resets' \in 0 .. MaxResets
    BY <1>1, <1>2, UpdateAssumption DEF Reset
  <2> QED  BY <1>1, <1>2, <2>1, RestartOk DEF Reset
<1>3. CASE StoreDefaults
  BY <1>1, <1>3, RestartOk DEF StoreDefaults, boundVars
<1>4. CASE SaveAndReboot
  BY <1>1, <1>4, RestartOk DEF SaveAndReboot, boundVars
<1>5. CASE Abort
  BY <1>1, <1>5, RestartOk DEF Abort, boundVars
<1>6. CASE Finish
  <2>1. Other(running) \in Slot
    BY <1>1, OtherSlot
  <2>2. [image EXCEPT ![Other(running)] = "new"] \in [Slot -> ImageState]
    BY <1>1
  <2> QED  BY <1>1, <1>6, <2>1, <2>2, RestartOk DEF Finish, boundVars
<1> QED  BY <1>2, <1>3, <1>4, <1>5, <1>6

\* The steps of boot and of Wi-Fi, and the end of the services.
LEMMA DeviceStepTyped ==
  ASSUME TypeOK,
         BootStep \/ Tick \/ StationStart \/ StationConnected \/ StationDisconnected
           \/ Traffic \/ Drain \/ StopNext
  PROVE  TypeOK'
<1>1. FlashTyped /\ DeviceTyped /\ ScreenTyped /\ BoundTyped
  BY TypeParts
<1>2. FlashTyped'
  BY <1>1, FlashFrame DEF BootStep, Tick, StationStart, StationConnected, StationDisconnected,
     WifiEvent, Traffic, Drain, StopNext
<1>3. ScreenTyped'
  BY <1>1, ScreenFrame DEF BootStep, Tick, StationStart, StationConnected, StationDisconnected,
     WifiEvent, Traffic, Drain, StopNext
<1>4. BoundTyped'
  BY <1>1, BoundFrame DEF BootStep, Tick, StationStart, StationConnected, StationDisconnected,
     WifiEvent, Traffic, Drain, StopNext
<1>5. DeviceTyped'
  <2>1. CASE BootStep
    <3>1. booted + 1 \in 1 .. 6
      BY <1>1, <2>1, BootCalls DEF BootStep, DeviceTyped
    <3>2. Starts(Boot[booted + 1]) \subseteq {"rssi", "load", "web", "scpi", "lvgl"}
      BY <3>1, BootCalls DEF Starts
    <3>3. booted' \in 0 .. Len(Boot)
      BY <2>1, <3>1, BootCalls DEF BootStep
    <3>4. services' \subseteq {"rssi", "load", "web", "scpi", "lvgl"}
      BY <1>1, <2>1, <3>2 DEF BootStep, DeviceTyped
    <3>5. wifi' \in {"off", "starting", "connecting", "up", "down"}
      BY <1>1, <2>1 DEF BootStep, DeviceTyped
    <3> QED  BY <1>1, <2>1, <3>3, <3>4, <3>5 DEF BootStep, DeviceTyped
  <2>2. CASE Tick
    BY <1>1, <2>2, UpdateAssumption DEF Tick, DeviceTyped, bootVars, wifiVars
  <2>3. ASSUME NEW from, NEW to \in {"connecting", "up", "down"}, NEW status \in Status,
               WifiEvent(from, to, status)
        PROVE  DeviceTyped'
    <3>1. gui' \in Seq(Message) /\ Len(gui') <= Capacity /\ missed' \in BOOLEAN
      BY <1>1, <2>3, PublishTyped DEF WifiEvent, Message
    <3> QED  BY <1>1, <2>3, <3>1 DEF WifiEvent, DeviceTyped, bootVars
  <2>4. CASE StationStart \/ StationConnected \/ StationDisconnected
    BY <2>3, <2>4 DEF StationStart, StationConnected, StationDisconnected, Status
  <2>5. CASE Traffic
    <3>1. gui' \in Seq(Message) /\ Len(gui') <= Capacity /\ missed' \in BOOLEAN
      BY <1>1, <2>5, PublishTyped DEF Traffic, Message
    <3> QED  BY <1>1, <2>5, <3>1 DEF Traffic, DeviceTyped, bootVars
  <2>6. CASE Drain
    <3>1. connected' \in BOOLEAN
      <4>1. View(connected, gui) \in BOOLEAN
        BY DEF View
      <4> QED  BY <2>6, <4>1 DEF Drain
    <3>2. <<>> \in Seq(Message) /\ Len(<<>>) <= Capacity
      BY UpdateAssumption
    <3> QED  BY <1>1, <2>6, <3>1, <3>2 DEF Drain, DeviceTyped, bootVars
  <2>7. CASE StopNext
    BY <1>1, <2>7 DEF StopNext, DeviceTyped, wifiVars
  <2> QED  BY <2>1, <2>2, <2>4, <2>5, <2>6, <2>7
<1> QED  BY <1>2, <1>3, <1>4, <1>5 DEF TypeOK, FlashTyped, DeviceTyped, ScreenTyped, BoundTyped, ImageState

\* The screens leave the device alone.
LEMMA ElsewhereTyped ==
  ASSUME TypeOK, Elsewhere
  PROVE  FlashTyped' /\ DeviceTyped' /\ resets' \in 0 .. MaxResets
<1>1. FlashTyped /\ DeviceTyped /\ BoundTyped
  BY TypeParts
<1> QED  BY <1>1, FlashFrame, DeviceFrame DEF Elsewhere, BoundTyped

\* What a screen shows after a refresh, a load and an unload.
LEMMA RefreshTyped ==
  ASSUME ScreenTyped, connected \in BOOLEAN, Refresh
  PROVE  button' \in {"update", "confirm"} /\ enabled' \in BOOLEAN
<1>1. enabled \in BOOLEAN /\ Allowed \in BOOLEAN
  BY DEF ScreenTyped, Allowed
<1>2. enabled' \in BOOLEAN
  BY <1>1 DEF Refresh
<1>3. button' \in {"update", "confirm"}
  BY DEF Refresh, Section
<1> QED  BY <1>2, <1>3

LEMMA LoadedTyped ==
  ASSUME ScreenTyped, connected \in BOOLEAN, Loaded, screen' = "ota", UNCHANGED fields
  PROVE  ScreenTyped'
<1>1. button' \in {"update", "confirm"} /\ enabled' \in BOOLEAN
  BY RefreshTyped DEF Loaded
<1>2. fetching' \in 0 .. MaxFetches
  BY UpdateAssumption DEF Loaded, ScreenTyped, Min
<1>3. "ota" \in Screen
  BY ScreenNames
<1> QED  BY <1>1, <1>2, <1>3 DEF Loaded, ScreenTyped

LEMMA UnloadedTyped ==
  ASSUME ScreenTyped, Unloaded, screen' \in Screen, screen' # "ota", UNCHANGED fields
  PROVE  ScreenTyped'
  BY DEF ScreenTyped, Unloaded

\* A change of screens that does not concern the OTA screen.
LEMMA NavigateTyped ==
  ASSUME TypeOK, NEW from \in Screen, NEW to \in Screen, from # "ota", to # "ota",
         Navigate(from, to)
  PROVE  TypeOK'
<1>1. ScreenTyped /\ BoundTyped
  BY TypeParts
<1>2. FlashTyped' /\ DeviceTyped' /\ resets' \in 0 .. MaxResets
  BY ElsewhereTyped DEF Navigate
<1>3. ScreenTyped'
  BY <1>1, FreshTyped DEF Navigate, ScreenTyped, otaScreenVars
<1>4. BoundTyped'
  BY <1>1, <1>2 DEF Navigate, BoundTyped
<1> QED  BY <1>2, <1>3, <1>4 DEF TypeOK, FlashTyped, DeviceTyped, ScreenTyped, BoundTyped, ImageState

LEMMA ScreensTyped == ASSUME TypeOK, Screens PROVE TypeOK'
<1>1. FlashTyped /\ DeviceTyped /\ ScreenTyped /\ BoundTyped
  BY TypeParts
<1>2. connected \in BOOLEAN
  BY <1>1 DEF DeviceTyped
<1>3. ASSUME Elsewhere, ScreenTyped', ota' \in {"none", "stopping", "writing"},
             faults' \in 0 .. MaxFaults
      PROVE  TypeOK'
  <2>1. FlashTyped' /\ DeviceTyped' /\ BoundTyped'
    BY <1>3, ElsewhereTyped DEF BoundTyped
  <2> QED  BY <1>3, <2>1
           DEF TypeOK, FlashTyped, DeviceTyped, ScreenTyped, BoundTyped, ImageState
<1>4. ota \in {"none", "stopping", "writing"} /\ faults \in 0 .. MaxFaults
  BY <1>1 DEF BoundTyped
<1>5. CASE \/ Navigate("main", "settings") \/ Navigate("settings", "main")
           \/ Navigate("main", "wireless") \/ Navigate("settings", "wireless")
           \/ Navigate("wireless", "main") \/ SaveRefused
  BY <1>5, NavigateTyped, ScreenNames DEF SaveRefused
<1>6. ASSUME NEW f \in Field, Navigate("wireless", KeyboardFor[f])
      PROVE  TypeOK'
  BY <1>6, NavigateTyped, ScreenNames
<1>7. ASSUME NEW f \in Field, KeyboardOk(f)
      PROVE  TypeOK'
  <2>1. ScreenTyped'
    <3>1. fields' \in [Field -> Text]
      BY <1>1, <1>7 DEF KeyboardOk, ScreenTyped
    <3>2. screen # "ota" /\ screen' \in Screen /\ screen' # "ota"
      BY <1>7, ScreenNames DEF KeyboardOk
    <3> QED  BY <1>1, <1>7, <3>1, <3>2 DEF KeyboardOk, ScreenTyped, otaScreenVars
  <2> QED  BY <1>3, <1>4, <1>7, <2>1 DEF KeyboardOk
<1>8. CASE OpenOta("settings") \/ OpenOta("confirmed")
  BY <1>1, <1>2, <1>3, <1>4, <1>8, LoadedTyped DEF OpenOta
<1>9. CASE OtaBack
  BY <1>1, <1>3, <1>4, <1>9, UnloadedTyped, ScreenNames DEF OtaBack
<1>10. CASE RefreshTimer
  <2>1. button' \in {"update", "confirm"} /\ enabled' \in BOOLEAN
    BY <1>1, <1>2, <1>10, RefreshTyped DEF RefreshTimer
  <2>2. ScreenTyped'
    BY <1>1, <1>10, <2>1 DEF RefreshTimer, ScreenTyped
  <2> QED  BY <1>3, <1>4, <1>10, <2>2 DEF RefreshTimer
<1>11. CASE FetchDone
  <2>1. ScreenTyped'
    BY <1>1, <1>11, UpdateAssumption DEF FetchDone, ScreenTyped
  <2> QED  BY <1>3, <1>4, <1>11, <2>1 DEF FetchDone
<1>12. CASE PressUpdate
  <2>1. ScreenTyped'
    BY <1>1, <1>12, UnloadedTyped, ScreenNames DEF PressUpdate
  <2>2. ota' \in {"none", "stopping", "writing"} /\ faults' \in 0 .. MaxFaults
    BY <1>4, <1>12, UpdateAssumption DEF PressUpdate
  <2> QED  BY <1>3, <1>12, <2>1, <2>2 DEF PressUpdate
<1>13. CASE PressConfirm
  <2>1. FlashTyped'
    BY <1>1, <1>13 DEF PressConfirm, FlashTyped, ImageState
  <2>2. DeviceTyped'
    BY <1>1, <1>13, DeviceFrame DEF PressConfirm
  <2>3. ScreenTyped'
    BY <1>1, <1>13, UnloadedTyped, ScreenNames DEF PressConfirm
  <2>4. BoundTyped'
    BY <1>1, <1>13, UpdateAssumption DEF PressConfirm, BoundTyped
  <2> QED  BY <2>1, <2>2, <2>3, <2>4
           DEF TypeOK, FlashTyped, DeviceTyped, ScreenTyped, BoundTyped, ImageState
<1>14. CASE SaveAndReboot
  BY <1>14, RestartsTyped
<1> QED  BY <1>5, <1>6, <1>7, <1>8, <1>9, <1>10, <1>11, <1>12, <1>13, <1>14 DEF Screens

LEMMA EraseTyped == ASSUME TypeOK, Erase PROVE TypeOK'
<1>1. FlashTyped /\ DeviceTyped /\ ScreenTyped /\ BoundTyped
  BY TypeParts
<1>2. FlashTyped'
  BY <1>1, OtherSlot DEF Erase, FlashTyped, ImageState
<1>3. DeviceTyped' /\ ScreenTyped'
  BY <1>1, DeviceFrame, ScreenFrame DEF Erase
<1>4. BoundTyped'
  BY <1>1 DEF Erase, BoundTyped, boundVars
<1> QED  BY <1>2, <1>3, <1>4 DEF TypeOK, FlashTyped, DeviceTyped, ScreenTyped, BoundTyped, ImageState

LEMMA NextTyped == TypeOK /\ [Next]_vars => TypeOK'
<1> SUFFICES ASSUME TypeOK, [Next]_vars PROVE TypeOK'
  OBVIOUS
<1>1. CASE UNCHANGED vars
  <2>1. FlashTyped /\ DeviceTyped /\ ScreenTyped /\ BoundTyped
    BY TypeParts
  <2>2. FlashTyped' /\ DeviceTyped' /\ ScreenTyped' /\ BoundTyped'
    BY <1>1, <2>1, FlashFrame, DeviceFrame, ScreenFrame, BoundFrame DEF vars
  <2> QED  BY <2>2 DEF TypeOK, FlashTyped, DeviceTyped, ScreenTyped, BoundTyped, ImageState
<1>2. CASE Next
  BY <1>2, RestartsTyped, DeviceStepTyped, ScreensTyped, EraseTyped DEF Next, OtaTask
<1> QED  BY <1>1, <1>2

\* Every reachable state has the types of main.c, the wireless controller, the
\* OTA task and the screens, and the refresh timer of the OTA screen lives
\* exactly while that screen is loaded.
THEOREM UpdateTyped == Spec => []TypeOK
  BY InitTyped, NextTyped, PTL DEF Spec

-----------------------------------------------------------------------------
(***************************************************************************)
(* An image to fall back to.  FallbackKept alone is not inductive: that    *)
(* the image that runs is confirmed is asked when the screen is refreshed, *)
(* and relied on when the button is pressed and when the task erases and   *)
(* writes the other slot.                                                  *)
(***************************************************************************)
FallbackInv ==
  /\ FallbackKept
  /\ screen = "ota" /\ button = "update" => image[running] = "valid"
  /\ ota # "none" => image[running] = "valid"

LEMMA FallbackInit == Init => FallbackInv
<1> SUFFICES ASSUME Init PROVE FallbackInv
  OBVIOUS
<1>1. FallbackKept
  <2>1. PICK s \in Slot :
          /\ running = s
          /\ \/ image = [t \in Slot |-> IF t = s THEN "valid" ELSE "none"]
             \/ image = [t \in Slot |-> IF t = s THEN "pending" ELSE "valid"]
    BY DEF Init
  <2>2. Other(s) \in Slot /\ Other(s) # s
    BY OtherSlot
  <2>3. image[s] = "valid" \/ (image[s] = "pending" /\ image[Other(s)] = "valid")
    <3>1. CASE image = [t \in Slot |-> IF t = s THEN "valid" ELSE "none"]
      BY <3>1
    <3>2. CASE image = [t \in Slot |-> IF t = s THEN "pending" ELSE "valid"]
      BY <2>2, <3>2
    <3> QED  BY <2>1, <3>1, <3>2
  <2> QED  BY <2>1, <2>2, <2>3 DEF FallbackKept
<1> QED  BY <1>1 DEF Init, RamInit, FallbackInv

\* A restart of the running slot: the bootloader gives a pending image up only
\* for the other slot, and with a pending image that slot is the valid one.
LEMMA FallbackRestart ==
  ASSUME TypeOK, FallbackInv, Restart(running, image)
  PROVE  FallbackInv'
<1>1. image \in [Slot -> ImageState] /\ running \in Slot
  BY DEF TypeOK, ImageState
<1>2. CASE image[running] = "valid"
  <2>1. image' = image /\ running' = running
    BY <1>2 DEF Restart, BootLoader
  <2> QED  BY <1>1, <1>2, <2>1 DEF FallbackInv, FallbackKept, Restart
<1>3. CASE image[running] = "pending"
  <2>1. running' = Other(running) /\ image' = [image EXCEPT ![running] = "none"]
    BY <1>3 DEF Restart, BootLoader
  <2>2. image[Other(running)] = "valid"
    BY <1>1, <1>3, OtherSlot DEF FallbackInv, FallbackKept
  <2>3. image'[Other(running)] = "valid" /\ Other(running) \in Slot
    BY <1>1, <2>1, <2>2, OtherSlot
  <2> QED  BY <2>1, <2>3 DEF FallbackInv, FallbackKept, Restart
<1> QED  BY <1>2, <1>3 DEF FallbackInv, FallbackKept

\* Steps that leave the images alone: only the button that offers an update and
\* the update task have to be looked at.
LEMMA FallbackFrame ==
  ASSUME FallbackInv, UNCHANGED <<image, running>>,
         screen' = "ota" /\ button' = "update" => image[running] = "valid",
         ota' # "none" => image[running] = "valid"
  PROVE  FallbackInv'
  BY DEF FallbackInv, FallbackKept

LEMMA FallbackScreens == ASSUME TypeOK, FallbackInv, Screens PROVE FallbackInv'
<1>1. image[running] \in {"pending", "valid"}
  BY DEF FallbackInv, FallbackKept
<1>2. ASSUME Refresh PROVE button' = "update" => image[running] = "valid"
  BY <1>1, <1>2 DEF Refresh, Section
<1>3. ASSUME NEW from, NEW to, to # "ota", Navigate(from, to) PROVE FallbackInv'
  BY <1>3, FallbackFrame DEF Navigate, Elsewhere, flashVars, FallbackInv
<1>4. CASE \/ Navigate("main", "settings") \/ Navigate("settings", "main")
           \/ Navigate("main", "wireless") \/ Navigate("settings", "wireless")
           \/ Navigate("wireless", "main") \/ SaveRefused
  BY <1>3, <1>4 DEF SaveRefused
<1>5. ASSUME NEW f \in Field, Navigate("wireless", KeyboardFor[f]) PROVE FallbackInv'
  BY <1>3, <1>5, ScreenNames
<1>6. ASSUME NEW f \in Field, KeyboardOk(f) PROVE FallbackInv'
  BY <1>6, FallbackFrame DEF KeyboardOk, Elsewhere, flashVars, FallbackInv
<1>7. CASE OpenOta("settings") \/ OpenOta("confirmed")
  BY <1>2, <1>7, FallbackFrame DEF OpenOta, Loaded, Elsewhere, flashVars, FallbackInv
<1>8. CASE OtaBack
  BY <1>8, FallbackFrame DEF OtaBack, Elsewhere, flashVars, FallbackInv
<1>9. CASE RefreshTimer
  BY <1>2, <1>9, FallbackFrame DEF RefreshTimer, Elsewhere, flashVars, FallbackInv
<1>10. CASE FetchDone
  BY <1>10, FallbackFrame DEF FetchDone, Elsewhere, flashVars, FallbackInv
<1>11. CASE PressUpdate
  BY <1>11, FallbackFrame DEF PressUpdate, Elsewhere, flashVars, FallbackInv
<1>12. CASE PressConfirm
  <2>1. running \in Slot /\ image \in [Slot -> ImageState]
    BY DEF TypeOK, ImageState
  <2>2. CASE UNCHANGED image
    BY <1>12, <2>2, FallbackFrame DEF PressConfirm, FallbackInv
  <2>3. CASE image' = [image EXCEPT ![running] = "valid"]
    <3>1. image'[running] = "valid" /\ running' = running
      BY <1>12, <2>1, <2>3 DEF PressConfirm
    <3> QED  BY <2>1, <3>1 DEF FallbackInv, FallbackKept
  <2> QED  BY <1>12, <2>2, <2>3 DEF PressConfirm
<1>13. CASE SaveAndReboot
  BY <1>13, FallbackRestart DEF SaveAndReboot
<1> QED  BY <1>4, <1>5, <1>6, <1>7, <1>8, <1>9, <1>10, <1>11, <1>12, <1>13 DEF Screens

LEMMA FallbackTask == ASSUME TypeOK, FallbackInv, OtaTask PROVE FallbackInv'
<1>1. image \in [Slot -> ImageState] /\ running \in Slot
  BY DEF TypeOK, ImageState
<1>2. Other(running) \in Slot /\ Other(running) # running
  BY <1>1, OtherSlot
<1>3. CASE StopNext
  BY <1>3, FallbackFrame DEF StopNext, flashVars, otaScreenVars, FallbackInv
<1>4. CASE Erase
  <2>1. image[running] = "valid"
    BY <1>4 DEF Erase, FallbackInv
  <2>2. image'[running] = "valid" /\ running' = running
    BY <1>1, <1>2, <1>4, <2>1 DEF Erase
  <2> QED  BY <1>1, <2>2 DEF FallbackInv, FallbackKept
<1>5. CASE Abort
  BY <1>5, FallbackRestart DEF Abort
<1>6. CASE Finish
  <2>1. image[running] = "valid"
    BY <1>6 DEF Finish, FallbackInv
  <2> DEFINE img == [image EXCEPT ![Other(running)] = "new"]
  <2>2. img[Other(running)] = "new" /\ img[running] = "valid" /\ img \in [Slot -> ImageState]
    BY <1>1, <1>2, <2>1 DEF ImageState
  <2>3. Restart(Other(running), img)
    BY <1>6 DEF Finish
  <2> HIDE DEF img
  <2>4. running' = Other(running) /\ image' = [img EXCEPT ![Other(running)] = "pending"]
    BY <2>2, <2>3 DEF Restart, BootLoader
  <2>5. image'[running'] = "pending" /\ image'[running] = "valid"
    BY <1>1, <1>2, <2>2, <2>4
  <2>6. screen' = "main" /\ ota' = "none"
    BY <2>3 DEF Restart
  <2> QED  BY <1>1, <2>5, <2>6 DEF FallbackInv, FallbackKept
<1> QED  BY <1>3, <1>4, <1>5, <1>6 DEF OtaTask

LEMMA FallbackNext == TypeOK /\ FallbackInv /\ [Next]_vars => FallbackInv'
<1> SUFFICES ASSUME TypeOK, FallbackInv, [Next]_vars PROVE FallbackInv'
  OBVIOUS
<1>1. CASE UNCHANGED vars
  BY <1>1, FallbackFrame DEF vars, flashVars, otaScreenVars, FallbackInv
<1>2. CASE Reset \/ StoreDefaults
  BY <1>2, FallbackRestart DEF Reset, StoreDefaults
<1>3. CASE BootStep \/ Tick \/ Traffic \/ Drain
  BY <1>3, FallbackFrame
     DEF BootStep, Tick, Traffic, Drain, flashVars, otaScreenVars, FallbackInv
<1>4. CASE StationStart \/ StationConnected \/ StationDisconnected
  BY <1>4, FallbackFrame DEF StationStart, StationConnected, StationDisconnected, WifiEvent,
     flashVars, otaScreenVars, FallbackInv
<1> QED  BY <1>1, <1>2, <1>3, <1>4, FallbackScreens, FallbackTask DEF Next

\* Whatever is interrupted, refused or reset, and with any number of resets and
\* faults: a slot with a confirmed image is left and the device runs from an
\* image that is there (ota.c, ui_ota.c, the bootloader's rollback).
THEOREM UpdateFallback == Spec => []FallbackKept
<1>1. TypeOK /\ FallbackInv /\ [Next]_vars => TypeOK' /\ FallbackInv'
  BY NextTyped, FallbackNext
<1>2. FallbackInv => FallbackKept
  BY DEF FallbackInv
<1> QED  BY <1>1, <1>2, InitTyped, FallbackInit, PTL DEF Spec

-----------------------------------------------------------------------------
(***************************************************************************)
(* What the display knows of Wi-Fi.                                        *)
(***************************************************************************)
\* What a message at the end of the queue does to what will be known: a status
\* decides it, any other message does not matter.
LEMMA ViewOfStatus ==
  ASSUME NEW known, NEW q \in Seq(Message), NEW m \in Status
  PROVE  View(known, Append(q, m)) <=> m = "connected"
<1> DEFINE r == Append(q, m)
<1>1. /\ Len(q) \in Nat /\ Len(r) = Len(q) + 1 /\ r[Len(r)] = m
      /\ m \in Message
  BY DEF Message
<1>2. ~NoStatusAfter(0, r)
  BY <1>1 DEF NoStatusAfter
<1>3. \A k \in 1 .. Len(r) : NoStatusAfter(k, r) <=> k = Len(r)
  BY <1>1 DEF NoStatusAfter
<1> HIDE DEF r
<1>4. View(known, r) <=> r[Len(r)] = "connected"
  BY <1>1, <1>2, <1>3 DEF View
<1> QED  BY <1>1, <1>4 DEF r

LEMMA ViewOfOther ==
  ASSUME NEW known, NEW q \in Seq(Message)
  PROVE  View(known, Append(q, "other")) <=> View(known, q)
<1> DEFINE r == Append(q, "other")
<1>1. /\ Len(q) \in Nat /\ Len(r) = Len(q) + 1 /\ r[Len(r)] = "other"
      /\ \A k \in 1 .. Len(q) : r[k] = q[k]
      /\ "other" \notin Status
  BY DEF Message, Status
<1> HIDE DEF r
<1>2. \A k \in 0 .. Len(q) : NoStatusAfter(k, r) <=> NoStatusAfter(k, q)
  BY <1>1 DEF NoStatusAfter
<1>3. \A k \in 1 .. Len(r) : r[k] = "connected" <=> k \in 1 .. Len(q) /\ q[k] = "connected"
  BY <1>1
<1>4. View(known, r) <=> View(known, q)
  BY <1>1, <1>2, <1>3 DEF View
<1> QED  BY <1>4 DEF r

\* With nothing waiting, what is known is known.
LEMMA ViewOfNothing == ASSUME NEW known \in BOOLEAN PROVE View(known, <<>>) <=> known
  BY DEF View, NoStatusAfter

\* Wi-Fi starts once, with the first init call.
FlagInv ==
  /\ FlagFollowsWifi
  /\ booted = 0 => wifi = "off"

LEMMA FlagInit == Init => FlagInv
  BY ViewOfNothing DEF Init, RamInit, FlagInv, FlagFollowsWifi

LEMMA FlagFrame == FlagInv /\ UNCHANGED <<booted, wifiVars>> => FlagInv'
  BY DEF FlagInv, FlagFollowsWifi, wifiVars

LEMMA FlagRestart ==
  ASSUME NEW slot, NEW img, Restart(slot, img)
  PROVE  FlagInv'
  BY ViewOfNothing DEF Restart, FlagInv, FlagFollowsWifi

LEMMA FlagEvent ==
  ASSUME TypeOK, FlagInv, NEW from, "off" \notin from, NEW to, NEW status \in Status,
         (to = "up") <=> (status = "connected"), WifiEvent(from, to, status)
  PROVE  FlagInv'
<1>1. gui \in Seq(Message) /\ wifi' = to /\ booted' = booted /\ connected' = connected
  BY DEF TypeOK, WifiEvent, bootVars
<1>2. booted # 0
  BY DEF FlagInv, WifiEvent
<1>3. CASE Reaches
  <2>1. gui' = Append(gui, status)
    BY <1>3 DEF WifiEvent, Publish
  <2> QED  BY <1>1, <1>2, <2>1, ViewOfStatus DEF FlagInv, FlagFollowsWifi
<1>4. CASE ~Reaches
  <2>1. missed' = TRUE
    BY <1>4 DEF WifiEvent, Publish
  <2> QED  BY <1>1, <1>2, <2>1 DEF FlagInv, FlagFollowsWifi
<1> QED  BY <1>3, <1>4

LEMMA FlagNext == TypeOK /\ FlagInv /\ [Next]_vars => FlagInv'
<1> SUFFICES ASSUME TypeOK, FlagInv, [Next]_vars PROVE FlagInv'
  OBVIOUS
<1>1. CASE UNCHANGED vars
  BY <1>1, FlagFrame DEF vars, bootVars
<1>2. CASE Reset \/ StoreDefaults \/ SaveAndReboot \/ Abort \/ Finish
  BY <1>2, FlagRestart DEF Reset, StoreDefaults, SaveAndReboot, Abort, Finish
<1>3. CASE BootStep
  <2>1. booted \in 0 .. 6 /\ booted < 6
    BY <1>3, BootCalls DEF BootStep, TypeOK
  <2>2. Boot[booted + 1] = "wifi" => booted = 0
    BY <2>1, BootCalls
  <2>3. (wifi' = "up") <=> (wifi = "up")
    BY <1>3, <2>2 DEF BootStep, FlagInv
  <2>4. booted' # 0 /\ UNCHANGED <<missed, gui, connected>>
    BY <1>3, <2>1 DEF BootStep
  <2> QED  BY <2>3, <2>4 DEF FlagInv, FlagFollowsWifi
<1>4. CASE StationStart \/ StationConnected \/ StationDisconnected
  BY <1>4, FlagEvent DEF StationStart, StationConnected, StationDisconnected, Status
<1>5. CASE Traffic
  <2>1. gui \in Seq(Message) /\ UNCHANGED <<booted, wifi, connected>>
    BY <1>5 DEF TypeOK, Traffic, bootVars
  <2>2. missed' = missed /\ (gui' = Append(gui, "other") \/ gui' = gui)
    BY <1>5 DEF Traffic, Publish, Status
  <2>3. View(connected', gui') <=> View(connected, gui)
    <3>1. CASE gui' = gui
      BY <2>1, <3>1
    <3>2. CASE gui' = Append(gui, "other")
      BY <2>1, <3>2, ViewOfOther
    <3> QED  BY <2>2, <3>1, <3>2
  <2> QED  BY <2>1, <2>2, <2>3 DEF FlagInv, FlagFollowsWifi
<1>6. CASE Drain
  <2>1. View(connected, gui) \in BOOLEAN
    BY DEF View
  <2>2. View(connected', gui') <=> View(connected, gui)
    BY <1>6, <2>1, ViewOfNothing DEF Drain
  <2>3. UNCHANGED <<booted, wifi, missed>>
    BY <1>6 DEF Drain, bootVars
  <2> QED  BY <2>2, <2>3 DEF FlagInv, FlagFollowsWifi
<1>7. CASE Tick \/ PressConfirm \/ StopNext \/ Erase
  BY <1>7, FlagFrame DEF Tick, PressConfirm, StopNext, Erase, bootVars
<1>8. ASSUME Elsewhere PROVE FlagInv'
  BY <1>8, FlagFrame DEF Elsewhere, bootVars
<1>9. CASE Screens
  BY <1>2, <1>7, <1>8, <1>9 DEF Screens, Navigate, KeyboardOk, OpenOta, OtaBack, RefreshTimer,
     FetchDone, PressUpdate, SaveRefused
<1> QED  BY <1>1, <1>2, <1>3, <1>4, <1>5, <1>6, <1>7, <1>9 DEF Next, OtaTask

\* For every length of queue_gui: unless the last Wi-Fi event was lost, the
\* display's flag and the messages that wait for it amount to the state of the
\* station (wifi_event_handler, gui_queue_timer_cb).
THEOREM UpdateFlag == Spec => []FlagFollowsWifi
<1>1. TypeOK /\ FlagInv /\ [Next]_vars => TypeOK' /\ FlagInv'
  BY NextTyped, FlagNext
<1>2. FlagInv => FlagFollowsWifi
  BY DEF FlagInv
<1> QED  BY <1>1, <1>2, InitTyped, FlagInit, PTL DEF Spec

-----------------------------------------------------------------------------
(***************************************************************************)
(* Confirming a new image.                                                 *)
(***************************************************************************)
Confirms == Pending /\ running' = running /\ image'[running] = "valid"

\* A reset gives a pending image up, so it confirms none.
LEMMA RestartConfirmsNot ==
  ASSUME TypeOK, Restart(running, image)
  PROVE  ~Confirms
<1>1. running \in Slot /\ (Pending => running' = Other(running))
  BY DEF TypeOK, Restart, BootLoader, Pending
<1> QED  BY <1>1, OtherSlot DEF Confirms

\* Only the button confirms.
LEMMA OnlyTheButton ==
  ASSUME TypeOK, [Next]_vars, Confirms
  PROVE  PressConfirm
<1>1. running \in Slot /\ image \in [Slot -> ImageState]
  BY DEF TypeOK, ImageState
<1>2. image' # image
  BY DEF Confirms, Pending
<1>3. ~(Reset \/ StoreDefaults \/ SaveAndReboot \/ Abort)
  BY RestartConfirmsNot DEF Reset, StoreDefaults, SaveAndReboot, Abort
<1>4. ~Finish
  <2> DEFINE img == [image EXCEPT ![Other(running)] = "new"]
  <2>1. SUFFICES ASSUME Finish PROVE FALSE
    OBVIOUS
  <2>2. Other(running) \in Slot /\ Other(running) # running
    BY <1>1, OtherSlot
  <2>3. img[Other(running)] = "new"
    BY <1>1, <2>2
  <2>4. Restart(Other(running), img)
    BY <2>1 DEF Finish
  <2> HIDE DEF img
  <2>5. running' = Other(running)
    BY <2>3, <2>4 DEF Restart, BootLoader
  <2> QED  BY <2>2, <2>5 DEF Confirms
<1>5. ~Erase
  <2>1. SUFFICES ASSUME Erase PROVE FALSE
    OBVIOUS
  <2>2. image'[running] = image[running]
    BY <1>1, <2>1, OtherSlot DEF Erase
  <2> QED  BY <2>2 DEF Confirms, Pending
<1>6. ~(BootStep \/ Tick \/ StationStart \/ StationConnected \/ StationDisconnected
          \/ Traffic \/ Drain \/ StopNext \/ UNCHANGED vars)
  BY <1>2 DEF BootStep, Tick, StationStart, StationConnected, StationDisconnected, WifiEvent,
     Traffic, Drain, StopNext, vars, flashVars
<1>7. ~Elsewhere
  BY <1>2 DEF Elsewhere, flashVars
<1>8. Screens => PressConfirm
  BY <1>3, <1>7 DEF Screens, Navigate, KeyboardOk, OpenOta, OtaBack, RefreshTimer, FetchDone,
     PressUpdate, SaveRefused
<1> QED  BY <1>3, <1>4, <1>5, <1>6, <1>8 DEF Next, OtaTask

\* An image is confirmed only after the minimal uptime and while the station is
\* connected, unless the event that ended the connection was lost or waits in
\* queue_gui, for every length of that queue (ota_confirm_allowed,
\* ui_event_ota_confirm).
THEOREM UpdateConfirmedOnline == Spec => ConfirmedOnline
<1>1. TypeOK /\ FlagInv /\ [Next]_vars =>
        [Pending /\ running' = running /\ image'[running] = "valid" =>
           /\ uptime = MinUptime
           /\ wifi = "up" \/ missed \/ \E k \in 1 .. Len(gui) : gui[k] \in Status]_vars
  <2> SUFFICES ASSUME TypeOK, FlagInv, [Next]_vars, Confirms
               PROVE  /\ uptime = MinUptime
                      /\ wifi = "up" \/ missed \/ \E k \in 1 .. Len(gui) : gui[k] \in Status
    BY DEF Confirms
  <2>1. Allowed
    BY OnlyTheButton DEF PressConfirm
  <2>2. uptime = MinUptime
    BY <2>1, UpdateAssumption DEF Allowed, TypeOK
  <2>3. (\A k \in 1 .. Len(gui) : gui[k] \notin Status) => View(connected, gui)
    BY <2>1 DEF Allowed, View, NoStatusAfter
  <2>4. wifi = "up" \/ missed \/ \E k \in 1 .. Len(gui) : gui[k] \in Status
    BY <2>3 DEF FlagInv, FlagFollowsWifi
  <2> QED  BY <2>2, <2>4
<1>2. TypeOK /\ FlagInv /\ [Next]_vars => TypeOK' /\ FlagInv'
  BY NextTyped, FlagNext
<1> QED  BY <1>1, <1>2, InitTyped, FlagInit, PTL DEF Spec, ConfirmedOnline

-----------------------------------------------------------------------------
(***************************************************************************)
(* The images of TwoSlots.                                                 *)
(***************************************************************************)
\* What TwoSlots says is enough for FallbackKept.
THEOREM TwoSlotsFallback == Slots!Spec => []FallbackKept
<1> DEFINE Typed == image \in [Slot -> {"none", "pending", "valid"}] /\ running \in Slot
<1>1. Slots!Init => Typed /\ FallbackKept
  <2> SUFFICES ASSUME Slots!Init PROVE Typed /\ FallbackKept
    OBVIOUS
  <2>1. PICK s \in Slot :
          /\ running = s
          /\ \/ image = [t \in Slot |-> IF t = s THEN "valid" ELSE "none"]
             \/ image = [t \in Slot |-> IF t = s THEN "pending" ELSE "valid"]
    BY DEF Slots!Init
  <2>2. Other(s) \in Slot /\ Other(s) # s
    BY OtherSlot
  <2>3. CASE image = [t \in Slot |-> IF t = s THEN "valid" ELSE "none"]
    BY <2>1, <2>3 DEF FallbackKept
  <2>4. CASE image = [t \in Slot |-> IF t = s THEN "pending" ELSE "valid"]
    <3>1. image[Other(s)] = "valid" /\ image[s] = "pending"
      BY <2>2, <2>4
    <3> QED  BY <2>1, <2>2, <2>4, <3>1 DEF FallbackKept
  <2> QED  BY <2>1, <2>3, <2>4
<1>2. Typed /\ FallbackKept /\ [Slots!Next]_Slots!vars => Typed' /\ FallbackKept'
  <2> SUFFICES ASSUME Typed, FallbackKept, [Slots!Next]_Slots!vars
               PROVE  Typed' /\ FallbackKept'
    OBVIOUS
  <2>1. CASE Slots!Confirm
    <3>1. Typed' /\ running' = running /\ image'[running] = "valid"
      BY <2>1 DEF Slots!Confirm
    <3> QED  BY <3>1 DEF FallbackKept
  <2>2. ASSUME NEW t \in Slot \ {running}, Slots!Erase(t) PROVE Typed' /\ FallbackKept'
    <3>1. Typed' /\ running' = running /\ image'[running] = "valid"
      BY <2>2 DEF Slots!Erase
    <3> QED  BY <3>1 DEF FallbackKept
  <2>3. ASSUME NEW t \in Slot \ {running}, Slots!Install(t) PROVE Typed' /\ FallbackKept'
    <3>1. Typed' /\ running' = t /\ image'[t] = "pending" /\ image'[running] = "valid"
      BY <2>3 DEF Slots!Install
    <3> QED  BY <3>1 DEF FallbackKept
  <2>4. ASSUME NEW t \in Slot \ {running}, Slots!GiveUp(t) PROVE Typed' /\ FallbackKept'
    <3>1. Typed' /\ running' = t /\ image'[t] = "valid"
      BY <2>4 DEF Slots!GiveUp
    <3> QED  BY <3>1 DEF FallbackKept
  <2>5. CASE UNCHANGED Slots!vars
    BY <2>5 DEF Slots!vars, FallbackKept
  <2> QED  BY <2>1, <2>2, <2>3, <2>4, <2>5 DEF Slots!Next
<1>3. Typed /\ FallbackKept => FallbackKept
  OBVIOUS
<1> QED  BY <1>1, <1>2, PTL DEF Slots!Spec

\* FallbackInv, and that what is written was erased.
SlotsInv ==
  /\ FallbackInv
  /\ ota = "writing" => image[Other(running)] = "none"

\* A restart gives a pending image up, or leaves the images alone.
LEMMA RestartSlots ==
  ASSUME TypeOK, FallbackInv, Restart(running, image)
  PROVE  [Slots!Next]_Slots!vars /\ ota' = "none"
<1>1. image \in [Slot -> ImageState] /\ running \in Slot
  BY DEF TypeOK, ImageState
<1>2. Other(running) \in Slot \ {running}
  BY <1>1, OtherSlot
<1>3. CASE image[running] = "pending"
  <2>1. image[Other(running)] = "valid"
    BY <1>1, <1>3, OtherSlot DEF FallbackInv, FallbackKept
  <2>2. Slots!GiveUp(Other(running))
    BY <1>3, <2>1 DEF Restart, BootLoader, Slots!GiveUp
  <2> QED  BY <1>2, <2>2 DEF Slots!Next, Restart
<1>4. CASE image[running] = "valid"
  BY <1>4 DEF Restart, BootLoader, Slots!vars
<1> QED  BY <1>3, <1>4 DEF Restart, FallbackInv, FallbackKept

\* Every step is one of TwoSlots.
LEMMA StepSlots ==
  ASSUME TypeOK, SlotsInv, [Next]_vars
  PROVE  [Slots!Next]_Slots!vars /\ (ota' = "writing" => image'[Other(running')] = "none")
<1>1. image \in [Slot -> ImageState] /\ running \in Slot /\ FallbackInv
  BY DEF TypeOK, ImageState, SlotsInv
<1>2. Other(running) \in Slot \ {running}
  BY <1>1, OtherSlot
<1>3. ASSUME UNCHANGED <<image, running>>, ota' = ota \/ ota' # "writing"
      PROVE  [Slots!Next]_Slots!vars /\ (ota' = "writing" => image'[Other(running')] = "none")
  BY <1>3 DEF Slots!vars, SlotsInv
<1>4. CASE Reset \/ StoreDefaults \/ SaveAndReboot \/ Abort
  BY <1>1, <1>4, RestartSlots DEF Reset, StoreDefaults, SaveAndReboot, Abort
<1>5. CASE PressConfirm /\ image' # image
  <2>1. /\ image' = [image EXCEPT ![running] = "valid"] /\ running' = running /\ ota' = ota
    BY <1>5 DEF PressConfirm
  <2>2. image'[Other(running)] = image[Other(running)]
    BY <1>1, <1>2, <2>1
  <2>3. ota' = "writing" => image'[Other(running')] = "none"
    BY <2>1, <2>2 DEF SlotsInv
  <2>4. ASSUME image[running] = "pending" PROVE Slots!Confirm
    BY <2>1, <2>4 DEF Slots!Confirm
  <2>5. ASSUME image[running] = "valid" PROVE image' = image
    <3>1. [image EXCEPT ![running] = "valid"] = image
      BY <1>1, <2>5
    <3> QED  BY <2>1, <3>1
  <2>6. image[running] = "pending" \/ image[running] = "valid"
    BY <1>1 DEF FallbackInv, FallbackKept
  <2> QED  BY <2>1, <2>3, <2>4, <2>5, <2>6 DEF Slots!Next, Slots!vars
<1>6. CASE Erase
  <2>1. /\ image' = [image EXCEPT ![Other(running)] = "none"] /\ running' = running
        /\ image[running] = "valid"
    BY <1>1, <1>6 DEF Erase, FallbackInv
  <2>2. Slots!Erase(Other(running)) /\ image'[Other(running')] = "none"
    BY <1>1, <1>2, <2>1 DEF Slots!Erase
  <2> QED  BY <1>2, <2>2 DEF Slots!Next
<1>7. CASE Finish
  <2> DEFINE img == [image EXCEPT ![Other(running)] = "new"]
  <2>1. image[running] = "valid" /\ image[Other(running)] = "none"
    BY <1>1, <1>7 DEF Finish, FallbackInv, SlotsInv
  <2>2. img[Other(running)] = "new"
    BY <1>1, <1>2
  <2>3. Restart(Other(running), img)
    BY <1>7 DEF Finish
  <2>4. running' = Other(running) /\ image' = [img EXCEPT ![Other(running)] = "pending"]
    BY <2>2, <2>3 DEF Restart, BootLoader
  <2>5. image' = [image EXCEPT ![Other(running)] = "pending"]
    BY <1>1, <2>4
  <2>6. Slots!Install(Other(running)) /\ ota' = "none"
    BY <2>1, <2>3, <2>4, <2>5 DEF Slots!Install, Restart
  <2> QED  BY <1>2, <2>6 DEF Slots!Next
<1>8. CASE BootStep \/ Tick \/ Traffic \/ Drain \/ StopNext
  BY <1>3, <1>8 DEF BootStep, Tick, Traffic, Drain, StopNext, flashVars
<1>9. CASE StationStart \/ StationConnected \/ StationDisconnected
  BY <1>3, <1>9 DEF StationStart, StationConnected, StationDisconnected, WifiEvent, flashVars
<1>10. ASSUME Elsewhere, ota' = ota \/ ota' # "writing"
       PROVE  [Slots!Next]_Slots!vars /\ (ota' = "writing" => image'[Other(running')] = "none")
  BY <1>3, <1>10 DEF Elsewhere, flashVars
<1>11. CASE PressConfirm /\ UNCHANGED image
  BY <1>3, <1>11 DEF PressConfirm
<1>12. CASE Screens
  BY <1>4, <1>5, <1>10, <1>11, <1>12 DEF Screens, Navigate, KeyboardOk, OpenOta, OtaBack, RefreshTimer,
     FetchDone, PressUpdate, SaveRefused
<1>13. CASE UNCHANGED vars
  BY <1>3, <1>13 DEF vars, flashVars
<1> QED  BY <1>4, <1>6, <1>7, <1>8, <1>9, <1>12, <1>13 DEF Next, OtaTask

\* Boots, screens, updates and resets, however they are interrupted, change the
\* images in flash only as TwoSlots says (ota.c, ui_ota.c, the bootloader).
THEOREM UpdateImplementsTwoSlots == Spec => ImplementsTwoSlots
<1>1. Init => Slots!Init /\ SlotsInv
  BY FallbackInit DEF Init, RamInit, Slots!Init, SlotsInv
<1>2. TypeOK /\ SlotsInv /\ [Next]_vars => TypeOK' /\ SlotsInv' /\ [Slots!Next]_Slots!vars
  BY NextTyped, FallbackNext, StepSlots DEF SlotsInv
<1> QED  BY <1>1, <1>2, InitTyped, PTL DEF Spec, ImplementsTwoSlots, Slots!Spec
=============================================================================
