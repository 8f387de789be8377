---------------------------- MODULE WifiManager ----------------------------
(***************************************************************************)
(* wifi_manager.cpp: init with its undo, deinit and set_channel, one       *)
(* ESP-IDF call at a time.  Every call of ESP-IDF may succeed (ok) or be   *)
(* refused, whatever the state.  The calls read by nobody (get_channel,    *)
(* get_station_mac, is_initialized) are not steps.                         *)
(*                                                                         *)
(* External, from how init and deinit use ESP-IDF: esp_wifi_init of a      *)
(* driver that is initialized does nothing and succeeds, esp_wifi_deinit   *)
(* of one that is started fails; a driver that starts is on channel 1.     *)
(***************************************************************************)
EXTENDS Integers

CONSTANTS
  Channels,   \* values of Config::channel tried
  MacKinds    \* station addresses tried, of "default", "valid", "invalid"

ASSUME WifiAssumption ==
  /\ Channels \subseteq 0 .. 255
  /\ MacKinds \subseteq {"default", "valid", "invalid"}

VARIABLES
  wifiStep,         \* the ESP-IDF call that is made next
  wifiConfig,       \* the argument of the last init
  wifiInitialized,  \* g_initialized
  gChannel,         \* g_config.channel
  wifiCall,         \* the function that was called last
  wifiResult,       \* what it returned
  flash,            \* NVS partition: readable, unusable or erased
  netif,            \* esp_netif_init has been called
  eventLoop,        \* the default event loop exists
  wifi,             \* the Wi-Fi driver: off, initialized or started
  radioChannel,     \* the channel the radio is on, 0 while it is off
  undoRefused       \* history: what is still running could not be stopped

callVars == <<wifiStep, wifiConfig, wifiCall, wifiResult>>
managerVars == <<wifiInitialized, gChannel>>
driverVars == <<wifi, radioChannel, undoRefused>>
wifiVars == <<callVars, managerVars, flash, netif, eventLoop, driverVars>>

DEFAULT_CHANNEL == 1
Off == "off"
Started == "started"

WifiConfigs == [channel : Channels, mac : MacKinds]

InitSteps == {"nvsInit", "nvsErase", "nvsInitAgain", "netif", "eventLoop",
              "wifiInit", "setStorage", "setMode", "setMac", "start",
              "setChannel", "setPowerSave"}
UndoSteps == {"undoStop", "undoDeinit"}
DeinitSteps == {"stop", "deinit"}

WifiTypeOK ==
  /\ wifiStep \in {"idle"} \cup InitSteps \cup UndoSteps \cup DeinitSteps
  /\ wifiConfig \in WifiConfigs
  /\ wifiInitialized \in BOOLEAN /\ gChannel \in 1 .. 13
  /\ wifiCall \in {"none", "init", "deinit", "set_channel"}
  /\ wifiResult \in {"none", "OK", "INVALID_ARG", "INVALID_STATE", "error"}
  /\ flash \in {"readable", "unusable", "erased"}
  /\ netif \in BOOLEAN /\ eventLoop \in BOOLEAN
  /\ wifi \in {Off, "inited", Started} /\ radioChannel \in 0 .. 13
  /\ undoRefused \in BOOLEAN

WifiInit ==
  /\ wifiStep = "idle" /\ wifiConfig \in WifiConfigs
  /\ wifiCall = "none" /\ wifiResult = "none"
  /\ wifiInitialized = FALSE /\ gChannel = DEFAULT_CHANNEL
  /\ flash \in {"readable", "unusable"}
  /\ netif = FALSE /\ eventLoop = FALSE
  /\ wifi = Off /\ radioChannel = 0 /\ undoRefused = FALSE
-----------------------------------------------------------------------------
(***************************************************************************)
(* init                                                                    *)
(***************************************************************************)
\* Fault: there is no upper limit.
IsPositiveChannel(channel) == channel \in 1 .. 255
IsValidChannel(channel) == channel \in 1 .. 13

IsValidConfiguration(config) ==
  IsValidChannel(config.channel) /\ config.mac # "invalid"

\* A call that returns before it touches anything.
ReturnAtOnce(call, result) ==
  /\ wifiStep' = "idle" /\ wifiCall' = call /\ wifiResult' = result
  /\ UNCHANGED <<managerVars, flash, netif, eventLoop, driverVars>>

BeginWifiInit(config) ==
  /\ wifiStep = "idle"
  /\ wifiConfig' = config
  /\ \/ wifiInitialized /\ ReturnAtOnce("init", "OK")
     \/ /\ ~wifiInitialized /\ ~IsValidConfiguration(config)
        /\ ReturnAtOnce("init", "INVALID_ARG")
     \/ /\ ~wifiInitialized /\ IsValidConfiguration(config)
        /\ wifiStep' = "nvsInit" /\ wifiCall' = "init" /\ wifiResult' = "none"
        /\ UNCHANGED <<managerVars, flash, netif, eventLoop, driverVars>>

\* One ESP-IDF call of init: on to the next one, or to what undoes the
\* calls before it, with the error as the result.
Step(here, ok, next, undo) ==
  /\ wifiStep = here
  /\ wifiStep' = IF ok THEN next ELSE undo
  /\ wifiResult' = IF ok THEN wifiResult ELSE "error"
  /\ UNCHANGED <<wifiConfig, wifiCall>>

Prepare(here, ok, next) ==
  /\ Step(here, ok, next, "idle")
  /\ UNCHANGED <<managerVars, driverVars>>

\* Fault: the partition is erased whatever the error.
EraseOnAnyError(ok) ==
  /\ wifiStep = "nvsInit"
  /\ wifiStep' = IF flash # "unusable" /\ ok THEN "netif" ELSE "nvsErase"
  /\ UNCHANGED <<wifiConfig, wifiCall, wifiResult, managerVars, driverVars,
                 flash, netif, eventLoop>>

\* Fault: an unusable partition is an error like any other.
NeverErase(ok) ==
  /\ Prepare("nvsInit", ok /\ flash # "unusable", "netif")
  /\ flash' = IF ok /\ flash = "erased" THEN "readable" ELSE flash
  /\ UNCHANGED <<netif, eventLoop>>

\* initNvs.  Unusable: no free pages, or written by a newer version.
NvsFlashInit(ok) ==
  /\ Prepare("nvsInit", ok, IF flash = "unusable" THEN "nvsErase" ELSE "netif")
  /\ flash' = IF ok /\ flash = "erased" THEN "readable" ELSE flash
  /\ UNCHANGED <<netif, eventLoop>>

NvsFlashErase(ok) ==
  /\ Prepare("nvsErase", ok, "nvsInitAgain")
  /\ flash' = IF ok THEN "erased" ELSE flash
  /\ UNCHANGED <<netif, eventLoop>>

NvsFlashInitAgain(ok) ==
  /\ Prepare("nvsInitAgain", ok, "netif")
  /\ flash' = IF ok THEN "readable" ELSE flash
  /\ UNCHANGED <<netif, eventLoop>>

\* These two are not undone; ESP_ERR_INVALID_STATE says they were done.
NetifInit(ok) ==
  /\ Prepare("netif", ok, "eventLoop")
  /\ netif' = (netif \/ ok)
  /\ UNCHANGED <<flash, eventLoop>>

EventLoopCreate(ok) ==
  /\ Prepare("eventLoop", ok, "wifiInit")
  /\ eventLoop' = (eventLoop \/ ok)
  /\ UNCHANGED <<flash, netif>>

EspWifiInit(ok) ==
  /\ Step("wifiInit", ok, "setStorage", "idle")
  /\ wifi' = IF ok /\ wifi = Off THEN "inited" ELSE wifi
  /\ UNCHANGED <<managerVars, flash, netif, eventLoop, radioChannel,
                 undoRefused>>

SetStorageModeMac(ok) ==
  /\ \/ Step("setStorage", ok, "setMode", "undoDeinit")
     \/ Step("setMode", ok, IF wifiConfig.mac = "default" THEN "start"
                            ELSE "setMac", "undoDeinit")
     \/ Step("setMac", ok, "start", "undoDeinit")
  /\ UNCHANGED <<managerVars, flash, netif, eventLoop, driverVars>>

EspWifiStart(ok) ==
  /\ Step("start", ok, "setChannel", "undoDeinit")
  /\ wifi' = IF ok THEN Started ELSE wifi
  /\ radioChannel' = IF ok /\ wifi # Started THEN DEFAULT_CHANNEL
                     ELSE radioChannel
  /\ UNCHANGED <<managerVars, flash, netif, eventLoop, undoRefused>>

\* Fault: cleanupAfterFailedInit(false) once Wi-Fi runs.
SetChannelWithoutStop(ok) ==
  /\ Step("setChannel", ok, "setPowerSave", "undoDeinit")
  /\ radioChannel' = IF ok THEN wifiConfig.channel ELSE radioChannel
  /\ UNCHANGED <<managerVars, flash, netif, eventLoop, wifi, undoRefused>>

EspWifiSetChannel(ok) ==
  /\ Step("setChannel", ok, "setPowerSave", "undoStop")
  /\ radioChannel' = IF ok THEN wifiConfig.channel ELSE radioChannel
  /\ UNCHANGED <<managerVars, flash, netif, eventLoop, wifi, undoRefused>>

\* The last call of init, and g_config and g_initialized after it.
EspWifiSetPs(ok) ==
  /\ wifiStep = "setPowerSave"
  /\ \/ /\ ok
        /\ wifiStep' = "idle" /\ wifiResult' = "OK"
        /\ wifiInitialized' = TRUE /\ gChannel' = wifiConfig.channel
     \/ /\ ~ok
        /\ wifiStep' = "undoStop" /\ wifiResult' = "error"
        /\ UNCHANGED managerVars
  /\ UNCHANGED <<wifiConfig, wifiCall, flash, netif, eventLoop, driverVars>>
-----------------------------------------------------------------------------
(***************************************************************************)
(* cleanupAfterFailedInit and deinit                                       *)
(***************************************************************************)
EspWifiStop(ok) ==
  /\ wifi' = IF ok THEN "inited" ELSE wifi
  /\ radioChannel' = IF ok THEN 0 ELSE radioChannel
  /\ undoRefused' = (undoRefused \/ ~ok)

EspWifiDeinit(ok) ==
  /\ wifi' = IF ok /\ wifi # Started THEN Off ELSE wifi
  /\ undoRefused' = IF wifi' = Off THEN FALSE ELSE undoRefused \/ ~ok
  /\ UNCHANGED radioChannel

CleanupAfterFailedInit(ok) ==
  /\ \/ wifiStep = "undoStop" /\ wifiStep' = "undoDeinit" /\ EspWifiStop(ok)
     \/ wifiStep = "undoDeinit" /\ wifiStep' = "idle" /\ EspWifiDeinit(ok)
  /\ UNCHANGED <<wifiConfig, wifiCall, wifiResult, managerVars, flash, netif,
                 eventLoop>>

BeginWifiDeinit ==
  /\ wifiStep = "idle"
  /\ UNCHANGED wifiConfig
  /\ \/ ~wifiInitialized /\ ReturnAtOnce("deinit", "OK")
     \/ /\ wifiInitialized
        /\ wifiStep' = "stop" /\ wifiCall' = "deinit" /\ wifiResult' = "none"
        /\ UNCHANGED <<managerVars, flash, netif, eventLoop, driverVars>>

WifiDeinitStop(ok) ==
  /\ Step("stop", ok, "deinit", "deinit")
  /\ EspWifiStop(ok)
  /\ UNCHANGED <<managerVars, flash, netif, eventLoop>>

\* Fault: the result of esp_wifi_stop wins, good or bad.
DeinitForgets(ok) ==
  /\ wifiStep = "deinit" /\ wifiStep' = "idle"
  /\ EspWifiDeinit(ok)
  /\ wifiResult' = IF wifiResult = "error" THEN "error" ELSE "OK"
  /\ wifiInitialized' = FALSE /\ gChannel' = DEFAULT_CHANNEL
  /\ UNCHANGED <<wifiConfig, wifiCall, flash, netif, eventLoop>>

WifiDeinit(ok) ==
  /\ wifiStep = "deinit" /\ wifiStep' = "idle"
  /\ EspWifiDeinit(ok)
  /\ wifiResult' = IF wifiResult = "error" \/ wifi' # Off THEN "error" ELSE "OK"
  /\ wifiInitialized' = FALSE /\ gChannel' = DEFAULT_CHANNEL
  /\ UNCHANGED <<wifiConfig, wifiCall, flash, netif, eventLoop>>
-----------------------------------------------------------------------------
(***************************************************************************)
(* set_channel                                                             *)
(***************************************************************************)
\* Fault: the channel is remembered before the driver accepts it.
ChangeChannelEarly(channel, ok) ==
  /\ wifiStep = "idle" /\ wifiInitialized /\ IsValidChannel(channel)
  /\ wifiCall' = "set_channel"
  /\ wifiResult' = IF ok THEN "OK" ELSE "error"
  /\ gChannel' = channel
  /\ radioChannel' = IF ok THEN channel ELSE radioChannel
  /\ UNCHANGED <<wifiStep, wifiConfig, wifiInitialized, flash, netif,
                 eventLoop, wifi, undoRefused>>

ChangeChannel(channel, ok) ==
  /\ wifiStep = "idle" /\ wifiInitialized /\ IsValidChannel(channel)
  /\ wifiCall' = "set_channel"
  /\ wifiResult' = IF ok THEN "OK" ELSE "error"
  /\ gChannel' = IF ok THEN channel ELSE gChannel
  /\ radioChannel' = IF ok THEN channel ELSE radioChannel
  /\ UNCHANGED <<wifiStep, wifiConfig, wifiInitialized, flash, netif,
                 eventLoop, wifi, undoRefused>>

ChangeChannelRefused(channel) ==
  /\ wifiStep = "idle" /\ UNCHANGED wifiConfig
  /\ \/ ~wifiInitialized /\ ReturnAtOnce("set_channel", "INVALID_STATE")
     \/ /\ wifiInitialized /\ ~IsValidChannel(channel)
        /\ ReturnAtOnce("set_channel", "INVALID_ARG")
-----------------------------------------------------------------------------
\* An ESP-IDF call of init, its cleanup or deinit.
WifiCallMade(ok) ==
  \/ NvsFlashInit(ok) \/ NvsFlashErase(ok) \/ NvsFlashInitAgain(ok)
  \/ NetifInit(ok) \/ EventLoopCreate(ok) \/ EspWifiInit(ok)
  \/ SetStorageModeMac(ok) \/ EspWifiStart(ok) \/ EspWifiSetChannel(ok)
  \/ EspWifiSetPs(ok) \/ CleanupAfterFailedInit(ok)
  \/ WifiDeinitStop(ok) \/ WifiDeinit(ok)

WifiNext ==
  \/ \E config \in WifiConfigs : BeginWifiInit(config)
  \/ BeginWifiDeinit
  \/ \E channel \in Channels : ChangeChannelRefused(channel)
  \/ \E ok \in BOOLEAN :
       WifiCallMade(ok) \/ \E channel \in Channels : ChangeChannel(channel, ok)

WifiSpec == WifiInit /\ [][WifiNext]_wifiVars
-----------------------------------------------------------------------------
(***************************************************************************)
(* Properties                                                              *)
(***************************************************************************)

\* While the manager calls itself initialized the station runs, on top of
\* everything it needs, and get_channel tells the channel the radio is on,
\* after any sequence of calls and refusals; only deinit is on its way from
\* there.
InitializedMeansRunning ==
  wifiInitialized /\ wifiStep \notin DeinitSteps =>
    /\ wifi = Started /\ netif /\ eventLoop /\ flash = "readable"
    /\ wifiStep = "idle"
    /\ gChannel = radioChannel /\ IsValidChannel(gChannel)

\* An init that failed, at whichever call, and a deinit leave no driver
\* behind, started or not, unless ESP-IDF refused to stop it or take it down
\* (wifi_manager.cpp:54 ignores both results).
NothingLeftRunning ==
  wifiStep = "idle" /\ ~wifiInitialized => wifi = Off \/ undoRefused

\* The last step of a deinit that had something to do.
WifiRunningDeinitReturns == wifiStep = "deinit" /\ wifiStep' = "idle"

\* deinit of a running station returns OK exactly when the driver is gone,
\* although it carries on after the first error and reports only that.
DeinitTellsTheTruth ==
  [][WifiRunningDeinitReturns => (wifiResult' = "OK" <=> wifi' = Off)]_wifiVars

\* The NVS partition is erased only when it could not be read: an error of
\* another kind costs no data.
ReadableNvsIsKept == [][flash = "readable" => flash' = "readable"]_wifiVars

\* wifi_manager.h:26, "Wi-Fi este pornit pe canalul specificat in config.":
\* after an init that returned OK the radio is on the channel asked for.
InitSetsTheChannel ==
  wifiCall = "init" /\ wifiResult = "OK" => radioChannel = wifiConfig.channel
=============================================================================
