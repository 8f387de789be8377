-------------------------------- MODULE Boot --------------------------------
(***************************************************************************)
(* application::run before its main loop: the configuration is checked,    *)
(* CanManager::begin, the gateway, Wi-Fi, ESP-NOW and the peer follow, and *)
(* ESP_ERROR_CHECK aborts at the first failure.  An abort restarts the     *)
(* microcontroller (CONFIG_ESP_SYSTEM_PANIC_PRINT_REBOOT), and so may      *)
(* anything else at any time.  RAM is lost then and the radio goes off;    *)
(* the NVS partition and the MCP2515 stay as they are.                     *)
(*                                                                         *)
(* CanBegin and WifiManager are taken step by step.  The gateway's init    *)
(* cannot fail here (validate_config checked its table), and ESP-NOW's     *)
(* init is one step (EspNowDriver has its inside).                         *)
(***************************************************************************)
EXTENDS CanBegin, WifiManager

CONSTANT Trials   \* records of hardware, configuration and bounds to combine

ASSUME TrialsAssumption == \A t \in Trials :
  /\ t.settings \subseteq Settings /\ t.present \subseteq Presence
  /\ t.valid \subseteq BOOLEAN
  /\ {t.faults, t.refusals, t.crashes} \subseteq Nat

VARIABLES
  appStep,      \* what run does next
  validConfig,  \* the rest of what validate_config checks holds
  gatewayReady, \* esp_now_can_gateway: g_initialized
  espNowReady,  \* esp_now_driver: g_initialized
  peerKnown,    \* TXU01 has been added
  refusalsLeft, \* bound: ESP-IDF calls that can still fail
  crashesLeft   \* bound: restarts for reasons of their own

appVars == <<appStep, validConfig, gatewayReady, espNowReady, peerKnown,
             refusalsLeft, crashesLeft>>
otherAppVars == <<validConfig, gatewayReady, espNowReady, peerKnown,
                  crashesLeft>>
bootVars == <<appVars, canBeginVars, wifiVars>>

AppSteps == {"validate", "can", "gateway", "wifi", "espNow", "peer",
             "running", "aborted"}

BootTypeOK ==
  /\ BeginTypeOK /\ WifiTypeOK
  /\ appStep \in AppSteps
  /\ {validConfig, gatewayReady, espNowReady, peerKnown} \subseteq BOOLEAN
  /\ {refusalsLeft, crashesLeft} \subseteq Nat

BootInit ==
  /\ BeginInit /\ PowerOn /\ WifiInit
  /\ \E t \in Trials :
       /\ setting \in t.settings /\ present \in t.present
       /\ wifiConfig \in t.configs /\ validConfig \in t.valid
       /\ faultsLeft = t.faults /\ refusalsLeft = t.refusals
       /\ crashesLeft = t.crashes
  /\ appStep = "validate"
  /\ gatewayReady = FALSE /\ espNowReady = FALSE /\ peerKnown = FALSE
-----------------------------------------------------------------------------
\* An ESP-IDF call that fails uses up one of the refusals.
Answered(ok) ==
  \/ ok /\ UNCHANGED refusalsLeft
  \/ ~ok /\ refusalsLeft > 0 /\ refusalsLeft' = refusalsLeft - 1

\* ESP_ERROR_CHECK
Check(ok, next) == appStep' = IF ok THEN next ELSE "aborted"

ValidateConfig ==
  /\ appStep = "validate"
  /\ Check(validConfig /\ IsValidChannel(wifiConfig.channel), "can")
  /\ canStep' = IF appStep' = "can" THEN "bus" ELSE canStep
  /\ UNCHANGED <<otherAppVars, refusalsLeft, round, polls, spi, modeVars,
                 registerVars, fixedVars, faultsLeft, historyVars, wifiVars>>

BeginCan ==
  /\ appStep = "can" /\ canStep \in BeginSteps
  /\ \/ \E ok \in BOOLEAN :
          Answered(ok) /\ (SpiBusInitialize(ok) \/ SpiBusAddDevice(ok))
     \/ BeginStep /\ UNCHANGED refusalsLeft
  /\ UNCHANGED <<appStep, otherAppVars, wifiVars>>

\* Fault: the program goes on without CAN, as the log line of begin says.
CanDisabled ==
  /\ appStep = "can" /\ canStep \in {"up", "failed"}
  /\ appStep' = "gateway"
  /\ UNCHANGED <<otherAppVars, refusalsLeft, canBeginVars, wifiVars>>

CanBegun ==
  /\ appStep = "can" /\ canStep \in {"up", "failed"}
  /\ Check(canStep = "up", "gateway")
  /\ UNCHANGED <<otherAppVars, refusalsLeft, canBeginVars, wifiVars>>

InitializeGateway ==
  /\ appStep = "gateway" /\ appStep' = "wifi" /\ gatewayReady' = TRUE
  /\ UNCHANGED <<validConfig, espNowReady, peerKnown, crashesLeft,
                 refusalsLeft, canBeginVars, wifiVars>>

InitializeWifi ==
  /\ appStep = "wifi"
  /\ \/ wifiCall = "none" /\ BeginWifiInit(wifiConfig) /\ UNCHANGED refusalsLeft
     \/ \E ok \in BOOLEAN : Answered(ok) /\ WifiCallMade(ok)
  /\ UNCHANGED <<appStep, otherAppVars, canBeginVars>>

WifiInitialized ==
  /\ appStep = "wifi" /\ wifiStep = "idle" /\ wifiCall = "init"
  /\ Check(wifiResult = "OK", "espNow")
  /\ UNCHANGED <<otherAppVars, refusalsLeft, canBeginVars, wifiVars>>

\* esp_now_init and esp_now_add_peer refuse when Wi-Fi is not started.
InitializeEspNow(ok) ==
  /\ appStep = "espNow" /\ Answered(ok)
  /\ espNowReady' = (ok /\ wifi = Started)
  /\ Check(espNowReady', "peer")
  /\ UNCHANGED <<validConfig, gatewayReady, peerKnown, crashesLeft,
                 canBeginVars, wifiVars>>

InitializeTxu01Peer(ok) ==
  /\ appStep = "peer" /\ Answered(ok)
  /\ peerKnown' = (ok /\ wifi = Started)
  /\ Check(peerKnown', "running")
  /\ UNCHANGED <<validConfig, gatewayReady, espNowReady, crashesLeft,
                 canBeginVars, wifiVars>>

RunStep ==
  \/ ValidateConfig \/ BeginCan \/ CanBegun \/ InitializeGateway
  \/ InitializeWifi \/ WifiInitialized
  \/ \E ok \in BOOLEAN : InitializeEspNow(ok) \/ InitializeTxu01Peer(ok)
-----------------------------------------------------------------------------
\* The main loop may have requested frames that were not sent yet.
FramesLeftBehind ==
  leftover' \in IF appStep = "running" /\ IsThere
                THEN {leftover \cup b : b \in SUBSET Buffers} ELSE {leftover}

Restarted ==
  /\ appStep' = "validate"
  /\ gatewayReady' = FALSE /\ espNowReady' = FALSE /\ peerKnown' = FALSE
  /\ canStep' = "idle" /\ round' = 0 /\ polls' = 0 /\ spi' = {}
  /\ beginFaults' = 0 /\ cnfLost' = FALSE
  /\ wifiStep' = "idle" /\ wifiCall' = "none" /\ wifiResult' = "none"
  /\ wifiInitialized' = FALSE /\ gChannel' = DEFAULT_CHANNEL
  /\ netif' = FALSE /\ eventLoop' = FALSE
  /\ wifi' = Off /\ radioChannel' = 0 /\ undoRefused' = FALSE
  /\ FramesLeftBehind
  /\ UNCHANGED <<validConfig, refusalsLeft, fixedVars, modeVars, cnf,
                 faultsLeft, wifiConfig, flash>>

Reboot == appStep = "aborted" /\ Restarted /\ UNCHANGED crashesLeft

Crash == crashesLeft > 0 /\ crashesLeft' = crashesLeft - 1 /\ Restarted

BootNext == RunStep \/ Reboot \/ Crash

BootSpec == BootInit /\ [][BootNext]_bootVars

\* One task runs, and an abort restarts the chip by itself.
FairBootSpec == BootSpec /\ WF_bootVars(RunStep \/ Reboot)
-----------------------------------------------------------------------------
(***************************************************************************)
(* Properties                                                              *)
(***************************************************************************)

\* In the main loop everything it uses is up, on the channel configured, and
\* was brought up on hardware and a configuration that can work.
RunningMeansEverythingUp ==
  appStep = "running" =>
    /\ canStep = "up" /\ gatewayReady /\ espNowReady /\ peerKnown
    /\ wifiInitialized /\ wifi = Started /\ radioChannel = wifiConfig.channel
    /\ IsThere /\ IsSupported(setting) /\ validConfig

CanWork ==
  /\ IsThere /\ IsSupported(setting) /\ validConfig
  /\ IsValidConfiguration(wifiConfig)

\* With a controller on the bus, a setting it supports and a valid
\* configuration, the receiver comes up in the end and stays up, whatever
\* failed before, in whatever state its last life left the controller and
\* the NVS partition: no restart loop feeds itself.
BootCompletes == CanWork => <>[](appStep = "running")
=============================================================================
