----------------------------- MODULE BootProofs -----------------------------
(***************************************************************************)
(* The Wi-Fi manager, and the way to the main loop, for every set of       *)
(* channels and addresses, every setting, configuration and number of      *)
(* faults, refusals and restarts.  WifiInv says, for every place in init,  *)
(* its undo and deinit, what has been brought up by then; that is what the *)
(* error paths rely on.  BeginInv follows begin from transfer to transfer  *)
(* and says what one lost transfer can have done by then; AppInv follows   *)
(* run.                                                                    *)
(***************************************************************************)
EXTENDS Boot, TLAPS

-----------------------------------------------------------------------------
(***************************************************************************)
(* The Wi-Fi manager.                                                      *)
(***************************************************************************)
BeforeWifi == {"nvsInit", "nvsErase", "nvsInitAgain", "netif", "eventLoop",
               "wifiInit"}
AfterNvs == InitSteps \ {"nvsInit", "nvsErase", "nvsInitAgain"}
AfterNetif == AfterNvs \ {"netif"}
AfterEventLoop == AfterNetif \ {"eventLoop"}
Configuring == {"setStorage", "setMode", "setMac", "start"}
Running == {"setChannel", "setPowerSave"}

\* What init has done so far is there.
InitProgress ==
  /\ wifiStep \in InitSteps => IsValidConfiguration(wifiConfig)
  /\ wifiStep = "nvsErase" => flash = "unusable"
  /\ wifiStep \in AfterNvs => flash = "readable"
  /\ wifiStep \in AfterNetif => netif
  /\ wifiStep \in AfterEventLoop => eventLoop
  /\ wifiStep \in Configuring => wifi # Off /\ (wifi = Started => undoRefused)
  /\ wifiStep \in Running => wifi = Started
  /\ wifiStep = "setPowerSave" => radioChannel = wifiConfig.channel

\* What is still running is what has to be taken down, or was refused to be.
TakenDown ==
  /\ wifiStep = "undoStop" => wifi = Started
  /\ wifiStep = "undoDeinit" /\ wifi = Started => undoRefused
  /\ wifiStep \in BeforeWifi => wifi = Off \/ undoRefused
  /\ wifiStep = "stop" => wifi = Started /\ wifiResult = "none"
  /\ wifiStep = "deinit" =>
       /\ wifi # Off /\ (wifi = Started => undoRefused)
       /\ wifiResult = IF wifi = Started THEN "error" ELSE "none"

\* g_initialized is set outside init and its undo only.
FlagInPlace ==
  /\ wifiInitialized => wifiStep \in {"idle"} \cup DeinitSteps
  /\ wifiStep \in DeinitSteps => wifiInitialized

WifiInv ==
  /\ WifiTypeOK /\ InitProgress /\ TakenDown /\ FlagInPlace
  /\ InitializedMeansRunning /\ NothingLeftRunning
-----------------------------------------------------------------------------
\* Nothing runs when the firmware starts.
LEMMA InitWifiInv == WifiInit => WifiInv
  <1> USE DEF WifiInit, InitSteps, UndoSteps, DeinitSteps, Off, Started
  <1>1. ASSUME WifiInit PROVE WifiTypeOK
    <2>1. /\ wifiInitialized \in BOOLEAN /\ netif \in BOOLEAN
          /\ eventLoop \in BOOLEAN /\ undoRefused \in BOOLEAN
      BY <1>1, Zenon
    <2>2. gChannel \in 1 .. 13 /\ radioChannel \in 0 .. 13
      BY <1>1, SMT DEF DEFAULT_CHANNEL
    <2>3. QED  BY <1>1, <2>1, <2>2 DEF WifiTypeOK
  <1>2. WifiInit => InitProgress /\ TakenDown
    BY DEF InitProgress, TakenDown, BeforeWifi, AfterNvs, AfterNetif,
           AfterEventLoop, Configuring, Running
  <1>3. WifiInit =>
          FlagInPlace /\ InitializedMeansRunning /\ NothingLeftRunning
    BY DEF FlagInPlace, InitializedMeansRunning, NothingLeftRunning
  <1>4. QED  BY <1>1, <1>2, <1>3 DEF WifiInv

\* init, up to the driver: nothing is running unless it could not be stopped.
LEMMA PrepareKeepsWifiInv ==
  ASSUME WifiInv, NEW ok \in BOOLEAN,
         \/ NvsFlashInit(ok) \/ NvsFlashErase(ok) \/ NvsFlashInitAgain(ok)
         \/ NetifInit(ok) \/ EventLoopCreate(ok)
  PROVE  WifiInv'
  <1> USE DEF WifiInv, WifiTypeOK, InitProgress, TakenDown, FlagInPlace,
              InitializedMeansRunning, NothingLeftRunning, InitSteps,
              UndoSteps, DeinitSteps, BeforeWifi, AfterNvs, AfterNetif,
              AfterEventLoop, Configuring, Running, Off, Started, Prepare,
              Step, managerVars, driverVars, IsValidConfiguration
  <1>1. CASE NvsFlashInit(ok)
    BY <1>1 DEF NvsFlashInit
  <1>2. CASE NvsFlashErase(ok)
    BY <1>2 DEF NvsFlashErase
  <1>3. CASE NvsFlashInitAgain(ok)
    BY <1>3 DEF NvsFlashInitAgain
  <1>4. CASE NetifInit(ok)
    BY <1>4 DEF NetifInit
  <1>5. CASE EventLoopCreate(ok)
    BY <1>5 DEF EventLoopCreate
  <1>6. QED  BY <1>1, <1>2, <1>3, <1>4, <1>5

\* init, with the driver: each failure goes where what runs is taken down.
LEMMA ConfigureKeepsWifiInv ==
  ASSUME WifiInv, NEW ok \in BOOLEAN,
         \/ EspWifiInit(ok) \/ SetStorageModeMac(ok) \/ EspWifiStart(ok)
         \/ EspWifiSetChannel(ok) \/ EspWifiSetPs(ok)
  PROVE  WifiInv'
  <1> USE DEF WifiInv, WifiTypeOK, InitProgress, TakenDown, FlagInPlace,
              InitializedMeansRunning, NothingLeftRunning, InitSteps,
              UndoSteps, DeinitSteps, BeforeWifi, AfterNvs, AfterNetif,
              AfterEventLoop, Configuring, Running, Off, Started,
              Step, managerVars, driverVars, IsValidConfiguration,
              IsValidChannel, DEFAULT_CHANNEL
  <1>1. CASE EspWifiInit(ok)
    BY <1>1 DEF EspWifiInit
  <1>2. CASE SetStorageModeMac(ok)
    BY <1>2 DEF SetStorageModeMac
  <1>3. CASE EspWifiStart(ok)
    BY <1>3 DEF EspWifiStart
  <1>4. CASE EspWifiSetChannel(ok)
    BY <1>4 DEF EspWifiSetChannel
  <1>5. CASE EspWifiSetPs(ok)
    <2>1. WifiTypeOK'
      BY <1>5 DEF EspWifiSetPs
    <2>2. InitProgress' /\ FlagInPlace'
      BY <1>5 DEF EspWifiSetPs
    <2>3. TakenDown'
      BY <1>5 DEF EspWifiSetPs
    <2>4. InitializedMeansRunning' /\ NothingLeftRunning'
      BY <1>5 DEF EspWifiSetPs
    <2>5. QED  BY <2>1, <2>2, <2>3, <2>4
  <1>6. QED  BY <1>1, <1>2, <1>3, <1>4, <1>5

\* The undo of init, and deinit: a driver that stays was refused to go.
LEMMA TakeDownKeepsWifiInv ==
  ASSUME WifiInv, NEW ok \in BOOLEAN,
         CleanupAfterFailedInit(ok) \/ WifiDeinitStop(ok) \/ WifiDeinit(ok)
  PROVE  WifiInv'
  <1> USE DEF WifiInv, WifiTypeOK, InitProgress, TakenDown, FlagInPlace,
              InitializedMeansRunning, NothingLeftRunning, InitSteps,
              UndoSteps, DeinitSteps, BeforeWifi, AfterNvs, AfterNetif,
              AfterEventLoop, Configuring, Running, Off, Started, Step,
              managerVars, EspWifiStop, EspWifiDeinit, DEFAULT_CHANNEL
  <1>1. CASE CleanupAfterFailedInit(ok)
    <2>1. WifiTypeOK'
      <3>1. undoRefused' \in BOOLEAN
        BY <1>1, Zenon DEF CleanupAfterFailedInit
      <3>2. /\ wifiInitialized' \in BOOLEAN /\ netif' \in BOOLEAN
            /\ eventLoop' \in BOOLEAN
        BY <1>1, Zenon DEF CleanupAfterFailedInit
      <3>3. wifi' \in {Off, "inited", Started}
        BY <1>1 DEF CleanupAfterFailedInit
      <3>4. gChannel' \in 1 .. 13 /\ radioChannel' \in 0 .. 13
        <4>1. radioChannel' \in {0, radioChannel} /\ gChannel' = gChannel
          BY <1>1 DEF CleanupAfterFailedInit
        <4>2. gChannel \in 1 .. 13 /\ radioChannel \in 0 .. 13
          BY Zenon
        <4>3. QED  BY <4>1, <4>2
      <3>5. /\ wifiStep' \in {"idle", "undoDeinit"}
            /\ wifiResult' \in {"none", "OK", "INVALID_ARG", "INVALID_STATE",
                                "error"}
            /\ UNCHANGED <<wifiConfig, wifiCall, flash>>
        BY <1>1 DEF CleanupAfterFailedInit
      <3>6. QED  BY <3>1, <3>2, <3>3, <3>4, <3>5
    <2>2. InitProgress' /\ FlagInPlace'
      BY <1>1 DEF CleanupAfterFailedInit
    <2>3. TakenDown'
      BY <1>1 DEF CleanupAfterFailedInit
    <2>4. InitializedMeansRunning' /\ NothingLeftRunning'
      BY <1>1 DEF CleanupAfterFailedInit
    <2>5. QED  BY <2>1, <2>2, <2>3, <2>4
  <1>2. CASE WifiDeinitStop(ok)
    <2>1. WifiTypeOK'
      BY <1>2 DEF WifiDeinitStop
    <2>2. InitProgress' /\ FlagInPlace'
      BY <1>2 DEF WifiDeinitStop
    <2>3. TakenDown'
      BY <1>2 DEF WifiDeinitStop
    <2>4. InitializedMeansRunning' /\ NothingLeftRunning'
      BY <1>2 DEF WifiDeinitStop
    <2>5. QED  BY <2>1, <2>2, <2>3, <2>4
  <1>3. CASE WifiDeinit(ok)
    <2>1. WifiTypeOK'
      <3>1. undoRefused' \in BOOLEAN
        BY <1>3, Zenon DEF WifiDeinit
      <3>2. /\ wifiInitialized' \in BOOLEAN /\ netif' \in BOOLEAN
            /\ eventLoop' \in BOOLEAN
        BY <1>3, Zenon DEF WifiDeinit
      <3>3. wifi' \in {Off, "inited", Started}
        BY <1>3 DEF WifiDeinit
      <3>4. gChannel' \in 1 .. 13 /\ radioChannel' \in 0 .. 13
        BY <1>3 DEF WifiDeinit
      <3>5. /\ wifiStep' \in {"idle", "undoDeinit"}
            /\ wifiResult' \in {"none", "OK", "INVALID_ARG", "INVALID_STATE",
                                "error"}
            /\ UNCHANGED <<wifiConfig, wifiCall, flash>>
        BY <1>3 DEF WifiDeinit
      <3>6. QED  BY <3>1, <3>2, <3>3, <3>4, <3>5
    <2>2. InitProgress' /\ FlagInPlace'
      BY <1>3 DEF WifiDeinit
    <2>3. TakenDown'
      BY <1>3 DEF WifiDeinit
    <2>4. InitializedMeansRunning' /\ NothingLeftRunning'
      BY <1>3 DEF WifiDeinit
    <2>5. QED  BY <2>1, <2>2, <2>3, <2>4
  <1>4. QED  BY <1>1, <1>2, <1>3

\* The calls that begin, and those that return at once.
LEMMA CallsKeepWifiInv ==
  ASSUME WifiInv,
         \/ \E config \in WifiConfigs : BeginWifiInit(config)
         \/ BeginWifiDeinit
         \/ \E channel \in Channels : ChangeChannelRefused(channel)
         \/ \E channel \in Channels, ok \in BOOLEAN : ChangeChannel(channel, ok)
  PROVE  WifiInv'
  <1> USE DEF WifiInv, WifiTypeOK, InitProgress, TakenDown, FlagInPlace,
              InitializedMeansRunning, NothingLeftRunning, InitSteps,
              UndoSteps, DeinitSteps, BeforeWifi, AfterNvs, AfterNetif,
              AfterEventLoop, Configuring, Running, Off, Started,
              managerVars, driverVars, ReturnAtOnce, IsValidChannel
  <1>1. ASSUME NEW config \in WifiConfigs, BeginWifiInit(config)
        PROVE  WifiInv'
    BY <1>1 DEF BeginWifiInit
  <1>2. CASE BeginWifiDeinit
    BY <1>2 DEF BeginWifiDeinit
  <1>3. ASSUME NEW channel \in Channels, ChangeChannelRefused(channel)
        PROVE  WifiInv'
    BY <1>3 DEF ChangeChannelRefused
  <1>4. ASSUME NEW channel \in Channels, NEW ok \in BOOLEAN,
               ChangeChannel(channel, ok)
        PROVE  WifiInv'
    BY <1>4 DEF ChangeChannel
  <1>5. QED  BY <1>1, <1>2, <1>3, <1>4

\* Every step of the manager keeps the invariant.
LEMMA NextWifiInv == WifiInv /\ [WifiNext]_wifiVars => WifiInv'
  <1> SUFFICES ASSUME WifiInv, [WifiNext]_wifiVars PROVE WifiInv'
    OBVIOUS
  <1>1. ASSUME NEW ok \in BOOLEAN, WifiCallMade(ok) PROVE WifiInv'
    BY <1>1, PrepareKeepsWifiInv, ConfigureKeepsWifiInv, TakeDownKeepsWifiInv
    DEF WifiCallMade
  <1>2. CASE UNCHANGED wifiVars
    BY <1>2
    DEF wifiVars, callVars, managerVars, driverVars, WifiInv, WifiTypeOK,
        InitProgress, TakenDown, FlagInPlace, InitializedMeansRunning,
        NothingLeftRunning, IsValidConfiguration, IsValidChannel
  <1>3. QED  BY <1>1, <1>2, CallsKeepWifiInv DEF WifiNext
-----------------------------------------------------------------------------
\* So it holds throughout.
LEMMA WifiInvAlways == WifiSpec => []WifiInv
  BY InitWifiInv, NextWifiInv, PTL DEF WifiSpec

\* The variables keep their types; a channel is one of the thirteen.
THEOREM WifiTypeCorrect == WifiSpec => []WifiTypeOK
  <1>1. WifiInv => WifiTypeOK  BY DEF WifiInv
  <1>2. QED  BY <1>1, WifiInvAlways, PTL

\* is_initialized and get_channel tell the truth about the radio.
THEOREM InitializedIsRunning == WifiSpec => []InitializedMeansRunning
  <1>1. WifiInv => InitializedMeansRunning  BY DEF WifiInv
  <1>2. QED  BY <1>1, WifiInvAlways, PTL

\* Whatever call of init fails, its undo takes down what is up.
THEOREM FailedInitLeavesNothing == WifiSpec => []NothingLeftRunning
  <1>1. WifiInv => NothingLeftRunning  BY DEF WifiInv
  <1>2. QED  BY <1>1, WifiInvAlways, PTL

\* Only initNvs changes the partition, and it erases none it can read.
LEMMA NvsStep ==
  ASSUME WifiInv, [WifiNext]_wifiVars, flash = "readable"
  PROVE  flash' = "readable"
  <1> USE DEF managerVars, driverVars, wifiVars, callVars, Prepare, Step
  <1>1. ASSUME NEW ok \in BOOLEAN, WifiCallMade(ok) PROVE flash' = "readable"
    <2>1. CASE NvsFlashErase(ok)
      BY <2>1 DEF NvsFlashErase, WifiInv, InitProgress
    <2>2. CASE NvsFlashInit(ok) \/ NvsFlashInitAgain(ok)
      BY <2>2 DEF NvsFlashInit, NvsFlashInitAgain
    <2>3. CASE NetifInit(ok) \/ EventLoopCreate(ok) \/ EspWifiInit(ok)
                 \/ SetStorageModeMac(ok)
      BY <2>3 DEF NetifInit, EventLoopCreate, EspWifiInit, SetStorageModeMac
    <2>4. CASE EspWifiStart(ok) \/ EspWifiSetChannel(ok) \/ EspWifiSetPs(ok)
      BY <2>4 DEF EspWifiStart, EspWifiSetChannel, EspWifiSetPs
    <2>5. CASE CleanupAfterFailedInit(ok) \/ WifiDeinitStop(ok)
                 \/ WifiDeinit(ok)
      BY <2>5 DEF CleanupAfterFailedInit, WifiDeinitStop, WifiDeinit
    <2>6. QED  BY <1>1, <2>1, <2>2, <2>3, <2>4, <2>5 DEF WifiCallMade
  <1>2. CASE UNCHANGED wifiVars
    BY <1>2
  <1>3. CASE \/ \E config \in WifiConfigs : BeginWifiInit(config)
             \/ BeginWifiDeinit
             \/ \E channel \in Channels : ChangeChannelRefused(channel)
             \/ \E channel \in Channels, ok \in BOOLEAN :
                  ChangeChannel(channel, ok)
    BY <1>3 DEF BeginWifiInit, BeginWifiDeinit, ChangeChannelRefused,
                ChangeChannel, ReturnAtOnce
  <1>4. QED  BY <1>1, <1>2, <1>3 DEF WifiNext

\* No error but the two that ask for it costs the NVS partition.
THEOREM NvsIsKept == WifiSpec => ReadableNvsIsKept
  <1>1. WifiInv /\ [WifiNext]_wifiVars
          => [flash = "readable" => flash' = "readable"]_wifiVars
    BY NvsStep
  <1>2. QED  BY <1>1, WifiInvAlways, PTL DEF WifiSpec, ReadableNvsIsKept

\* deinit goes on after an error of esp_wifi_stop and still reports it.
LEMMA DeinitStep ==
  ASSUME WifiInv, [WifiNext]_wifiVars, WifiRunningDeinitReturns
  PROVE  wifiResult' = "OK" <=> wifi' = Off
  <1> USE DEF WifiRunningDeinitReturns
  <1>1. ASSUME NEW ok \in BOOLEAN, WifiDeinit(ok)
        PROVE  wifiResult' = "OK" <=> wifi' = Off
    BY <1>1 DEF WifiDeinit, EspWifiDeinit, WifiInv, TakenDown, Off, Started
  <1>2. ASSUME NEW ok \in BOOLEAN, WifiCallMade(ok) PROVE WifiDeinit(ok)
    BY <1>2 DEF WifiCallMade, NvsFlashInit, NvsFlashErase, NvsFlashInitAgain,
                NetifInit, EventLoopCreate, EspWifiInit, SetStorageModeMac,
                EspWifiStart, EspWifiSetChannel, EspWifiSetPs, Prepare, Step,
                CleanupAfterFailedInit, WifiDeinitStop
  <1>3. QED
    BY <1>1, <1>2 DEF WifiNext, BeginWifiInit, BeginWifiDeinit, wifiVars,
      callVars, ChangeChannelRefused, ChangeChannel

\* A deinit that returned OK took the driver down; one that did not, did not.
THEOREM DeinitIsTruthful == WifiSpec => DeinitTellsTheTruth
  <1>1. WifiInv /\ [WifiNext]_wifiVars
          => [WifiRunningDeinitReturns
                => (wifiResult' = "OK" <=> wifi' = Off)]_wifiVars
    BY DeinitStep
  <1>2. QED  BY <1>1, WifiInvAlways, PTL DEF WifiSpec, DeinitTellsTheTruth
-----------------------------------------------------------------------------
(***************************************************************************)
(* The way to the main loop.                                               *)
(***************************************************************************)
RoundsInPlace ==
  /\ canStep \in {"idle", "up", "failed"} \cup BeginSteps
  /\ canStep = "clear" => round \in 0 .. 2
  /\ canStep \in {"request", "poll"} => round \in 1 .. NormalRound
  /\ canStep = "cnf" => round \in 1 .. 3
  /\ beginFaults \in Nat
  /\ canStep \in {"idle", "bus", "device", "reset"} => beginFaults = 0

\* Past the filters and the masks.
BitRateStage ==
  \/ canStep = "cnf"
  \/ canStep \in {"request", "poll"} /\ round = NormalRound

\* A failed read looks like the Normal mode, never like Config: to get past
\* the filters takes a controller that answers.
OnlyAController ==
  /\ (canStep = "up" \/ BitRateStage) => IsThere /\ IsSupported(setting)
  /\ canStep = "cnf" => opmod = "Config"
  /\ canStep = "request" /\ round = NormalRound => opmod = "Config"

\* A frame of another life survives the reset instruction or one of the
\* three writes of zeros only if two transfers are lost.
BuffersCleared ==
  /\ leftover \subseteq Buffers
  /\ IsThere /\ canStep = "clear" =>
       /\ beginFaults = 0 => leftover = {}
       /\ beginFaults = 1 => \A b \in leftover : b >= round
  /\ IsThere /\ canStep \in {"request", "poll", "cnf", "up"} =>
       (beginFaults <= 1 => leftover = {})

\* Where the Config mode was requested at least twice: by the reset and by
\* the first setMode.
ConfigRequested ==
  \/ canStep = "cnf"
  \/ canStep = "request" /\ round > 1
  \/ canStep = "poll" /\ round < NormalRound

ModeRequested ==
  /\ reqop \in {"Normal", "Config"}
  /\ IsThere /\ (canStep = "clear" \/ (canStep = "request" /\ round = 1)) =>
       (beginFaults = 0 => reqop = "Config")
  /\ IsThere /\ ConfigRequested => (beginFaults <= 1 => reqop = "Config")
  /\ canStep = "poll" /\ round = NormalRound =>
       \/ beginFaults > 1 \/ reqop = "Normal"
       \/ beginFaults = 1 /\ reqop = "Config" /\ opmod = "Config"
  /\ canStep = "up" => (beginFaults <= 1 => reqop = "Normal")

\* The registers written so far hold what the table says.
RegistersWritten ==
  /\ DOMAIN cnf = 1 .. 3 /\ setting \in Settings
  /\ ~cnfLost /\ canStep = "cnf" =>
       \A i \in 1 .. 3 : i < round => cnf[i] = CnfOf(setting)[i]
  /\ ~cnfLost /\ (canStep = "up" \/ (BitRateStage /\ canStep # "cnf")) =>
       \A i \in 1 .. 3 : cnf[i] = CnfOf(setting)[i]

BusGivenBack == canStep = "failed" => spi = {}

BeginInv ==
  /\ RoundsInPlace /\ OnlyAController /\ BuffersCleared /\ ModeRequested
  /\ RegistersWritten /\ BusGivenBack
-----------------------------------------------------------------------------
\* Inside wifi_manager::init: the result so far, and that of one that is
\* through.
InWifiInit ==
  /\ wifiStep \in {"idle"} \cup InitSteps \cup UndoSteps
  /\ wifiStep \in InitSteps => wifiResult = "none"
  /\ wifiStep \in UndoSteps => wifiResult = "error"
  /\ wifiStep = "idle" /\ wifiResult = "OK" =>
       wifiInitialized /\ gChannel = wifiConfig.channel

BeforeWifiInit == wifiStep = "idle" /\ wifiResult = "none" /\ ~wifiInitialized

AfterCan == {"gateway", "wifi", "espNow", "peer", "running"}
AfterWifi == {"espNow", "peer", "running"}

AppInv ==
  /\ appStep \in AppSteps
  /\ appStep = "validate" => canStep = "idle"
  /\ appStep \in {"validate", "can", "gateway"} =>
       BeforeWifiInit /\ wifiCall = "none"
  /\ appStep \in {"can"} \cup AfterCan => validConfig
  /\ appStep \in AfterCan => canStep = "up"
  /\ appStep \in AfterCan \ {"gateway"} => gatewayReady
  /\ appStep = "wifi" =>
       /\ wifiCall = "none" => BeforeWifiInit
       /\ wifiCall # "none" => InWifiInit
  /\ appStep \in AfterWifi =>
       wifiStep = "idle" /\ wifiInitialized /\ gChannel = wifiConfig.channel
  /\ appStep \in {"peer", "running"} => espNowReady
  /\ appStep = "running" => peerKnown

BootInv == BeginInv /\ AppInv /\ WifiInv
-----------------------------------------------------------------------------
\* A powered board: nothing was begun, and every task is still to come.
LEMMA InitBootInv == BootInit => BootInv
  <1> SUFFICES ASSUME BootInit PROVE BootInv
    OBVIOUS
  <1> USE DEF BootInit, BeginInit, PowerOn
  <1>1. RoundsInPlace /\ BuffersCleared /\ BusGivenBack
    BY DEF RoundsInPlace, BuffersCleared, BusGivenBack, BeginSteps
  <1>2. OnlyAController /\ ModeRequested
    BY DEF OnlyAController, ModeRequested, BitRateStage, ConfigRequested
  <1>3. RegistersWritten
    BY TrialsAssumption DEF RegistersWritten, BitRateStage
  <1>4. AppInv
    BY DEF AppInv, AppSteps, AfterCan, AfterWifi, BeforeWifiInit, WifiInit
  <1>5. QED
    BY <1>1, <1>2, <1>3, <1>4, InitWifiInv DEF BootInv, BeginInv

\* The two calls that take the bus.
LEMMA BusKeepsBeginInv ==
  ASSUME BeginInv, NEW ok \in BOOLEAN,
         SpiBusInitialize(ok) \/ SpiBusAddDevice(ok)
  PROVE  BeginInv'
  <1> USE DEF BeginInv, SpiBusInitialize, SpiBusAddDevice, modeVars,
              registerVars, fixedVars, historyVars
  <1>1. RoundsInPlace' /\ BuffersCleared' /\ BusGivenBack'
    BY DEF RoundsInPlace, BuffersCleared, BusGivenBack, BeginSteps, IsThere
  <1>2. OnlyAController' /\ ModeRequested'
    BY DEF OnlyAController, ModeRequested, BitRateStage, ConfigRequested,
           IsThere
  <1>3. RegistersWritten'
    BY DEF RegistersWritten, BitRateStage
  <1>4. QED  BY <1>1, <1>2, <1>3

\* reset up to its filters.
LEMMA ResetKeepsBeginInv ==
  ASSUME BeginInv, ResetController \/ ClearTransmitBuffer
  PROVE  BeginInv'
  <1> USE DEF BeginInv, ResetController, ClearTransmitBuffer, modeVars,
              registerVars, fixedVars, Transferred, Lost, IsThere
  <1>1. RoundsInPlace' /\ BusGivenBack'
    BY DEF RoundsInPlace, BusGivenBack, BeginSteps, NormalRound, ConfigRounds
  <1>2. BuffersCleared'
    <2> USE DEF BuffersCleared, RoundsInPlace, Buffers
    <2>1. CASE ResetController
      <3>1. /\ canStep' = "clear" /\ round' = 0
            /\ leftover' = {} \/ leftover' = leftover
            /\ present' = present
            /\ IsThere /\ leftover' # {} => beginFaults' = 1
        BY <2>1 DEF BeginSteps
      <3>2. leftover' \subseteq 0 .. 2
        BY <3>1
      <3>3. \A b \in leftover' : b >= 0
        BY ONLY <3>2
      <3>4. IsThere' <=> IsThere
        BY <3>1
      <3>5. QED  BY ONLY <3>1, <3>2, <3>3, <3>4 DEF BuffersCleared, Buffers
    <2>2. CASE ClearTransmitBuffer
      <3>1. /\ round \in 0 .. 2 /\ canStep = "clear" /\ present' = present
            /\ \/ round < 2 /\ canStep' = "clear" /\ round' = round + 1
               \/ round = 2 /\ canStep' = "request"
        BY <2>2
      <3>2. CASE Transferred
        <4>1. beginFaults' = beginFaults
          BY <3>2
        <4>2. /\ leftover' = IF IsThere THEN leftover \ {round} ELSE leftover
              /\ leftover \subseteq 0 .. 2
          BY <2>2, <3>1, <3>2
        <4>3. beginFaults = 1 /\ IsThere => \A b \in leftover : b >= round
          BY <3>1
        <4>4. beginFaults = 0 /\ IsThere => leftover = {}
          BY <3>1
        <4>5. beginFaults = 1 /\ IsThere =>
                \A b \in leftover' : b >= round + 1
          BY ONLY <3>1, <4>2, <4>3
        <4>6. IsThere' <=> IsThere
          BY <3>1
        <4>7. beginFaults \in Nat
          BY <3>1
        <4>8. beginFaults = 1 /\ IsThere /\ round = 2 => leftover' = {}
          BY ONLY <3>1, <4>2, <4>5
        <4>9. leftover' \subseteq 0 .. 2
          BY ONLY <4>2
        <4>10. beginFaults = 0 /\ IsThere => leftover' = {}
          BY ONLY <4>2, <4>4
        <4>11. QED
          BY ONLY <3>1, <4>1, <4>5, <4>6, <4>7, <4>8, <4>9, <4>10
          DEF BuffersCleared, Buffers
      <3>3. CASE Lost /\ UNCHANGED leftover
        BY <3>1, <3>3
      <3>4. QED  BY <2>2, <3>2, <3>3
    <2>3. QED  BY <2>1, <2>2
  <1>3. OnlyAController'
    BY DEF OnlyAController, BitRateStage, NormalRound, ConfigRounds
  <1>4. ModeRequested'
    BY DEF ModeRequested, RoundsInPlace, BeginSteps, ConfigRequested,
           NormalRound, ConfigRounds
  <1>5. RegistersWritten'
    BY DEF RegistersWritten, BitRateStage, NormalRound, ConfigRounds
  <1>6. QED  BY <1>1, <1>2, <1>3, <1>4, <1>5

\* A mode request names the round it belongs to, and writes no register of the
\* bit timing.
LEMMA RequestKeepsBeginInv ==
  ASSUME BeginInv, RequestMode
  PROVE  BeginInv'
  <1> USE DEF BeginInv, RequestMode, registerVars, fixedVars, Transferred,
              Lost, IsThere
  <1>1. RoundsInPlace' /\ BusGivenBack'
    BY DEF RoundsInPlace, BusGivenBack, BeginSteps
  <1>2. BuffersCleared'
    BY DEF BuffersCleared, RoundsInPlace
  <1>3. OnlyAController'
    BY DEF OnlyAController, BitRateStage
  <1>4. ModeRequested'
    BY DEF ModeRequested, RoundsInPlace, ConfigRequested, OnlyAController,
           BitRateStage, WantedMode, NormalRound, ConfigRounds
  <1>5. RegistersWritten'
    BY DEF RegistersWritten, BitRateStage
  <1>6. QED  BY <1>1, <1>2, <1>3, <1>4, <1>5

\* A read that shows the Config mode was answered by a controller.
LEMMA ConfigIsAnswered ==
  ASSUME ReadMode("Config")
  PROVE  IsThere /\ opmod' = "Config" /\ UNCHANGED beginFaults
  BY DEF ReadMode, Transferred, Lost, IsThere

\* A poll leaves the round, or finds the mode asked for and goes on to the
\* next step.
LEMMA PollKeepsBeginInv ==
  ASSUME BeginInv, PollMode
  PROVE  BeginInv'
  <1> USE DEF BeginInv, IsThere
  <1>1. PICK mode \in {"Normal", "Config", "none"} :
          /\ ReadMode(mode)
          /\ \/ mode = WantedMode /\ ModeConfirmed
             \/ UNCHANGED <<canStep, round, spi>>
             \/ Fail
    BY DEF PollMode
  <1>2. /\ canStep = "poll"
        /\ UNCHANGED <<reqop, cnf, leftover, setting, present, cnfLost>>
    BY DEF PollMode, registerVars, fixedVars
  <1>3. /\ beginFaults' \in Nat /\ beginFaults' >= beginFaults
        /\ mode = "Config" => IsThere /\ opmod' = "Config"
                               /\ beginFaults' = beginFaults
        /\ opmod' \in {opmod, reqop}
        /\ mode = "Normal" /\ beginFaults' = beginFaults /\ IsThere =>
             opmod' = "Normal"
    BY <1>1, <1>2, ConfigIsAnswered
    DEF ReadMode, RoundsInPlace, Transferred, Lost
  <1>4. CASE mode = WantedMode /\ ModeConfirmed
    <2> USE DEF ModeConfirmed, WantedMode, Fail, NormalRound, ConfigRounds
    <2>1. round \in 1 .. NormalRound
      BY <1>2 DEF RoundsInPlace
    <2>2. RoundsInPlace' /\ BusGivenBack'
      BY <1>2, <1>3, <1>4, <2>1 DEF RoundsInPlace, BusGivenBack, BeginSteps
    <2>3. BuffersCleared'
      BY <1>2, <1>3, <1>4, <2>1 DEF BuffersCleared, RoundsInPlace
    <2>4. OnlyAController'
      BY <1>2, <1>3, <1>4, <2>1
      DEF OnlyAController, BitRateStage, IsSupported
    <2>5. ModeRequested'
      BY <1>2, <1>3, <1>4, <2>1
      DEF ModeRequested, ConfigRequested, OnlyAController, BitRateStage,
          RoundsInPlace
    <2>6. RegistersWritten'
      BY <1>2, <1>3, <1>4, <2>1 DEF RegistersWritten, BitRateStage, CnfOf
    <2>7. QED  BY <2>2, <2>3, <2>4, <2>5, <2>6
  <1>5. CASE UNCHANGED <<canStep, round, spi>>
    <2>1. RoundsInPlace' /\ BusGivenBack'
      BY <1>2, <1>3, <1>5 DEF RoundsInPlace, BusGivenBack
    <2>2. BuffersCleared'
      BY <1>2, <1>3, <1>5 DEF BuffersCleared, RoundsInPlace
    <2>3. OnlyAController'
      BY <1>2, <1>3, <1>5 DEF OnlyAController, BitRateStage, IsSupported
    <2>4. ModeRequested'
      BY <1>2, <1>3, <1>5 DEF ModeRequested, ConfigRequested, RoundsInPlace
    <2>5. RegistersWritten'
      BY <1>2, <1>3, <1>5 DEF RegistersWritten, BitRateStage, CnfOf
    <2>6. QED  BY <2>1, <2>2, <2>3, <2>4, <2>5
  <1>6. CASE Fail
    BY <1>2, <1>3, <1>6
    DEF Fail, RoundsInPlace, BusGivenBack, BuffersCleared, OnlyAController,
        BitRateStage, ModeRequested, ConfigRequested, RegistersWritten
  <1>7. QED  BY <1>1, <1>4, <1>5, <1>6

\* A register is written in the round of configuration mode only.
LEMMA WriteKeepsBeginInv ==
  ASSUME BeginInv, WriteCnf
  PROVE  BeginInv'
  <1> USE DEF BeginInv, WriteCnf, modeVars, fixedVars, Transferred, Lost,
              IsThere, NormalRound, ConfigRounds
  <1>1. RoundsInPlace' /\ BusGivenBack'
    BY DEF RoundsInPlace, BusGivenBack, BeginSteps
  <1>2. BuffersCleared'
    BY DEF BuffersCleared, RoundsInPlace
  <1>3. OnlyAController'
    BY DEF OnlyAController, BitRateStage, IsSupported
  <1>4. ModeRequested'
    BY DEF ModeRequested, ConfigRequested, RoundsInPlace
  <1>5. RegistersWritten'
    <2>1. CnfOf(setting)' = CnfOf(setting)
      BY DEF CnfOf
    <2>2. IsThere /\ opmod = "Config" /\ round \in 1 .. 3
      BY DEF OnlyAController, BitRateStage, RoundsInPlace
    <2>3. DOMAIN cnf' = 1 .. 3
      BY DEF RegistersWritten
    <2>4. CASE cnfLost'
      BY <2>3, <2>4 DEF RegistersWritten
    <2>5. CASE ~cnfLost'
      <3>1. ~cnfLost /\ cnf' = [cnf EXCEPT ![round] = CnfOf(setting)[round]]
        BY <2>2, <2>5
      <3>2. \A i \in 1 .. 3 : i <= round => cnf'[i] = CnfOf(setting)[i]
        BY <2>2, <3>1 DEF RegistersWritten
      <3>3. QED
        BY <2>1, <2>2, <2>3, <3>2 DEF RegistersWritten, BitRateStage
    <2>6. QED  BY <2>4, <2>5
  <1>6. QED  BY <1>1, <1>2, <1>3, <1>4, <1>5

\* One step of begin, whichever it is.
LEMMA BeginStepKeepsBeginInv ==
  ASSUME BeginInv, BeginStep
  PROVE  BeginInv'
  BY ResetKeepsBeginInv, RequestKeepsBeginInv, PollKeepsBeginInv,
     WriteKeepsBeginInv DEF BeginStep

\* While begin does not move, nothing of the controller does.
LEMMA IdleKeepsBeginInv ==
  ASSUME BeginInv, UNCHANGED canBeginVars
  PROVE  BeginInv'
  BY DEF canBeginVars, beginVars, modeVars, registerVars, fixedVars,
         historyVars, BeginInv, RoundsInPlace, OnlyAController, BitRateStage,
         BuffersCleared, ModeRequested, ConfigRequested, RegistersWritten,
         BusGivenBack, IsThere, IsSupported, CnfOf
-----------------------------------------------------------------------------
(***************************************************************************)
(* run                                                                     *)
(***************************************************************************)
LEMMA IdleKeepsWifiInv ==
  ASSUME WifiInv, UNCHANGED wifiVars
  PROVE  WifiInv'
  BY NextWifiInv

\* A call of the Wi-Fi manager stays within the initialisation it is part of.
LEMMA WifiCallKeepsPlace ==
  ASSUME WifiInv, InWifiInit, NEW ok \in BOOLEAN, WifiCallMade(ok)
  PROVE  /\ InWifiInit' /\ wifiCall' = wifiCall
         /\ UNCHANGED wifiConfig
  <1> USE DEF WifiInv, WifiTypeOK, InWifiInit, InitSteps, UndoSteps, DeinitSteps,
              managerVars, driverVars, Step, Prepare
  <1>1. CASE NvsFlashInit(ok) \/ NvsFlashErase(ok) \/ NvsFlashInitAgain(ok)
    BY <1>1 DEF NvsFlashInit, NvsFlashErase, NvsFlashInitAgain
  <1>2. CASE NetifInit(ok) \/ EventLoopCreate(ok) \/ EspWifiInit(ok)
    BY <1>2 DEF NetifInit, EventLoopCreate, EspWifiInit
  <1>3. CASE SetStorageModeMac(ok)
    BY <1>3 DEF SetStorageModeMac
  <1>4. CASE EspWifiStart(ok) \/ EspWifiSetChannel(ok)
    BY <1>4 DEF EspWifiStart, EspWifiSetChannel
  <1>5. CASE EspWifiSetPs(ok)
    BY <1>5 DEF EspWifiSetPs
  <1>6. CASE CleanupAfterFailedInit(ok)
    BY <1>6 DEF CleanupAfterFailedInit
  <1>7. CASE WifiDeinitStop(ok) \/ WifiDeinit(ok)
    BY <1>7 DEF WifiDeinitStop, WifiDeinit
  <1>8. QED
    BY <1>1, <1>2, <1>3, <1>4, <1>5, <1>6, <1>7 DEF WifiCallMade

\* A step of the Wi-Fi initialisation touches neither the controller nor the
\* other tasks.
LEMMA WifiStepKeepsBootInv ==
  ASSUME BootInv, InitializeWifi
  PROVE  BootInv'
  <1> USE DEF BootInv
  <1>1. BeginInv'
    BY IdleKeepsBeginInv DEF InitializeWifi
  <1>2. /\ appStep = "wifi"
        /\ UNCHANGED <<appStep, validConfig, gatewayReady, canStep>>
    BY DEF InitializeWifi, otherAppVars, canBeginVars, beginVars
  <1>3. CASE wifiCall = "none" /\ BeginWifiInit(wifiConfig)
    <2>1. WifiInv'
      BY <1>3, CallsKeepWifiInv DEF WifiInv, WifiTypeOK
    <2>2. InWifiInit' /\ wifiCall' = "init"
      BY <1>2, <1>3
      DEF BeginWifiInit, ReturnAtOnce, managerVars, InWifiInit, AppInv,
          BeforeWifiInit, InitSteps, UndoSteps
    <2>3. QED
      BY <1>1, <1>2, <2>1, <2>2 DEF AppInv, AfterCan, AfterWifi, AppSteps
  <1>4. ASSUME NEW ok \in BOOLEAN, WifiCallMade(ok)
        PROVE  BootInv'
    <2>1. WifiInv'
      BY <1>4, PrepareKeepsWifiInv, ConfigureKeepsWifiInv,
         TakeDownKeepsWifiInv DEF WifiCallMade
    <2>2. wifiStep # "idle"
      BY <1>4
      DEF WifiCallMade, NvsFlashInit, NvsFlashErase, NvsFlashInitAgain,
          NetifInit, EventLoopCreate, EspWifiInit, SetStorageModeMac,
          EspWifiStart, EspWifiSetChannel, EspWifiSetPs, Prepare, Step,
          CleanupAfterFailedInit, WifiDeinitStop, WifiDeinit
    <2>3. wifiCall # "none" /\ InWifiInit
      BY <1>2, <2>2 DEF AppInv, BeforeWifiInit
    <2>4. InWifiInit' /\ wifiCall' # "none"
      BY <1>4, <2>3, WifiCallKeepsPlace
    <2>5. QED
      BY <1>1, <1>2, <2>1, <2>4 DEF AppInv, AfterCan, AfterWifi, AppSteps
  <1>5. QED  BY <1>3, <1>4 DEF InitializeWifi

\* The steps of run that leave Wi-Fi alone.
LEMMA RunKeepsBootInv ==
  ASSUME BootInv,
         \/ ValidateConfig \/ BeginCan \/ CanBegun \/ InitializeGateway
         \/ WifiInitialized
         \/ \E ok \in BOOLEAN : InitializeEspNow(ok) \/ InitializeTxu01Peer(ok)
  PROVE  BootInv'
  <1> USE DEF BootInv, otherAppVars, Check
  <1>1. WifiInv'
    <2>1. UNCHANGED wifiVars
      BY DEF ValidateConfig, BeginCan, CanBegun, InitializeGateway,
             WifiInitialized, InitializeEspNow, InitializeTxu01Peer
    <2>2. QED  BY <2>1, IdleKeepsWifiInv
  <1>2. BeginInv'
    <2>1. CASE ValidateConfig
      <3>1. /\ canStep = "idle" /\ canStep' \in {"idle", "bus"}
            /\ UNCHANGED <<round, polls, spi, modeVars, registerVars, fixedVars,
                           faultsLeft, historyVars>>
        BY <2>1 DEF ValidateConfig, AppInv
      <3>2. QED
        BY <3>1
        DEF modeVars, registerVars, fixedVars, historyVars, BeginInv,
            RoundsInPlace, OnlyAController, BitRateStage, BuffersCleared,
            ModeRequested, ConfigRequested, RegistersWritten, BusGivenBack,
            IsThere, IsSupported, CnfOf, BeginSteps
    <2>2. CASE BeginCan
      BY <2>2, BusKeepsBeginInv, BeginStepKeepsBeginInv DEF BeginCan
    <2>3. CASE UNCHANGED canBeginVars
      BY <2>3, IdleKeepsBeginInv
    <2>4. QED
      BY <2>1, <2>2, <2>3
      DEF CanBegun, InitializeGateway, WifiInitialized, InitializeEspNow,
          InitializeTxu01Peer
  <1>3. AppInv'
    <2>1. UNCHANGED <<wifiStep, wifiCall, wifiResult, wifiInitialized, gChannel,
                      wifiConfig, wifi>>
      BY DEF ValidateConfig, BeginCan, CanBegun, InitializeGateway,
             WifiInitialized, InitializeEspNow, InitializeTxu01Peer, wifiVars,
             callVars, managerVars, driverVars
    <2> USE DEF AppInv, AppSteps, AfterCan, AfterWifi, BeforeWifiInit, InWifiInit
    <2>2. CASE ValidateConfig
      BY <2>1, <2>2 DEF ValidateConfig
    <2>3. CASE BeginCan
      BY <2>1, <2>3 DEF BeginCan
    <2>4. CASE CanBegun \/ InitializeGateway
      BY <2>1, <2>4
      DEF CanBegun, InitializeGateway, canBeginVars, beginVars
    <2>5. CASE WifiInitialized
      BY <2>1, <2>5 DEF WifiInitialized, canBeginVars, beginVars
    <2>6. ASSUME NEW ok \in BOOLEAN,
                 InitializeEspNow(ok) \/ InitializeTxu01Peer(ok)
          PROVE  AppInv'
      BY <2>1, <2>6
      DEF InitializeEspNow, InitializeTxu01Peer, canBeginVars, beginVars
    <2>7. QED  BY <2>2, <2>3, <2>4, <2>5, <2>6
  <1>4. QED  BY <1>1, <1>2, <1>3

\* A restart forgets the program and keeps the controller with its buffers.
LEMMA RestartKeepsBootInv ==
  ASSUME BootInv, Restarted
  PROVE  BootInv'
  <1> USE DEF BootInv, Restarted
  <1>1. BeginInv'
    <2>1. leftover' \subseteq Buffers
      BY DEF FramesLeftBehind, BeginInv, BuffersCleared
    <2>2. QED
      BY <2>1
      DEF modeVars, fixedVars, BeginInv, RoundsInPlace, OnlyAController,
          BitRateStage, BuffersCleared, ModeRequested, ConfigRequested,
          RegistersWritten, BusGivenBack, BeginSteps
  <1>2. AppInv'
    BY DEF AppInv, AppSteps, AfterCan, AfterWifi, BeforeWifiInit
  <1>3. WifiInv'
    <2>1. WifiTypeOK'
      <3>1. /\ wifiInitialized' \in BOOLEAN /\ netif' \in BOOLEAN
            /\ eventLoop' \in BOOLEAN /\ undoRefused' \in BOOLEAN
        BY Zenon
      <3>2. gChannel' \in 1 .. 13 /\ radioChannel' \in 0 .. 13
        BY DEF DEFAULT_CHANNEL
      <3>3. wifiConfig' \in WifiConfigs
            /\ flash' \in {"readable", "unusable", "erased"}
        BY DEF WifiInv, WifiTypeOK
      <3>4. QED  BY <3>1, <3>2, <3>3 DEF WifiTypeOK, Off
    <2>2. InitProgress' /\ FlagInPlace'
      BY DEF InitProgress, FlagInPlace, InitSteps, AfterNvs, AfterNetif,
             AfterEventLoop, Configuring, Running, DeinitSteps
    <2>3. TakenDown' /\ InitializedMeansRunning' /\ NothingLeftRunning'
      BY DEF TakenDown, InitializedMeansRunning, NothingLeftRunning
    <2>4. QED  BY <2>1, <2>2, <2>3 DEF WifiInv
  <1>4. QED  BY <1>1, <1>2, <1>3

\* Every step of the startup keeps the invariant.
LEMMA NextBootInv == BootInv /\ [BootNext]_bootVars => BootInv'
  <1> SUFFICES ASSUME BootInv, [BootNext]_bootVars PROVE BootInv'
    OBVIOUS
  <1>1. CASE UNCHANGED bootVars
    <2>1. WifiInv' /\ BeginInv'
      BY <1>1, IdleKeepsWifiInv, IdleKeepsBeginInv DEF bootVars, BootInv
    <2>2. QED
      BY <1>1, <2>1
      DEF bootVars, BootInv, AppInv, appVars, wifiVars, callVars, managerVars,
          BeforeWifiInit, InWifiInit, canBeginVars, beginVars
  <1>2. QED
    BY <1>1, WifiStepKeepsBootInv, RunKeepsBootInv, RestartKeepsBootInv
    DEF BootNext, RunStep, Reboot, Crash

\* So it holds throughout.
LEMMA BootInvAlways == BootSpec => []BootInv
  BY InitBootInv, NextBootInv, PTL DEF BootSpec

\* A begin that returns OK found a controller, and one lost transfer leaves
\* neither a frame of another life nor the wrong mode.
THEOREM BeginIsTruthful == BootSpec => []BeginTellsTheTruth
  <1>1. BootInv => BeginTellsTheTruth
    BY DEF BootInv, BeginInv, OnlyAController, BuffersCleared, ModeRequested,
           BusGivenBack, BeginTellsTheTruth
  <1>2. QED  BY <1>1, BootInvAlways, PTL

\* The tables know three crystals.
LEMMA ThreeClocks ==
  \A s \in Settings : s.clock \in {"MCP_8MHZ", "MCP_16MHZ", "MCP_20MHZ"}
  BY DEF Settings, CAN_CLOCK, Cnf

\* The tables give every supported setting its bit time...
LEMMA BitTimesAreRight ==
  ASSUME NEW s, IsSupported(s),
         s.clock \in {"MCP_8MHZ", "MCP_16MHZ", "MCP_20MHZ"}
  PROVE  BitTime(s.clock, CnfOf(s)) = NominalBitTime[s.speed]
  <1> USE DEF CnfOf, Cnf, IsSupported, Segments, Larger, BitTime,
              OscillatorQuantum, NominalBitTime
  <1>1. CASE s.clock = "MCP_8MHZ"
    BY <1>1, SMTT(60) DEF CNF_8MHZ
  <1>2. CASE s.clock = "MCP_16MHZ"
    BY <1>2, SMTT(60) DEF CNF_16MHZ
  <1>3. CASE s.clock = "MCP_20MHZ"
    BY <1>3, SMTT(60) DEF CNF_20MHZ
  <1>4. QED
    BY ONLY <1>1, <1>2, <1>3,
            s.clock \in {"MCP_8MHZ", "MCP_16MHZ", "MCP_20MHZ"}

\* ... and all but the default one a phase segment 2 that is long enough.
LEMMA SegmentsAreLongEnough ==
  ASSUME NEW s, IsSupported(s),
         s.clock \in {"MCP_8MHZ", "MCP_16MHZ", "MCP_20MHZ"},
         ~(s.clock = "MCP_8MHZ" /\ s.speed = "CAN_1000KBPS")
  PROVE  IsSampledInTime(CnfOf(s))
  <1> USE DEF CnfOf, Cnf, IsSupported, Segments, Larger, IsSampledInTime
  <1>1. CASE s.clock = "MCP_8MHZ"
    BY <1>1, SMTT(60) DEF CNF_8MHZ
  <1>2. CASE s.clock = "MCP_16MHZ"
    BY <1>2, SMTT(60) DEF CNF_16MHZ
  <1>3. CASE s.clock = "MCP_20MHZ"
    BY <1>3, SMTT(60) DEF CNF_20MHZ
  <1>4. QED
    BY ONLY <1>1, <1>2, <1>3,
            s.clock \in {"MCP_8MHZ", "MCP_16MHZ", "MCP_20MHZ"}

\* Unless a write of a CNF register was lost, the bit time is the one asked
\* for, with every oscillator and at every bit rate.
THEOREM BitTimeIsConfigured == BootSpec => []BitTimeAsConfigured
  <1>1. BootInv => BitTimeAsConfigured
    <2> SUFFICES ASSUME BootInv, canStep = "up", ~cnfLost
                 PROVE  /\ BitTime(setting.clock, cnf)
                             = NominalBitTime[setting.speed]
                        /\ setting # DefaultSetting => IsSampledInTime(cnf)
      BY DEF BitTimeAsConfigured
    <2>1. \A i \in 1 .. 3 : cnf[i] = CnfOf(setting)[i]
      BY DEF BootInv, BeginInv, RegistersWritten
    <2>2. Segments(cnf) = Segments(CnfOf(setting))
      BY <2>1 DEF Segments
    <2>3. setting \in Settings /\ IsSupported(setting)
      BY DEF BootInv, BeginInv, RegistersWritten, OnlyAController
    <2>4. BitTime(setting.clock, cnf) = NominalBitTime[setting.speed]
      BY <2>2, <2>3, ThreeClocks, BitTimesAreRight DEF BitTime
    <2>5. ASSUME setting # DefaultSetting PROVE IsSampledInTime(cnf)
      <3>1. ~(setting.clock = "MCP_8MHZ" /\ setting.speed = "CAN_1000KBPS")
        BY <2>3, <2>5 DEF Settings, DefaultSetting
      <3>2. IsSampledInTime(CnfOf(setting))
        BY <2>3, <3>1, ThreeClocks, SegmentsAreLongEnough
      <3>3. QED  BY <2>2, <3>2 DEF IsSampledInTime
    <2>6. QED  BY <2>4, <2>5
  <1>2. QED  BY <1>1, BootInvAlways, PTL

\* The main loop is reached with everything up, and only so.
THEOREM EverythingIsUp == BootSpec => []RunningMeansEverythingUp
  <1>1. BootInv => RunningMeansEverythingUp
    BY DEF BootInv, BeginInv, OnlyAController, AppInv, AfterCan, AfterWifi,
           WifiInv, InitializedMeansRunning, DeinitSteps,
           RunningMeansEverythingUp
  <1>2. QED  BY <1>1, BootInvAlways, PTL
-----------------------------------------------------------------------------
(***************************************************************************)
(* The types.  WifiInv has those of the Wi-Fi manager.                     *)
(***************************************************************************)
FlagsTyped ==
  /\ validConfig \in BOOLEAN /\ gatewayReady \in BOOLEAN
  /\ espNowReady \in BOOLEAN /\ peerKnown \in BOOLEAN
  /\ refusalsLeft \in Nat /\ crashesLeft \in Nat

\* The types of a powered board.
LEMMA InitTypes == BootInit => BeginTypeOK /\ FlagsTyped
  <1> SUFFICES ASSUME BootInit PROVE BeginTypeOK /\ FlagsTyped
    OBVIOUS
  <1>1. PICK t \in Trials :
          /\ setting \in t.settings /\ present \in t.present
          /\ validConfig \in t.valid
          /\ faultsLeft = t.faults /\ refusalsLeft = t.refusals
          /\ crashesLeft = t.crashes
    BY DEF BootInit
  <1>2. /\ setting \in Settings /\ present \in Presence
        /\ faultsLeft \in Nat /\ refusalsLeft \in Nat /\ crashesLeft \in Nat
    BY <1>1, TrialsAssumption
  <1>3. validConfig \in BOOLEAN
    BY <1>1, TrialsAssumption
  <1>4. /\ gatewayReady \in BOOLEAN /\ espNowReady \in BOOLEAN
        /\ peerKnown \in BOOLEAN
    BY Zenon DEF BootInit
  <1>5. cnfLost \in BOOLEAN
    BY Zenon DEF BootInit, BeginInit
  <1>6. BeginTypeOK
    BY <1>2, <1>5, ModeAssumption
    DEF BootInit, BeginInit, PowerOn, BeginTypeOK, NormalRound, ConfigRounds
  <1>7. QED  BY <1>2, <1>3, <1>4, <1>6 DEF FlagsTyped

\* reset and the requests for a mode.
LEMMA ResetKeepsTypes ==
  ASSUME BeginTypeOK,
         ResetController \/ ClearTransmitBuffer \/ RequestMode
  PROVE  BeginTypeOK'
  <1> USE ModeAssumption
      DEF BeginTypeOK, NormalRound, ConfigRounds, BeginSteps, Transferred,
          Lost, fixedVars
  <1>1. CASE ResetController
    BY <1>1 DEF ResetController, modeVars, registerVars
  <1>2. CASE ClearTransmitBuffer
    BY <1>2 DEF ClearTransmitBuffer, modeVars
  <1>3. CASE RequestMode
    BY <1>3 DEF RequestMode, registerVars, WantedMode
  <1>4. QED  BY <1>1, <1>2, <1>3

\* setMode confirms at the last poll at the latest, and the registers stay a
\* triple.
LEMMA ConfirmKeepsTypes ==
  ASSUME BeginTypeOK, PollMode \/ WriteCnf
  PROVE  BeginTypeOK'
  <1> USE ModeAssumption
      DEF BeginTypeOK, NormalRound, ConfigRounds, BeginSteps, Transferred,
          Lost, fixedVars
  <1>1. CASE PollMode
    <2>1. PICK mode \in {"Normal", "Config", "none"} :
            /\ ReadMode(mode)
            /\ \/ mode = WantedMode /\ ModeConfirmed
               \/ /\ mode # WantedMode /\ polls + 1 < ModePolls
                  /\ polls' = polls + 1 /\ UNCHANGED <<canStep, round, spi>>
               \/ mode # WantedMode /\ polls + 1 = ModePolls /\ Fail
      BY <1>1 DEF PollMode
    <2>2. /\ opmod' \in {"Normal", "Config"} /\ lag' \in 0 .. ModeLatency
          /\ faultsLeft' \in Nat /\ beginFaults' \in Nat
      BY <2>1 DEF ReadMode
    <2>3. CASE ModeConfirmed
      <3>1. /\ canStep' \in {"request", "cnf", "failed", "up"}
            /\ round' \in 0 .. NormalRound
        BY <2>3 DEF ModeConfirmed, Fail
      <3>2. polls' = polls /\ spi' \in {spi, {}}
        BY <2>3 DEF ModeConfirmed, Fail
      <3>3. QED
        BY <1>1, <2>2, <3>1, <3>2 DEF PollMode, registerVars
    <2>4. CASE Fail
      BY <1>1, <2>2, <2>4 DEF PollMode, Fail, registerVars
    <2>5. CASE polls + 1 < ModePolls /\ polls' = polls + 1
               /\ UNCHANGED <<canStep, round, spi>>
      BY <1>1, <2>2, <2>5 DEF PollMode, registerVars
    <2>6. QED  BY <2>1, <2>3, <2>4, <2>5
  <1>2. CASE WriteCnf
    <2>1. DOMAIN cnf' = 1 .. 3
      BY <1>2 DEF WriteCnf
    <2>2. cnfLost' \in BOOLEAN
      BY <1>2, Zenon DEF WriteCnf
    <2>3. QED
      BY <1>2, <2>1, <2>2 DEF WriteCnf, modeVars
  <1>3. QED  BY <1>1, <1>2

\* No step leaves the types.
LEMMA NextTypes ==
  ASSUME BeginTypeOK, FlagsTyped, [BootNext]_bootVars
  PROVE  BeginTypeOK' /\ FlagsTyped'
  <1>1. BeginTypeOK'
    <2>1. CASE UNCHANGED canBeginVars
      BY <2>1
      DEF canBeginVars, beginVars, modeVars, registerVars, fixedVars,
          historyVars, BeginTypeOK
    <2>2. CASE ValidateConfig
      BY <2>2
      DEF ValidateConfig, modeVars, registerVars, fixedVars, historyVars,
          BeginTypeOK, BeginSteps
    <2>3. CASE BeginCan
      <3>1. ASSUME NEW ok \in BOOLEAN,
                   SpiBusInitialize(ok) \/ SpiBusAddDevice(ok)
            PROVE  BeginTypeOK'
        BY <3>1
        DEF SpiBusInitialize, SpiBusAddDevice, modeVars, registerVars,
            fixedVars, historyVars, BeginTypeOK, BeginSteps
      <3>2. QED
        BY <2>3, <3>1, ResetKeepsTypes, ConfirmKeepsTypes
        DEF BeginCan, BeginStep
    <2>4. CASE Restarted
      <3>1. leftover' \subseteq Buffers /\ cnfLost' \in BOOLEAN
        BY <2>4, Zenon DEF Restarted, FramesLeftBehind, BeginTypeOK
      <3>2. QED
        BY <2>4, <3>1, ModeAssumption
        DEF Restarted, fixedVars, modeVars, BeginTypeOK, NormalRound,
            ConfigRounds
    <2>5. QED
      BY <2>1, <2>2, <2>3, <2>4
      DEF bootVars, BootNext, RunStep, Reboot, Crash, CanBegun,
          InitializeGateway, InitializeWifi, WifiInitialized,
          InitializeEspNow, InitializeTxu01Peer
  <1>2. refusalsLeft' \in Nat /\ crashesLeft' \in Nat
    BY DEF FlagsTyped, bootVars, appVars, otherAppVars, BootNext, RunStep,
           Reboot, Crash, Restarted, Answered, ValidateConfig, BeginCan,
           CanBegun, InitializeGateway, InitializeWifi, WifiInitialized,
           InitializeEspNow, InitializeTxu01Peer
  <1>3. validConfig' = validConfig
    BY DEF bootVars, appVars, otherAppVars, BootNext, RunStep,
           Reboot, Crash, Restarted, ValidateConfig, BeginCan,
           CanBegun, InitializeGateway, InitializeWifi, WifiInitialized,
           InitializeEspNow, InitializeTxu01Peer
  <1>4. /\ gatewayReady' \in {gatewayReady, TRUE, FALSE}
        /\ espNowReady' \in {espNowReady, TRUE, FALSE}
        /\ peerKnown' \in {peerKnown, TRUE, FALSE}
    BY DEF bootVars, appVars, otherAppVars, BootNext, RunStep,
           Reboot, Crash, Restarted, ValidateConfig, BeginCan,
           CanBegun, InitializeGateway, InitializeWifi, WifiInitialized,
           InitializeEspNow, InitializeTxu01Peer
  <1>5. QED  BY <1>1, <1>2, <1>3, <1>4 DEF FlagsTyped

\* Every variable of the startup keeps its type, through any number of faults,
\* refusals and restarts: no round of begin runs past its loop, no poll of
\* setMode past its limit.
THEOREM BootTypeCorrect == BootSpec => []BootTypeOK
  <1>1. BootInv /\ BeginTypeOK /\ FlagsTyped => BootTypeOK
    BY DEF BootInv, AppInv, WifiInv, FlagsTyped, BootTypeOK
  <1>2. BeginTypeOK /\ FlagsTyped /\ [BootNext]_bootVars
          => (BeginTypeOK /\ FlagsTyped)'
    BY NextTypes
  <1>3. QED
    BY <1>1, <1>2, InitTypes, BootInvAlways, PTL DEF BootSpec
=============================================================================
