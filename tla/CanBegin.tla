------------------------------ MODULE CanBegin ------------------------------
(***************************************************************************)
(* CanManager::begin and what it calls of the MCP2515 driver (reset,       *)
(* setBitrate, setNormalMode, setMode, setFilter, setFilterMask), one SPI  *)
(* transfer at a time, with the controller, which keeps its registers when *)
(* only the microcontroller is reset.                                      *)
(*                                                                         *)
(* A failed transfer only prints a line: a write is lost, a read gives 0,  *)
(* which is the Normal mode.  Of a controller that is not there every      *)
(* register reads as 0x00 or as 0xFF, whichever way the line floats.       *)
(* The contents of filters, masks and RXBnCTRL are left out.               *)
(***************************************************************************)
EXTENDS BitTiming, Sequences, FiniteSets

CONSTANTS
  ModePolls,    \* how often setMode reads CANSTAT
  ModeLatency   \* bound: reads that may precede a change of mode

ASSUME ModeAssumption ==
  ModePolls \in Nat \ {0} /\ ModeLatency \in Nat

VARIABLES
  canStep,         \* where begin is; "up" and "failed" once it returned
  round,           \* which loop pass or register the step is about
  polls,           \* reads of CANSTAT in the present setMode
  setting,         \* CanManager::Config: oscillator and bit rate
  spi,             \* what is held of the SPI: bus, device
  faultsLeft,      \* bound: SPI transfers that can still fail
  present,         \* chip: there, or absent with the line "low" or "high"
  reqop,           \* chip: REQOP of CANCTRL
  opmod,           \* chip: OPMOD of CANSTAT
  lag,             \* chip: reads since a mode was requested
  cnf,             \* chip: CNF1, CNF2, CNF3
  leftover,        \* chip: transmit buffers with TXREQ set in another life
  beginFaults,     \* history: transfers that failed in this begin
  cnfLost          \* history: one of them was a write of a CNF register

beginVars == <<canStep, round, polls, spi>>
modeVars == <<reqop, opmod, lag>>
registerVars == <<cnf, leftover>>
fixedVars == <<setting, present>>
historyVars == <<beginFaults, cnfLost>>
canBeginVars == <<beginVars, modeVars, registerVars, fixedVars, faultsLeft,
                  historyVars>>

Buffers == 0 .. 2
ConfigRounds == 9   \* six filters, two masks, the bit rate
NormalRound == ConfigRounds + 1

Presence == {"there", "low", "high"}
BeginSteps == {"bus", "device", "reset", "clear", "request", "poll", "cnf"}

BeginTypeOK ==
  /\ canStep \in {"idle", "up", "failed"} \cup BeginSteps
  /\ round \in 0 .. NormalRound /\ polls \in 0 .. ModePolls - 1
  /\ setting \in Settings /\ spi \subseteq {"bus", "device"}
  /\ faultsLeft \in Nat /\ present \in Presence
  /\ {reqop, opmod} \subseteq {"Normal", "Config"} /\ lag \in 0 .. ModeLatency
  /\ DOMAIN cnf = 1 .. 3 /\ leftover \subseteq Buffers
  /\ beginFaults \in Nat /\ cnfLost \in BOOLEAN

\* RAM after a reset of the microcontroller.
BeginInit ==
  /\ canStep = "idle" /\ round = 0 /\ polls = 0 /\ spi = {}
  /\ beginFaults = 0 /\ cnfLost = FALSE

\* The controller when it is powered.
PowerOn ==
  /\ reqop = "Config" /\ opmod = "Config" /\ lag = 0
  /\ cnf = <<0, 0, 0>> /\ leftover = {}
-----------------------------------------------------------------------------
(***************************************************************************)
(* SPI transfers                                                           *)
(***************************************************************************)
Transferred == UNCHANGED <<faultsLeft, beginFaults>>

Lost ==
  /\ faultsLeft > 0
  /\ faultsLeft' = faultsLeft - 1 /\ beginFaults' = beginFaults + 1

IsThere == present = "there"

\* readRegister(MCP_CANSTAT) & CANSTAT_OPMOD, at a moment at which the
\* controller may have come to the mode requested of it.
ReadMode(mode) ==
  /\ \/ opmod' = reqop /\ lag' = 0
     \/ /\ opmod # reqop /\ lag < ModeLatency
        /\ opmod' = opmod /\ lag' = lag + 1
  /\ \/ /\ Transferred
        /\ mode = IF IsThere THEN opmod'
                  ELSE IF present = "low" THEN "Normal" ELSE "none"
     \/ Lost /\ mode = "Normal"
-----------------------------------------------------------------------------
(***************************************************************************)
(* begin                                                                   *)
(***************************************************************************)
\* begin takes the bus; if the device cannot be added it gives it back.
SpiBusInitialize(ok) ==
  /\ canStep = "bus"
  /\ canStep' = IF ok THEN "device" ELSE "failed"
  /\ spi' = IF ok THEN {"bus"} ELSE {}
  /\ UNCHANGED <<round, polls, modeVars, registerVars, fixedVars, faultsLeft,
                 historyVars>>

SpiBusAddDevice(ok) ==
  /\ canStep = "device"
  /\ canStep' = IF ok THEN "reset" ELSE "failed"
  /\ spi' = IF ok THEN {"bus", "device"} ELSE {}
  /\ UNCHANGED <<round, polls, modeVars, registerVars, fixedVars, faultsLeft,
                 historyVars>>

\* INSTRUCTION_RESET
ResetController ==
  /\ canStep = "reset" /\ canStep' = "clear" /\ round' = 0
  /\ \/ /\ Transferred
        /\ IF IsThere
           THEN /\ reqop' = "Config" /\ opmod' = "Config" /\ lag' = 0
                /\ cnf' = <<0, 0, 0>> /\ leftover' = {}
           ELSE UNCHANGED <<modeVars, registerVars>>
     \/ Lost /\ UNCHANGED <<modeVars, registerVars>>
  /\ UNCHANGED <<polls, spi, fixedVars, cnfLost>>

\* Fault: the third buffer is left alone.
ClearTwoBuffers ==
  /\ canStep = "clear"
  /\ IF round < 1 THEN canStep' = "clear" /\ round' = round + 1
     ELSE canStep' = "request" /\ round' = 1
  /\ \/ /\ Transferred
        /\ leftover' = IF IsThere THEN leftover \ {round} ELSE leftover
     \/ Lost /\ UNCHANGED leftover
  /\ UNCHANGED <<polls, spi, modeVars, cnf, fixedVars, cnfLost>>

\* setRegisters(MCP_TXBnCTRL, zeros, 14)
ClearTransmitBuffer ==
  /\ canStep = "clear"
  /\ IF round < 2 THEN canStep' = "clear" /\ round' = round + 1
     ELSE canStep' = "request" /\ round' = 1
  /\ \/ /\ Transferred
        /\ leftover' = IF IsThere THEN leftover \ {round} ELSE leftover
     \/ Lost /\ UNCHANGED leftover
  /\ UNCHANGED <<polls, spi, modeVars, cnf, fixedVars, cnfLost>>

WantedMode == IF round = NormalRound THEN "Normal" ELSE "Config"

\* setMode: modifyRegister(MCP_CANCTRL, CANCTRL_REQOP, mode)
RequestMode ==
  /\ canStep = "request" /\ canStep' = "poll" /\ polls' = 0
  /\ \/ Transferred /\ lag' = 0 /\ reqop' = IF IsThere THEN WantedMode ELSE reqop
     \/ Lost /\ UNCHANGED <<reqop, lag>>
  /\ UNCHANGED <<round, spi, opmod, registerVars, fixedVars, cnfLost>>

\* Everything begin took is given back.
Fail == canStep' = "failed" /\ spi' = {} /\ UNCHANGED <<round, polls>>

\* The mode was confirmed: the next filter or mask; the bit rate, if the
\* setting is known; the end of begin.
ModeConfirmed ==
  \/ /\ round < ConfigRounds
     /\ canStep' = "request" /\ round' = round + 1 /\ UNCHANGED <<polls, spi>>
  \/ /\ round = ConfigRounds /\ IsSupported(setting)
     /\ canStep' = "cnf" /\ round' = 1 /\ UNCHANGED <<polls, spi>>
  \/ round = ConfigRounds /\ ~IsSupported(setting) /\ Fail
  \/ round = NormalRound /\ canStep' = "up" /\ UNCHANGED <<round, polls, spi>>

\* Fault: one read too many.
PollModeTooLong ==
  /\ canStep = "poll"
  /\ \E mode \in {"Normal", "Config", "none"} :
       /\ ReadMode(mode)
       /\ \/ mode = WantedMode /\ ModeConfirmed
          \/ /\ mode # WantedMode /\ polls < ModePolls
             /\ polls' = polls + 1 /\ UNCHANGED <<canStep, round, spi>>
          \/ mode # WantedMode /\ polls = ModePolls /\ Fail
  /\ UNCHANGED <<reqop, registerVars, fixedVars, cnfLost>>

PollMode ==
  /\ canStep = "poll"
  /\ \E mode \in {"Normal", "Config", "none"} :
       /\ ReadMode(mode)
       /\ \/ mode = WantedMode /\ ModeConfirmed
          \/ /\ mode # WantedMode /\ polls + 1 < ModePolls
             /\ polls' = polls + 1 /\ UNCHANGED <<canStep, round, spi>>
          \/ mode # WantedMode /\ polls + 1 = ModePolls /\ Fail
  /\ UNCHANGED <<reqop, registerVars, fixedVars, cnfLost>>

\* setBitrate: the CNF registers can be written in Config mode only.
WriteCnf ==
  /\ canStep = "cnf"
  /\ IF round < 3 THEN canStep' = "cnf" /\ round' = round + 1
     ELSE canStep' = "request" /\ round' = NormalRound
  /\ \/ /\ Transferred /\ UNCHANGED cnfLost
        /\ cnf' = IF IsThere /\ opmod = "Config"
                  THEN [cnf EXCEPT ![round] = CnfOf(setting)[round]] ELSE cnf
     \/ Lost /\ cnfLost' = TRUE /\ UNCHANGED cnf
  /\ UNCHANGED <<polls, spi, modeVars, leftover, fixedVars>>

BeginStep ==
  \/ ResetController \/ ClearTransmitBuffer \/ RequestMode \/ PollMode
  \/ WriteCnf
-----------------------------------------------------------------------------
(***************************************************************************)
(* Properties                                                              *)
(***************************************************************************)

\* When begin returns OK the controller is there and, unless two transfers
\* of this begin failed, it was asked for the Normal mode and holds no frame
\* that a former life of the program requested and nobody will answer for.
\* A begin that failed holds neither the bus nor the device: it can be called
\* again.
BeginTellsTheTruth ==
  /\ canStep = "up" =>
       /\ IsThere
       /\ beginFaults <= 1 => reqop = "Normal" /\ leftover = {}
  /\ canStep = "failed" => spi = {}

\* After begin the bit time on the bus is the one configured, whatever
\* transfers failed but those that write the three registers; and for every
\* setting but that of 8 MHz and 1 Mbit/s the bit can be sampled.
BitTimeAsConfigured ==
  canStep = "up" /\ ~cnfLost =>
    /\ BitTime(setting.clock, cnf) = NominalBitTime[setting.speed]
    /\ setting # DefaultSetting => IsSampledInTime(cnf)
=============================================================================
