-------------------------- MODULE Mcp2515Transmit --------------------------
(***************************************************************************)
(* The CAN transmit path below the gateway: transmit_can_frame,            *)
(* CanManager::send and MCP2515::sendMessage, one action per SPI transfer, *)
(* and the MCP2515 controller they drive, which acts between any two of    *)
(* them.  The main task is the only caller and waits for each call.        *)
(*                                                                         *)
(* A frame is the number of the call that sent it.  Frames are at most 8   *)
(* bytes long (CommandRouting, FrameFitsTheBus) and begin() has succeeded, *)
(* so the length and initialisation checks of the three functions pass.    *)
(*                                                                         *)
(* An SPI transfer can fail: the driver prints a line and goes on.  A      *)
(* failed write has no effect; a failed read yields 0, because readRegister*)
(* returns the receive byte of a transaction it zeroed before.             *)
(***************************************************************************)
EXTENDS Integers, Sequences

CONSTANTS
  NumBuffers,    \* N_TXBUFFERS
  TimeoutTicks,  \* Config::transmit_timeout_ms in ticks of the model
  MaxCalls,      \* bound: calls of sendMessage
  MaxFaults      \* bound: SPI transfers that fail

ASSUME McpAssumption ==
  /\ NumBuffers \in Nat \ {0}
  /\ {TimeoutTicks, MaxCalls, MaxFaults} \subseteq Nat

VARIABLES
  step,      \* where sendMessage is
  buf,       \* the transmit buffer it probes or has chosen
  read,      \* the TXBnCTRL bits it read last
  timer,     \* ticks left to the deadline
  result,    \* what the last call returned
  calls,     \* number of calls so far
  faults,    \* SPI failures so far
  ctrl,      \* chip: TXBnCTRL of each buffer
  content,   \* chip: the frame loaded in each buffer, 0 for the blank one
             \* that reset() leaves there
  wire,      \* chip: the frame being sent and the buffer it came from
  bus,       \* history: frames sent, in bus order
  disturbed  \* history: frames that met an error on the bus

driverVars == <<step, buf, read, timer, result, calls, faults>>
chipVars == <<ctrl, content, wire, bus, disturbed>>
mcpVars == <<driverVars, chipVars>>

Buffers == 0 .. NumBuffers - 1
Flags == {"TXREQ", "ABTF", "MLOA", "TXERR"}
NoFrame == [buffer |-> NumBuffers, frame |-> 0]

DriverSteps ==
  {"idle", "probe", "load", "clear", "request", "poll", "decide", "abort"}

OnBus == {bus[i] : i \in 1 .. Len(bus)}

Requested == {b \in Buffers : "TXREQ" \in ctrl[b]}

McpInit ==
  /\ step = "idle" /\ buf = 0 /\ read = {} /\ timer = 0 /\ result = "none"
  /\ calls = 0 /\ faults = 0
  /\ ctrl = [b \in Buffers |-> {}] /\ content = [b \in Buffers |-> 0]
  /\ wire = NoFrame /\ bus = <<>> /\ disturbed = {}
-----------------------------------------------------------------------------
(***************************************************************************)
(* SPI transfers                                                           *)
(***************************************************************************)
Fault == faults < MaxFaults /\ faults' = faults + 1

\* readRegister(TXBnCTRL)
ReadCtrl == \/ read' = ctrl[buf] /\ UNCHANGED faults
            \/ read' = {} /\ Fault

\* modifyRegister(TXBnCTRL, ...)
WriteCtrl(bits) == \/ ctrl' = [ctrl EXCEPT ![buf] = bits] /\ UNCHANGED faults
                   \/ UNCHANGED ctrl /\ Fault
-----------------------------------------------------------------------------
(***************************************************************************)
(* sendMessage                                                             *)
(***************************************************************************)
BeginSend ==
  /\ step = "idle" /\ calls < MaxCalls
  /\ calls' = calls + 1
  /\ step' = "probe" /\ buf' = 0
  /\ UNCHANGED <<read, timer, result, faults, chipVars>>

\* Fault: the loop runs one buffer too far.
ProbeTooFar ==
  /\ step = "probe"
  /\ ReadCtrl
  /\ IF "TXREQ" \notin read'
     THEN step' = "load" /\ UNCHANGED <<buf, result>>
     ELSE IF buf < NumBuffers
     THEN buf' = buf + 1 /\ UNCHANGED <<step, result>>
     ELSE step' = "idle" /\ result' = "Busy" /\ UNCHANGED buf
  /\ UNCHANGED <<timer, calls, chipVars>>

\* The loop over the buffers: take the first that reads as free.
ProbeBuffer ==
  /\ step = "probe"
  /\ ReadCtrl
  /\ IF "TXREQ" \notin read'
     THEN step' = "load" /\ UNCHANGED <<buf, result>>
     ELSE IF buf + 1 \in Buffers
     THEN buf' = buf + 1 /\ UNCHANGED <<step, result>>
     ELSE step' = "idle" /\ result' = "Busy" /\ UNCHANGED buf
  /\ UNCHANGED <<timer, calls, chipVars>>

\* setRegisters(SIDH, ...): header and data of the frame.
LoadBuffer ==
  /\ step = "load"
  /\ \/ content' = [content EXCEPT ![buf] = calls] /\ UNCHANGED faults
     \/ UNCHANGED content /\ Fault
  /\ step' = "clear"
  /\ UNCHANGED <<buf, read, timer, result, calls, ctrl, wire, bus, disturbed>>

\* Fault: the flags of the previous transmission stay.
LeaveFlags ==
  /\ step = "clear"
  /\ step' = "request"
  /\ UNCHANGED <<buf, read, timer, result, calls, faults, chipVars>>

\* Clear what the previous transmission left in the flags.
ClearFlags ==
  /\ step = "clear"
  /\ WriteCtrl(ctrl[buf] \ {"ABTF", "MLOA", "TXERR"})
  /\ step' = "request"
  /\ UNCHANGED <<buf, read, timer, result, calls, content, wire, bus,
                 disturbed>>

RequestToSend ==
  /\ step = "request"
  /\ WriteCtrl(ctrl[buf] \cup {"TXREQ"})
  /\ step' = "poll" /\ timer' = TimeoutTicks
  /\ UNCHANGED <<buf, read, result, calls, content, wire, bus, disturbed>>

PollCtrl ==
  /\ step = "poll"
  /\ ReadCtrl
  /\ step' = "decide"
  /\ UNCHANGED <<buf, timer, result, calls, chipVars>>

\* Fault: the call ends after the first poll, whatever it read.
CompletedAtOnce ==
  /\ step = "decide"
  /\ result' = IF {"ABTF", "TXERR"} \cap read # {} THEN "Failed" ELSE "Ok"
  /\ step' = "idle"
  /\ UNCHANGED <<buf, read, timer, calls, faults, chipVars>>

\* The request is gone from what was read: the call is over.
Completed ==
  /\ step = "decide" /\ "TXREQ" \notin read
  /\ result' = IF {"ABTF", "TXERR"} \cap read # {} THEN "Failed" ELSE "Ok"
  /\ step' = "idle"
  /\ UNCHANGED <<buf, read, timer, calls, faults, chipVars>>

\* Fault: the deadline returns without cancelling the request.
GiveUpSilently ==
  /\ step = "decide" /\ "TXREQ" \in read
  /\ IF timer = 0 THEN step' = "idle" /\ result' = "Timeout"
     ELSE step' = "poll" /\ UNCHANGED result
  /\ UNCHANGED <<buf, read, timer, calls, faults, chipVars>>

\* Fault: there is no deadline.
WaitForever ==
  /\ step = "decide" /\ "TXREQ" \in read
  /\ step' = "poll"
  /\ UNCHANGED <<buf, read, timer, result, calls, faults, chipVars>>

KeepWaiting ==
  /\ step = "decide" /\ "TXREQ" \in read
  /\ step' = IF timer = 0 THEN "abort" ELSE "poll"
  /\ UNCHANGED <<buf, read, timer, result, calls, faults, chipVars>>

\* Fault: the flag is written, the request stays.
AbortFlagOnly ==
  /\ step = "abort"
  /\ WriteCtrl(ctrl[buf] \cup {"ABTF"})
  /\ step' = "idle" /\ result' = "Timeout"
  /\ UNCHANGED <<buf, read, timer, calls, content, wire, bus, disturbed>>

\* Withdraw the request.  The controller raises ABTF for a frame it had still
\* to send; a frame on the wire goes on, and may or may not raise it.
AbortRequest ==
  /\ step = "abort"
  /\ \/ "TXREQ" \in ctrl[buf] /\ WriteCtrl((ctrl[buf] \ {"TXREQ"}) \cup {"ABTF"})
     \/ "TXREQ" \notin ctrl[buf] /\ WriteCtrl(ctrl[buf])
     \/ wire.buffer = buf /\ WriteCtrl(ctrl[buf] \ {"TXREQ"})
  /\ step' = "idle" /\ result' = "Timeout"
  /\ UNCHANGED <<buf, read, timer, calls, content, wire, bus, disturbed>>

DriverStep ==
  \/ ProbeBuffer \/ LoadBuffer \/ ClearFlags \/ RequestToSend
  \/ PollCtrl \/ Completed \/ KeepWaiting \/ AbortRequest

\* esp_timer_get_time
Tick ==
  /\ timer > 0 /\ step \in {"poll", "decide"}
  /\ timer' = timer - 1
  /\ UNCHANGED <<step, buf, read, result, calls, faults, chipVars>>
-----------------------------------------------------------------------------
(***************************************************************************)
(* The controller, as the driver uses it.  It latches a frame when it      *)
(* starts sending it, and retries one that failed for as long as it is     *)
(* requested.  Once the request is withdrawn the fate of the frame on the  *)
(* wire leaves the flags alone.                                            *)
(***************************************************************************)
StartFrame(b) ==
  /\ wire = NoFrame /\ b \in Requested
  /\ wire' = [buffer |-> b, frame |-> content[b]]
  /\ UNCHANGED <<driverVars, ctrl, content, bus, disturbed>>

\* The buffer the frame on the wire came from still holds and requests it.
Origin == {b \in Requested : wire = [buffer |-> b, frame |-> content[b]]}

\* A frame that succeeds after an error may keep TXERR or lose it.
FinishFrame ==
  /\ wire # NoFrame
  /\ bus' = Append(bus, wire.frame) /\ wire' = NoFrame
  /\ \E kept \in {{}, {"TXERR"}} :
       ctrl' = [b \in Buffers |->
                  IF b \in Origin THEN ctrl[b] \cap kept ELSE ctrl[b]]
  /\ UNCHANGED <<driverVars, content, disturbed>>

\* A bus error or a lost arbitration takes the frame off the wire.
FrameLost(flag) ==
  /\ wire # NoFrame
  /\ wire' = NoFrame
  /\ ctrl' = [b \in Buffers |->
                IF b \in Origin THEN ctrl[b] \cup {flag} ELSE ctrl[b]]
  /\ disturbed' = IF flag = "TXERR" THEN disturbed \cup {wire.frame} ELSE disturbed
  /\ UNCHANGED <<driverVars, content, bus>>

Chip ==
  \/ \E b \in Buffers : StartFrame(b)
  \/ FinishFrame
  \/ \E flag \in {"TXERR", "MLOA"} : FrameLost(flag)

McpNext == BeginSend \/ DriverStep \/ Tick \/ Chip

McpSpec == McpInit /\ [][McpNext]_mcpVars

\* The main task is scheduled again and again and time passes; nothing is
\* assumed of the controller or the bus.
McpFairSpec == McpSpec /\ WF_mcpVars(DriverStep) /\ WF_mcpVars(Tick)
-----------------------------------------------------------------------------
(***************************************************************************)
(* Properties                                                              *)
(***************************************************************************)

\* The driver's variables and the chip's registers have their types.
McpTypeOK ==
  /\ step \in DriverSteps /\ buf \in Buffers /\ read \subseteq Flags
  /\ timer \in 0 .. TimeoutTicks
  /\ result \in {"none", "Ok", "Busy", "Failed", "Timeout"}
  /\ calls \in 0 .. MaxCalls /\ faults \in 0 .. MaxFaults
  /\ ctrl \in [Buffers -> SUBSET Flags]
  /\ content \in [Buffers -> 0 .. calls]
  /\ wire \in [buffer : Buffers, frame : 0 .. calls] \cup {NoFrame}
  /\ bus \in Seq(0 .. calls) /\ disturbed \subseteq 0 .. calls

\* What the driver does and returns is what CanTransmit lets the gateway rely
\* on: every step is one of the contract, and a call that returns does so with
\* a result the contract allows there.
Contract == INSTANCE CanTransmit WITH
  busy <- step # "idle",
  onBus <- OnBus,
  pending <- {content[b] : b \in Requested} \cup ({wire.frame} \ {0})
             \cup (IF step \in {"probe", "load", "clear", "request"}
                   THEN {calls} ELSE {})

ImplementsCanTransmit ==
  Contract!CanInit /\ [][Contract!CanStep(result')]_(Contract!canVars)

\* Commands reach the bus in the order they were given and none reaches it
\* twice, late frames of calls that timed out included.
BusKeepsCallOrder ==
  \A i, j \in 1 .. Len(bus) : i < j => bus[i] < bus[j]

\* Between calls no buffer holds a request: the next call finds TXB0 free, so
\* ERROR_ALLTXBUSY cannot build up over a long series of timeouts.
NothingRequestedWhenIdle ==
  /\ step = "idle" => Requested = {}
  /\ result # "Busy"

\* A call fails only for an error its own frame met: flags that an earlier
\* call left in the buffer are not blamed on it.
FailureIsOwn == result = "Failed" /\ step = "idle" => calls \in disturbed

\* Every sendMessage returns, on a dead bus too.
SendReturns == (step # "idle") ~> (step = "idle")

\* remote_protocol.h:56: CanTransmitted confirms the CAN transmission.
OkMeansTransmitted == result = "Ok" /\ step = "idle" => calls \in OnBus

\* mcp2515.cpp:771-772: the request is cancelled to avoid a transmission
\* after the timeout was reported.
NoLateTransmission ==
  [][step = "idle" /\ result = "Timeout" => bus' = bus]_mcpVars
=============================================================================
