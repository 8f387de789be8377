------------------------------ MODULE McpProofs ------------------------------
(***************************************************************************)
(* Theorems about the MCP2515 driver: sendMessage keeps the contract the   *)
(* gateway relies on.                                                      *)
(***************************************************************************)
EXTENDS Mcp2515Transmit, TLAPS

(***************************************************************************)
(* Types, whatever transfers fail                                          *)
(***************************************************************************)

\* The types at rest.
LEMMA InitMcpTypeOK == McpInit => McpTypeOK
  BY McpAssumption
  DEF McpInit, McpTypeOK, DriverSteps, Buffers, Flags, NoFrame

\* A read yields the register or 0, a write takes effect or not.
LEMMA TransferTypes ==
  ASSUME McpTypeOK
  PROVE  /\ ReadCtrl => read' \subseteq Flags /\ faults' \in 0 .. MaxFaults
         /\ \A bits \in SUBSET Flags : WriteCtrl(bits) =>
              /\ ctrl' \in [Buffers -> SUBSET Flags]
              /\ faults' \in 0 .. MaxFaults
         /\ Fault => faults' \in 0 .. MaxFaults
  BY McpAssumption DEF McpTypeOK, ReadCtrl, WriteCtrl, Fault

\* No step leaves the types.
LEMMA NextMcpTypeOK == McpTypeOK /\ [McpNext]_mcpVars => McpTypeOK'
  <1> SUFFICES ASSUME McpTypeOK, [McpNext]_mcpVars PROVE McpTypeOK'
    OBVIOUS
  <1>1. /\ calls \in Nat /\ MaxCalls \in Nat /\ TimeoutTicks \in Nat
        /\ buf \in Buffers /\ 0 \in Buffers /\ ctrl[buf] \subseteq Flags
        /\ content \in [Buffers -> 0 .. calls] /\ bus \in Seq(0 .. calls)
        /\ calls \in 0 .. MaxCalls /\ timer \in 0 .. TimeoutTicks
    BY McpAssumption DEF McpTypeOK, Buffers
  <1>2. CASE BeginSend
    <2>1. 0 .. calls \subseteq 0 .. calls + 1
      BY <1>1
    <2>2. /\ content \in [Buffers -> 0 .. calls + 1]
          /\ bus \in Seq(0 .. calls + 1)
          /\ wire \in [buffer : Buffers, frame : 0 .. calls + 1] \cup {NoFrame}
          /\ disturbed \subseteq 0 .. calls + 1
      BY <1>1, <2>1 DEF McpTypeOK
    <2>3. QED
      BY <1>1, <1>2, <2>2
      DEF BeginSend, McpTypeOK, chipVars, DriverSteps
  <1>3. CASE ProbeBuffer
    BY <1>1, <1>3, TransferTypes
    DEF ProbeBuffer, McpTypeOK, chipVars, DriverSteps
  <1>4. CASE LoadBuffer
    <2>1. calls \in 0 .. calls
      BY <1>1
    <2>2. content' \in [Buffers -> 0 .. calls] /\ faults' \in 0 .. MaxFaults
      BY <1>1, <1>4, <2>1, TransferTypes DEF LoadBuffer, McpTypeOK
    <2>3. QED
      BY <1>4, <2>2 DEF LoadBuffer, McpTypeOK, DriverSteps
  <1>5. CASE ClearFlags
    BY <1>1, <1>5, TransferTypes
    DEF ClearFlags, McpTypeOK, DriverSteps
  <1>6. CASE RequestToSend
    <2>1. ctrl[buf] \cup {"TXREQ"} \in SUBSET Flags
      BY <1>1 DEF Flags
    <2>2. QED
      BY <1>1, <1>6, <2>1, TransferTypes
      DEF RequestToSend, McpTypeOK, DriverSteps
  <1>7. CASE PollCtrl \/ Completed \/ KeepWaiting \/ Tick
    <2>1. CASE PollCtrl
      BY <1>1, <2>1, TransferTypes
      DEF PollCtrl, McpTypeOK, chipVars, DriverSteps
    <2>2. CASE Completed \/ KeepWaiting
      BY <2>2 DEF Completed, KeepWaiting, McpTypeOK, chipVars, DriverSteps
    <2>3. CASE Tick
      <3>1. timer' \in 0 .. TimeoutTicks
        BY <1>1, <2>3 DEF Tick
      <3>2. QED
        BY <2>3, <3>1 DEF Tick, McpTypeOK, chipVars
    <2>4. QED
      BY <1>7, <2>1, <2>2, <2>3
  <1>8. CASE AbortRequest
    <2>1. PICK bits \in SUBSET Flags : WriteCtrl(bits)
      BY <1>1, <1>8 DEF AbortRequest, Flags
    <2>2. QED
      BY <1>1, <1>8, <2>1, TransferTypes
      DEF AbortRequest, McpTypeOK, DriverSteps
  <1>9. CASE \E b \in Buffers : StartFrame(b)
    BY <1>1, <1>9 DEF StartFrame, McpTypeOK, driverVars
  <1>10. CASE FinishFrame
    <2>1. wire.frame \in 0 .. calls
      BY <1>10 DEF FinishFrame, McpTypeOK
    <2>2. bus' \in Seq(0 .. calls)
      BY <1>1, <1>10, <2>1 DEF FinishFrame
    <2>3. ctrl' \in [Buffers -> SUBSET Flags]
      BY <1>10 DEF FinishFrame, McpTypeOK
    <2>4. QED
      BY <1>10, <2>2, <2>3 DEF FinishFrame, McpTypeOK, driverVars
  <1>11. CASE \E flag \in {"TXERR", "MLOA"} : FrameLost(flag)
    <2>1. PICK flag \in {"TXERR", "MLOA"} : FrameLost(flag)
      BY <1>11
    <2>2. wire.frame \in 0 .. calls
      BY <2>1 DEF FrameLost, McpTypeOK
    <2>3. ctrl' \in [Buffers -> SUBSET Flags]
      BY <2>1 DEF FrameLost, McpTypeOK, Flags
    <2>4. QED
      BY <2>1, <2>2, <2>3 DEF FrameLost, McpTypeOK, driverVars
  <1>12. CASE UNCHANGED mcpVars
    BY <1>12 DEF mcpVars, driverVars, chipVars, McpTypeOK
  <1>13. QED
    BY <1>2, <1>3, <1>4, <1>5, <1>6, <1>7, <1>8, <1>9, <1>10, <1>11, <1>12
    DEF McpNext, DriverStep, Chip

\* The driver's variables and the chip's registers keep their types, however
\* many SPI transfers fail.
THEOREM McpTypeCorrect == McpSpec => []McpTypeOK
  BY InitMcpTypeOK, NextMcpTypeOK, PTL DEF McpSpec

(***************************************************************************)
(* sendMessage and the controller, while every SPI transfer works          *)
(***************************************************************************)

Preparing == {"probe", "load", "clear", "request"}
Waiting == {"poll", "decide", "abort"}

\* Without SPI failures only TXB0 is ever used.
ShapeInv ==
  /\ step \in DriverSteps /\ buf = 0 /\ faults = 0 /\ calls \in Nat
  /\ ctrl \in [Buffers -> SUBSET Flags] /\ content \in [Buffers -> Nat]
  /\ \A b \in Buffers \ {0} : ctrl[b] = {}

\* The frame on the wire comes from TXB0 and is newer than all on the bus.
WireInv ==
  /\ bus \in Seq(1 .. calls) /\ BusKeepsCallOrder
  /\ \/ wire = NoFrame
     \/ /\ wire = [buffer |-> 0, frame |-> wire.frame]
        /\ wire.frame \in 1 .. calls
        /\ \A i \in 1 .. Len(bus) : bus[i] < wire.frame

\* Where the frame of the last call can be at each step of sendMessage.
CallInv ==
  /\ step \in Preparing => calls \notin OnBus /\ wire.frame # calls
                             /\ calls # 0
  /\ step \in {"clear", "request"} \cup Waiting => content[0] = calls
  /\ "TXREQ" \in ctrl[0] => step \in Waiting /\ calls \notin OnBus
  /\ step \in Waiting /\ "TXREQ" \notin ctrl[0] => calls \in OnBus
  /\ step \in Waiting => calls # 0

\* The error flags the poll loop reads were raised by the frame of this call.
FlagInv ==
  /\ step \in {"request"} \cup Waiting
       => "ABTF" \notin ctrl[0] /\ ("TXERR" \in ctrl[0] => calls \in disturbed)
  /\ step = "decide"
       => /\ "ABTF" \notin read /\ ("TXERR" \in read => calls \in disturbed)
          /\ "TXREQ" \notin read => "TXREQ" \notin ctrl[0]
  /\ result # "Busy"
  /\ FailureIsOwn

McpInv == ShapeInv /\ WireInv /\ CallInv /\ FlagInv

\* Buffer 0 exists, and "no buffer" and "no frame" are told from the real ones.
LEMMA BufferZero == 0 \in Buffers /\ NumBuffers \notin Buffers
                    /\ NoFrame.buffer # 0 /\ NoFrame.frame = 0
  BY McpAssumption DEF Buffers, NoFrame

\* A transfer that cannot fail reads and writes what it should.
LEMMA TransfersWork ==
  ASSUME ShapeInv, MaxFaults = 0
  PROVE  /\ ReadCtrl => read' = ctrl[0] /\ faults' = 0
         /\ \A bits : WriteCtrl(bits) =>
              /\ ctrl' = [ctrl EXCEPT ![0] = bits]
              /\ ctrl'[0] = bits
              /\ \A b \in Buffers \ {0} : ctrl'[b] = {}
              /\ faults' = 0
         /\ ~Fault
  BY BufferZero DEF ShapeInv, ReadCtrl, WriteCtrl, Fault

\* The loop only ever uses buffer 0: nothing else is requested or on the wire.
LEMMA OneRequest ==
  ASSUME ShapeInv
  PROVE  /\ Requested = IF "TXREQ" \in ctrl[0] THEN {0} ELSE {}
         /\ Origin = IF "TXREQ" \in ctrl[0]
                         /\ wire = [buffer |-> 0, frame |-> content[0]]
                     THEN {0} ELSE {}
  <1>1. Requested = IF "TXREQ" \in ctrl[0] THEN {0} ELSE {}
    BY BufferZero DEF ShapeInv, Requested
  <1>2. QED
    BY <1>1 DEF Origin

\* The invariant at rest.
LEMMA InitMcpInv == McpInit => McpInv
  BY BufferZero
  DEF McpInit, McpInv, ShapeInv, WireInv, CallInv, FlagInv, DriverSteps,
      Preparing, Waiting, BusKeepsCallOrder, OnBus, FailureIsOwn, Flags

\* A new call: its number is larger than that of every frame there is.
LEMMA BeginSendMcpInv ==
  ASSUME McpInv, BeginSend PROVE McpInv'
  <1>1. /\ step = "idle" /\ step' = "probe" /\ calls' = calls + 1 /\ buf' = 0
        /\ UNCHANGED <<read, timer, result, faults, ctrl, content, wire, bus,
                       disturbed>>
        /\ calls \in Nat /\ bus \in Seq(1 .. calls)
    BY DEF BeginSend, chipVars, McpInv, ShapeInv, WireInv
  <1>2. ShapeInv'
    BY <1>1 DEF McpInv, ShapeInv, DriverSteps
  <1>3. /\ bus \in Seq(1 .. calls + 1) /\ calls + 1 \notin OnBus
        /\ 1 .. calls \subseteq 1 .. calls + 1
    BY <1>1 DEF OnBus
  <1>4. wire.frame # calls + 1
    BY <1>1, BufferZero DEF McpInv, WireInv
  <1>5. WireInv'
    BY <1>1, <1>3 DEF McpInv, WireInv, BusKeepsCallOrder
  <1>6. CallInv'
    BY <1>1, <1>3, <1>4 DEF McpInv, CallInv, OnBus, Preparing, Waiting
  <1>7. FlagInv'
    BY <1>1 DEF McpInv, FlagInv, FailureIsOwn, Waiting
  <1>8. QED
    BY <1>2, <1>5, <1>6, <1>7 DEF McpInv

\* Steps of the driver leave the bus and the wire alone.
LEMMA DriverKeepsWire ==
  ASSUME McpInv, UNCHANGED <<calls, wire, bus>> PROVE WireInv'
  BY DEF McpInv, WireInv, BusKeepsCallOrder

\* Filling and requesting the buffer keeps it.
LEMMA PrepareMcpInv ==
  ASSUME McpInv, MaxFaults = 0,
         ProbeBuffer \/ LoadBuffer \/ ClearFlags \/ RequestToSend
  PROVE  McpInv'
  <1>1. ShapeInv /\ CallInv /\ FlagInv /\ buf = 0
    BY DEF McpInv, ShapeInv
  <1>2. CASE ProbeBuffer
    <2>1. /\ step = "probe" /\ step' = "load" /\ buf' = 0 /\ faults' = 0
          /\ UNCHANGED <<timer, calls, result, ctrl, content, wire, bus,
                         disturbed>>
      BY <1>1, <1>2, TransfersWork
      DEF ProbeBuffer, chipVars, CallInv, Waiting
    <2>2. QED
      BY <1>1, <2>1, DriverKeepsWire
      DEF McpInv, ShapeInv, CallInv, FlagInv, DriverSteps, Preparing, Waiting,
          OnBus, FailureIsOwn
  <1>3. CASE LoadBuffer
    <2>1. /\ step = "load" /\ step' = "clear" /\ buf' = 0 /\ faults' = 0
          /\ content' = [content EXCEPT ![0] = calls]
          /\ UNCHANGED <<timer, calls, result, ctrl, wire, bus, disturbed>>
      BY <1>1, <1>3, TransfersWork DEF LoadBuffer, ShapeInv
    <2>2. content' \in [Buffers -> Nat] /\ content'[0] = calls
      BY <1>1, <2>1, BufferZero DEF ShapeInv
    <2>3. QED
      BY <1>1, <2>1, <2>2, DriverKeepsWire
      DEF McpInv, ShapeInv, CallInv, FlagInv, DriverSteps, Preparing, Waiting,
          OnBus, FailureIsOwn
  <1>4. CASE ClearFlags
    <2>1. /\ step = "clear" /\ step' = "request" /\ buf' = 0 /\ faults' = 0
          /\ ctrl' = [ctrl EXCEPT ![0] = ctrl[0] \ {"ABTF", "MLOA", "TXERR"}]
          /\ ctrl'[0] = ctrl[0] \ {"ABTF", "MLOA", "TXERR"}
          /\ \A b \in Buffers \ {0} : ctrl'[b] = {}
          /\ UNCHANGED <<timer, calls, result, content, wire, bus, disturbed>>
      BY <1>1, <1>4, TransfersWork DEF ClearFlags
    <2>2. ctrl' \in [Buffers -> SUBSET Flags]
      BY <1>1, <2>1, BufferZero DEF ShapeInv
    <2>3. QED
      BY <1>1, <2>1, <2>2, DriverKeepsWire
      DEF McpInv, ShapeInv, CallInv, FlagInv, DriverSteps, Preparing, Waiting,
          OnBus, FailureIsOwn
  <1>5. CASE RequestToSend
    <2>1. /\ step = "request" /\ step' = "poll" /\ buf' = 0 /\ faults' = 0
          /\ ctrl' = [ctrl EXCEPT ![0] = ctrl[0] \cup {"TXREQ"}]
          /\ ctrl'[0] = ctrl[0] \cup {"TXREQ"}
          /\ \A b \in Buffers \ {0} : ctrl'[b] = {}
          /\ UNCHANGED <<calls, result, content, wire, bus, disturbed>>
      BY <1>1, <1>5, TransfersWork DEF RequestToSend
    <2>2. ctrl' \in [Buffers -> SUBSET Flags]
      BY <1>1, <2>1, BufferZero DEF ShapeInv, Flags
    <2>3. QED
      BY <1>1, <2>1, <2>2, DriverKeepsWire
      DEF McpInv, ShapeInv, CallInv, FlagInv, DriverSteps, Preparing, Waiting,
          OnBus, FailureIsOwn
  <1>6. QED
    BY <1>2, <1>3, <1>4, <1>5

\* So do the polls, the end of the call and the passing of time.
LEMMA WaitMcpInv ==
  ASSUME McpInv, MaxFaults = 0,
         PollCtrl \/ Completed \/ KeepWaiting \/ AbortRequest \/ Tick
  PROVE  McpInv'
  <1>1. ShapeInv /\ CallInv /\ FlagInv /\ buf = 0 /\ faults = 0
    BY DEF McpInv, ShapeInv
  <1>2. CASE PollCtrl
    <2>1. /\ step = "poll" /\ step' = "decide" /\ buf' = 0 /\ faults' = 0
          /\ read' = ctrl[0]
          /\ UNCHANGED <<timer, calls, result, ctrl, content, wire, bus,
                         disturbed>>
      BY <1>1, <1>2, TransfersWork DEF PollCtrl, chipVars
    <2>2. QED
      BY <1>1, <2>1, DriverKeepsWire
      DEF McpInv, ShapeInv, CallInv, FlagInv, DriverSteps, Preparing, Waiting,
          OnBus, FailureIsOwn
  <1>3. CASE Completed
    <2>1. /\ step = "decide" /\ step' = "idle" /\ "TXREQ" \notin read
          /\ result' = IF {"ABTF", "TXERR"} \cap read # {} THEN "Failed"
                       ELSE "Ok"
          /\ UNCHANGED <<buf, read, faults, calls, ctrl, content, wire, bus,
                         disturbed>>
      BY <1>3 DEF Completed, chipVars
    <2>2. result' # "Busy" /\ (result' = "Failed" => calls \in disturbed)
          /\ "TXREQ" \notin ctrl[0]
      BY <1>1, <2>1 DEF FlagInv
    <2>3. QED
      BY <1>1, <2>1, <2>2, DriverKeepsWire
      DEF McpInv, ShapeInv, CallInv, FlagInv, DriverSteps, Preparing, Waiting,
          OnBus, FailureIsOwn
  <1>4. CASE KeepWaiting
    <2>1. /\ step = "decide" /\ step' \in {"abort", "poll"}
          /\ UNCHANGED <<buf, read, faults, result, calls, ctrl, content,
                         wire, bus, disturbed>>
      BY <1>4 DEF KeepWaiting, chipVars
    <2>2. QED
      BY <1>1, <2>1, DriverKeepsWire
      DEF McpInv, ShapeInv, CallInv, FlagInv, DriverSteps, Preparing, Waiting,
          OnBus, FailureIsOwn
  <1>5. CASE AbortRequest
    <2>1. /\ step = "abort" /\ step' = "idle" /\ result' = "Timeout"
          /\ buf' = 0 /\ faults' = 0
          /\ "TXREQ" \notin ctrl'[0]
          /\ \A b \in Buffers \ {0} : ctrl'[b] = {}
          /\ UNCHANGED <<calls, content, wire, bus, disturbed>>
      BY <1>1, <1>5, TransfersWork DEF AbortRequest
    <2>2. ctrl' \in [Buffers -> SUBSET Flags]
      <3>1. PICK bits \in SUBSET Flags : WriteCtrl(bits)
        BY <1>1, <1>5, BufferZero DEF AbortRequest, ShapeInv, Flags
      <3>2. ctrl' = [ctrl EXCEPT ![0] = bits]
        BY <1>1, <3>1, TransfersWork
      <3>3. QED
        BY <1>1, <3>2, BufferZero DEF ShapeInv
    <2>3. QED
      BY <1>1, <2>1, <2>2, DriverKeepsWire
      DEF McpInv, ShapeInv, CallInv, FlagInv, DriverSteps, Preparing, Waiting,
          OnBus, FailureIsOwn
  <1>6. CASE Tick
    <2>1. UNCHANGED <<step, buf, read, faults, result, calls, ctrl, content,
                      wire, bus, disturbed>>
      BY <1>6 DEF Tick, chipVars
    <2>2. QED
      BY <1>1, <2>1, DriverKeepsWire
      DEF McpInv, ShapeInv, CallInv, FlagInv, DriverSteps, Preparing, Waiting,
          OnBus, FailureIsOwn
  <1>7. QED
    BY <1>2, <1>3, <1>4, <1>5, <1>6

\* A requested frame is the one of the call in progress, which has not been
\* sent before.
LEMMA StartFrameMcpInv ==
  ASSUME McpInv, NEW b \in Buffers, StartFrame(b) PROVE McpInv'
  <1>1. b = 0 /\ "TXREQ" \in ctrl[0]
    BY OneRequest DEF StartFrame, McpInv
  <1>2. /\ step \in Waiting /\ calls \notin OnBus /\ content[0] = calls
        /\ calls # 0 /\ calls \in Nat
    BY <1>1 DEF McpInv, CallInv, ShapeInv
  <1>3. /\ wire' = [buffer |-> 0, frame |-> calls]
        /\ UNCHANGED <<step, buf, read, result, calls, faults, ctrl, content,
                       bus, disturbed>>
    BY <1>1, <1>2 DEF StartFrame, driverVars
  <1>4. bus \in Seq(1 .. calls)
        /\ \A i \in 1 .. Len(bus) : bus[i] < calls
    BY <1>2 DEF McpInv, WireInv, OnBus
  <1>5. WireInv'
    BY <1>2, <1>3, <1>4 DEF McpInv, WireInv, BusKeepsCallOrder
  <1>6. QED
    BY <1>2, <1>3, <1>5
    DEF McpInv, ShapeInv, CallInv, FlagInv, Preparing, Waiting, OnBus,
        FailureIsOwn

\* The end of a frame clears the request only if it is the frame that is
\* requested.
LEMMA FinishFrameMcpInv ==
  ASSUME McpInv, FinishFrame PROVE McpInv'
  <1>1. /\ ShapeInv /\ WireInv /\ CallInv /\ FlagInv
        /\ wire = [buffer |-> 0, frame |-> wire.frame]
        /\ wire.frame \in 1 .. calls
        /\ \A i \in 1 .. Len(bus) : bus[i] < wire.frame
        /\ bus \in Seq(1 .. calls) /\ BusKeepsCallOrder /\ calls \in Nat
    BY DEF McpInv, WireInv, FinishFrame, ShapeInv
  <1>2. PICK kept \in {{}, {"TXERR"}} :
          ctrl' = [b \in Buffers |->
                     IF b \in Origin THEN ctrl[b] \cap kept ELSE ctrl[b]]
    BY DEF FinishFrame
  <1>3. /\ bus' = Append(bus, wire.frame) /\ wire' = NoFrame
        /\ UNCHANGED <<step, buf, read, timer, result, calls, faults, content,
                       disturbed>>
    BY DEF FinishFrame, driverVars
  <1>4. /\ ctrl' \in [Buffers -> SUBSET Flags]
        /\ \A b \in Buffers \ {0} : ctrl'[b] = {}
        /\ ctrl'[0] \subseteq ctrl[0]
        /\ "TXREQ" \in ctrl'[0] <=> "TXREQ" \in ctrl[0]
                                     /\ wire.frame # content[0]
    BY <1>1, <1>2, OneRequest, BufferZero DEF ShapeInv, Flags
  <1>5. /\ bus' \in Seq(1 .. calls)
        /\ Len(bus') = Len(bus) + 1 /\ Len(bus) \in Nat
        /\ \A i \in 1 .. Len(bus') :
             bus'[i] = IF i <= Len(bus) THEN bus[i] ELSE wire.frame
    BY <1>1, <1>3
  <1>6. OnBus' = OnBus \cup {wire.frame}
    BY <1>5 DEF OnBus
  <1>7. BusKeepsCallOrder'
    <2>1. SUFFICES ASSUME NEW i \in 1 .. Len(bus'), NEW j \in 1 .. Len(bus'),
                          i < j
                   PROVE  bus'[i] < bus'[j]
      BY DEF BusKeepsCallOrder
    <2>2. i \in 1 .. Len(bus) /\ bus'[i] = bus[i]
      BY <1>5, <2>1
    <2>3. CASE j \in 1 .. Len(bus)
      BY <1>1, <1>5, <2>1, <2>2, <2>3 DEF BusKeepsCallOrder
    <2>4. CASE j \notin 1 .. Len(bus)
      BY <1>1, <1>5, <2>1, <2>2, <2>4
    <2>5. QED
      BY <2>3, <2>4
  <1>8. ShapeInv' /\ WireInv'
    BY <1>1, <1>3, <1>4, <1>5, <1>7 DEF ShapeInv, WireInv
  <1>9. CallInv'
    BY <1>1, <1>3, <1>4, <1>6, BufferZero DEF CallInv, Preparing, Waiting
  <1>10. FlagInv'
    BY <1>1, <1>3, <1>4 DEF FlagInv, FailureIsOwn
  <1>11. QED
    BY <1>8, <1>9, <1>10 DEF McpInv

\* An error is flagged only on the frame that is requested.
LEMMA FrameLostMcpInv ==
  ASSUME McpInv, NEW flag \in {"TXERR", "MLOA"}, FrameLost(flag)
  PROVE  McpInv'
  <1>1. /\ ShapeInv /\ WireInv /\ CallInv /\ FlagInv
        /\ wire = [buffer |-> 0, frame |-> wire.frame]
    BY DEF McpInv, WireInv, FrameLost
  <1>2. /\ wire' = NoFrame
        /\ ctrl' = [b \in Buffers |->
                      IF b \in Origin THEN ctrl[b] \cup {flag} ELSE ctrl[b]]
        /\ disturbed' = IF flag = "TXERR" THEN disturbed \cup {wire.frame}
                        ELSE disturbed
        /\ UNCHANGED <<step, buf, read, timer, result, calls, faults, content,
                       bus>>
    BY DEF FrameLost, driverVars
  <1>3. /\ ctrl' \in [Buffers -> SUBSET Flags]
        /\ \A b \in Buffers \ {0} : ctrl'[b] = {}
        /\ "TXREQ" \in ctrl'[0] <=> "TXREQ" \in ctrl[0]
        /\ "ABTF" \in ctrl'[0] <=> "ABTF" \in ctrl[0]
        /\ "TXERR" \in ctrl'[0] =>
             \/ "TXERR" \in ctrl[0]
             \/ "TXREQ" \in ctrl[0] /\ content[0] \in disturbed'
        /\ disturbed \subseteq disturbed'
    BY <1>1, <1>2, OneRequest, BufferZero DEF ShapeInv, Flags
  <1>4. ShapeInv' /\ WireInv'
    BY <1>1, <1>2, <1>3 DEF ShapeInv, WireInv, BusKeepsCallOrder
  <1>5. CallInv'
    BY <1>1, <1>2, <1>3, BufferZero
    DEF CallInv, Preparing, Waiting, OnBus
  <1>6. FlagInv'
    BY <1>1, <1>2, <1>3 DEF CallInv, FlagInv, FailureIsOwn, Waiting
  <1>7. QED
    BY <1>4, <1>5, <1>6 DEF McpInv

\* Every step of the driver and of the controller keeps it.
LEMMA NextMcpInv ==
  ASSUME McpInv, MaxFaults = 0, [McpNext]_mcpVars PROVE McpInv'
  <1>1. CASE UNCHANGED mcpVars
    BY <1>1
    DEF mcpVars, driverVars, chipVars, McpInv, ShapeInv, WireInv, CallInv,
        FlagInv, BusKeepsCallOrder, OnBus, FailureIsOwn
  <1>2. CASE McpNext
    BY <1>2, BeginSendMcpInv, PrepareMcpInv, WaitMcpInv, StartFrameMcpInv,
       FinishFrameMcpInv, FrameLostMcpInv
    DEF McpNext, DriverStep, Chip
  <1>3. QED
    BY <1>1, <1>2

\* The frames that may still reach the bus, as Contract has them.
Pending ==
  {content[b] : b \in Requested} \cup ({wire.frame} \ {0})
    \cup (IF step \in {"probe", "load", "clear", "request"} THEN {calls} ELSE {})

\* They are the frame of this call, until it is settled, and the one on the
\* wire.
PendingFrames ==
  Pending = (IF "TXREQ" \in ctrl[0] \/ step \in Preparing THEN {calls} ELSE {})
              \cup (IF wire = NoFrame THEN {} ELSE {wire.frame})

\* The pending frames, in terms of buffer 0: the last call's, or none.
LEMMA PendingIs == McpInv => PendingFrames
  <1>1. SUFFICES ASSUME McpInv PROVE PendingFrames
    OBVIOUS
  <1>2. {content[b] : b \in Requested}
          = IF "TXREQ" \in ctrl[0] THEN {calls} ELSE {}
    BY <1>1, OneRequest DEF McpInv, CallInv, Waiting
  <1>3. {wire.frame} \ {0} = IF wire = NoFrame THEN {} ELSE {wire.frame}
    BY <1>1, BufferZero DEF McpInv, WireInv
  <1>4. QED
    BY <1>2, <1>3 DEF Pending, PendingFrames, Preparing

\* The same after a step.
LEMMA NextPendingIs == McpInv' => PendingFrames'
  BY PendingIs, PTL

\* A frame on the wire has not been on the bus, so it is not that of a call
\* whose frame has.
LEMMA WireIsNew ==
  ASSUME McpInv
  PROVE  /\ wire # NoFrame => wire.frame \notin OnBus /\ wire.frame \in 1 .. calls
         /\ OnBus \subseteq 1 .. calls
  BY DEF McpInv, ShapeInv, WireInv, OnBus

\* A call begins: the contract's Handover.
LEMMA BeginSendIsHandover ==
  ASSUME McpInv, McpInv', BeginSend PROVE Contract!CanStep(result')
  <1>1. /\ step = "idle" /\ step' = "probe"
        /\ calls < MaxCalls /\ calls' = calls + 1
        /\ UNCHANGED <<ctrl, content, wire, bus>>
    BY DEF BeginSend, chipVars
  <1>2. "TXREQ" \notin ctrl[0]
    BY <1>1 DEF McpInv, CallInv, Waiting
  <1>3. Pending' = Pending \cup {calls + 1}
    BY <1>1, <1>2, PendingIs, NextPendingIs DEF PendingFrames, Preparing
  <1>4. OnBus' = OnBus
    BY <1>1 DEF OnBus
  <1>5. QED
    BY <1>1, <1>3, <1>4 DEF Contract!CanStep, Contract!Handover, Pending

\* What the contract sees is unchanged.
LEMMA ContractStutters ==
  ASSUME calls' = calls, OnBus' = OnBus, Pending' = Pending,
         step # "idle" <=> step' # "idle"
  PROVE  UNCHANGED Contract!canVars
  BY DEF Contract!canVars, Pending

\* While the buffer is prepared, the contract sees no step.
LEMMA PreparationStutters ==
  ASSUME McpInv, McpInv', MaxFaults = 0,
         ProbeBuffer \/ LoadBuffer \/ ClearFlags \/ RequestToSend
  PROVE  UNCHANGED Contract!canVars
  <1>1. /\ step \in Preparing /\ step' # "idle" /\ step # "idle"
        /\ UNCHANGED <<calls, wire, bus>>
        /\ step' \in Preparing \/ "TXREQ" \in ctrl'[0]
    <2>1. ShapeInv /\ buf = 0
      BY DEF McpInv, ShapeInv
    <2>2. CASE ProbeBuffer
      BY <2>1, <2>2, TransfersWork
      DEF ProbeBuffer, Preparing, chipVars, McpInv, CallInv, Waiting
    <2>3. CASE LoadBuffer \/ ClearFlags
      BY <2>3 DEF LoadBuffer, ClearFlags, Preparing
    <2>4. CASE RequestToSend
      BY <2>1, <2>4, TransfersWork DEF RequestToSend, Preparing
    <2>5. QED
      BY <2>2, <2>3, <2>4
  <1>2. Pending' = Pending
    BY <1>1, PendingIs, NextPendingIs DEF PendingFrames
  <1>3. OnBus' = OnBus
    BY <1>1 DEF OnBus
  <1>4. QED
    BY <1>1, <1>2, <1>3, ContractStutters

\* While the loop waits, it sees none either.
LEMMA WaitingStutters ==
  ASSUME McpInv, McpInv', PollCtrl \/ KeepWaiting \/ Tick
  PROVE  UNCHANGED Contract!canVars
  <1>1. /\ step \notin Preparing /\ step' \notin Preparing
        /\ step # "idle" /\ step' # "idle"
        /\ UNCHANGED <<calls, ctrl, wire, bus>>
    BY DEF PollCtrl, KeepWaiting, Tick, Preparing, chipVars
  <1>2. Pending' = Pending
    BY <1>1, PendingIs, NextPendingIs DEF PendingFrames
  <1>3. OnBus' = OnBus
    BY <1>1 DEF OnBus
  <1>4. QED
    BY <1>1, <1>2, <1>3, ContractStutters

\* The call returns Ok or Failed: its frame is on the bus and nothing of it
\* is left in the controller.
LEMMA CompletedReturns ==
  ASSUME McpInv, McpInv', Completed PROVE Contract!CanStep(result')
  <1>1. /\ step = "decide" /\ step' = "idle"
        /\ result' \in {"Ok", "Failed"}
        /\ "TXREQ" \notin ctrl[0]
        /\ UNCHANGED <<calls, ctrl, wire, bus>>
    BY DEF Completed, chipVars, McpInv, FlagInv
  <1>2. calls \in OnBus
    BY <1>1 DEF McpInv, CallInv, Waiting
  <1>3. Pending' = Pending /\ calls \notin Pending
    BY <1>1, <1>2, PendingIs, NextPendingIs, WireIsNew
    DEF PendingFrames, Preparing
  <1>4. OnBus' = OnBus
    BY <1>1 DEF OnBus
  <1>5. Pending' = Pending \ {calls}
    BY <1>3
  <1>6. QED
    BY <1>1, <1>2, <1>3, <1>4, <1>5
    DEF Contract!CanStep, Contract!Return, Pending

\* The call returns Timeout: its frame is gone, or on the wire.
LEMMA AbortReturns ==
  ASSUME McpInv, McpInv', MaxFaults = 0, AbortRequest
  PROVE  Contract!CanStep(result')
  <1>1. /\ step = "abort" /\ step' = "idle" /\ result' = "Timeout"
        /\ "TXREQ" \notin ctrl'[0]
        /\ UNCHANGED <<calls, wire, bus>>
    <2>1. ShapeInv /\ buf = 0
      BY DEF McpInv, ShapeInv
    <2>2. QED
      BY <2>1, TransfersWork DEF AbortRequest
  <1>2. Pending' \in {Pending, Pending \ {calls}}
    <2>1. Pending' = IF wire = NoFrame THEN {} ELSE {wire.frame}
      BY <1>1, NextPendingIs DEF PendingFrames, Preparing
    <2>2. Pending = (IF "TXREQ" \in ctrl[0] THEN {calls} ELSE {}) \cup Pending'
      BY <1>1, <2>1, PendingIs DEF PendingFrames, Preparing
    <2>3. QED
      BY <2>1, <2>2
  <1>3. OnBus' = OnBus
    BY <1>1 DEF OnBus
  <1>4. QED
    BY <1>1, <1>2, <1>3 DEF Contract!CanStep, Contract!Return, Pending

\* A frame that starts on the wire is pending before and after.
LEMMA StartFrameStutters ==
  ASSUME McpInv, McpInv', NEW b \in Buffers, StartFrame(b)
  PROVE  UNCHANGED Contract!canVars
  <1>1. /\ "TXREQ" \in ctrl[0] /\ wire = NoFrame
        /\ wire'.frame = calls
        /\ UNCHANGED <<step, calls, ctrl, bus>>
    BY OneRequest DEF StartFrame, driverVars, McpInv, CallInv, Waiting
  <1>2. Pending' = Pending
    BY <1>1, PendingIs, NextPendingIs DEF PendingFrames
  <1>3. OnBus' = OnBus
    BY <1>1 DEF OnBus
  <1>4. QED
    BY <1>1, <1>2, <1>3, ContractStutters

\* A frame gets through.
LEMMA FinishFrameIsFrameOnBus ==
  ASSUME McpInv, McpInv', FinishFrame PROVE Contract!CanStep(result')
  <1>1. /\ wire # NoFrame /\ wire' = NoFrame
        /\ bus' = Append(bus, wire.frame)
        /\ UNCHANGED <<step, calls>>
        /\ bus \in Seq(1 .. calls) /\ wire.frame \in 1 .. calls
    BY DEF FinishFrame, driverVars, McpInv, WireInv
  <1>2. OnBus' = OnBus \cup {wire.frame}
    <2>1. /\ Len(bus') = Len(bus) + 1 /\ Len(bus) \in Nat
          /\ \A i \in 1 .. Len(bus') :
               bus'[i] = IF i <= Len(bus) THEN bus[i] ELSE wire.frame
      BY <1>1
    <2>2. QED
      BY <2>1 DEF OnBus
  <1>3. "TXREQ" \in ctrl'[0] <=> "TXREQ" \in ctrl[0] /\ wire.frame # calls
    BY <1>1, OneRequest, BufferZero
    DEF FinishFrame, McpInv, ShapeInv, CallInv, WireInv, Waiting
  <1>4. step \in Preparing => wire.frame # calls
    BY DEF McpInv, CallInv
  <1>5. Pending' = Pending \ {wire.frame} /\ wire.frame \in Pending
    BY <1>1, <1>3, <1>4, PendingIs, NextPendingIs DEF PendingFrames
  <1>6. PICK c \in Pending : c = wire.frame
    BY <1>5
  <1>7. Contract!FrameOnBus(c)
    BY <1>1, <1>2, <1>5, <1>6 DEF Contract!FrameOnBus, Pending
  <1>8. QED
    BY <1>6, <1>7, Zenon DEF Contract!CanStep, Pending

\* A frame leaves the wire: the controller will try it again, or it was
\* withdrawn and is lost.
LEMMA FrameLostIsAllowed ==
  ASSUME McpInv, McpInv', NEW flag \in {"TXERR", "MLOA"}, FrameLost(flag)
  PROVE  Contract!CanStep(result') \/ UNCHANGED Contract!canVars
  <1>1. /\ wire # NoFrame /\ wire' = NoFrame
        /\ UNCHANGED <<step, calls, bus>>
    BY DEF FrameLost, driverVars
  <1>2. "TXREQ" \in ctrl'[0] <=> "TXREQ" \in ctrl[0]
    BY OneRequest, BufferZero DEF FrameLost, McpInv, ShapeInv
  <1>3. OnBus' = OnBus
    BY <1>1 DEF OnBus
  <1>4. CASE "TXREQ" \in ctrl[0] /\ wire.frame = calls
    <2>1. Pending' = Pending
      BY <1>1, <1>2, <1>4, PendingIs, NextPendingIs DEF PendingFrames
    <2>2. QED
      BY <1>1, <1>3, <2>1, ContractStutters
  <1>5. CASE ~("TXREQ" \in ctrl[0] /\ wire.frame = calls)
    <2>1. wire.frame = calls => step = "idle"
      BY <1>1, <1>5, WireIsNew
      DEF McpInv, CallInv, ShapeInv, DriverSteps, Preparing, Waiting
    <2>2. step \in Preparing => wire.frame # calls
      BY <2>1 DEF Preparing
    <2>3. Pending' = Pending \ {wire.frame} /\ wire.frame \in Pending
      BY <1>1, <1>2, <1>5, <2>2, PendingIs, NextPendingIs DEF PendingFrames
    <2>4. PICK c \in Pending : c = wire.frame
      BY <2>3
    <2>5. Contract!LateFrameLost(c)
      BY <1>1, <1>3, <2>1, <2>3, <2>4 DEF Contract!LateFrameLost, Pending
    <2>6. QED
      BY <2>4, <2>5, Zenon DEF Contract!CanStep, Pending
  <1>6. QED
    BY <1>4, <1>5

\* The initial states are those of the contract.
LEMMA InitIsContractInit == McpInit => Contract!CanInit
  BY BufferZero
  DEF McpInit, Contract!CanInit, OnBus, Requested

\* Every step is one of the contract, or stutters.
LEMMA NextIsContractStep ==
  ASSUME McpInv, McpInv', MaxFaults = 0, [McpNext]_mcpVars
  PROVE  [Contract!CanStep(result')]_(Contract!canVars)
  <1>1. CASE UNCHANGED mcpVars
    <2>1. Pending' = Pending /\ OnBus' = OnBus
      BY <1>1
      DEF mcpVars, driverVars, chipVars, Pending, Requested, OnBus
    <2>2. QED
      BY <1>1, <2>1, ContractStutters DEF mcpVars, driverVars
  <1>2. CASE McpNext
    BY <1>2, BeginSendIsHandover, PreparationStutters, WaitingStutters,
       CompletedReturns, AbortReturns, StartFrameStutters,
       FinishFrameIsFrameOnBus, FrameLostIsAllowed
    DEF McpNext, DriverStep, Chip
  <1>3. QED
    BY <1>1, <1>2

(***************************************************************************)
(* The theorems.  Each is about a driver whose SPI transfers all work: the *)
(* run mcp_faulty_spi shows that one failed read is enough to make the     *)
(* driver break its contract.                                              *)
(***************************************************************************)

\* Only TXB0 is ever used, at most one frame is requested, and the flags that
\* sendMessage reads are those of its own frame.
THEOREM McpInvariant == ASSUME MaxFaults = 0 PROVE McpSpec => []McpInv
  BY InitMcpInv, NextMcpInv, PTL DEF McpSpec

\* Commands reach the bus in the order they were given and none twice, for
\* every timeout, number of calls and number of buffers.
THEOREM BusAlwaysKeepsCallOrder ==
  ASSUME MaxFaults = 0 PROVE McpSpec => []BusKeepsCallOrder
  <1>1. McpInv => BusKeepsCallOrder
    BY DEF McpInv, WireInv
  <1>2. QED
    BY <1>1, McpInvariant, PTL

\* No request outlives its call, however many calls time out.
THEOREM NothingEverRequestedWhenIdle ==
  ASSUME MaxFaults = 0 PROVE McpSpec => []NothingRequestedWhenIdle
  <1>1. McpInv => NothingRequestedWhenIdle
    BY OneRequest DEF McpInv, CallInv, FlagInv, Waiting, NothingRequestedWhenIdle
  <1>2. QED
    BY <1>1, McpInvariant, PTL

\* A call is never failed for an error of an earlier frame.
THEOREM FailureIsAlwaysOwn ==
  ASSUME MaxFaults = 0 PROVE McpSpec => []FailureIsOwn
  <1>1. McpInv => FailureIsOwn
    BY DEF McpInv, FlagInv
  <1>2. QED
    BY <1>1, McpInvariant, PTL

\* sendMessage keeps the contract the gateway relies on: every call returns a
\* result that CanTransmit allows there, and every frame goes where it may.
THEOREM DriverKeepsContract ==
  ASSUME MaxFaults = 0 PROVE McpSpec => ImplementsCanTransmit
  BY InitIsContractInit, NextIsContractStep, McpInvariant, PTL
  DEF McpSpec, ImplementsCanTransmit
=============================================================================
