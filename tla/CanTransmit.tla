---------------------------- MODULE CanTransmit ----------------------------
(***************************************************************************)
(* What the gateway may rely on when it calls Config::transmit (that is    *)
(* transmit_can_frame -> CanManager::send -> MCP2515::sendMessage): calls  *)
(* are numbered, a call hands one frame over, the frame reaches the CAN    *)
(* bus at most once, and the result says something about that.             *)
(*                                                                         *)
(*   Ok      the frame is on the bus                                       *)
(*   Busy    the frame was never handed to the controller                  *)
(*   Failed  nothing of the call is left in the controller; the frame may  *)
(*           have reached the bus before                                   *)
(*   Timeout the request was withdrawn; a frame whose bits were already    *)
(*           on the wire can still complete afterwards                     *)
(*                                                                         *)
(* Mcp2515Transmit implements this specification as long as no SPI         *)
(* transfer fails.                                                         *)
(***************************************************************************)
EXTENDS Integers

CONSTANT MaxCalls   \* bound on the number of calls

ASSUME MaxCallsAssumption == MaxCalls \in Nat

VARIABLES
  calls,     \* number of calls made so far; the last one is call `calls'
  busy,      \* the last call has not returned yet
  pending,   \* calls whose frame may still reach the bus
  onBus      \* calls whose frame has been transmitted

canVars == <<calls, busy, pending, onBus>>

TransmitResult == {"Ok", "Busy", "Failed", "Timeout"}

CanTypeOK ==
  /\ calls \in 0 .. MaxCalls
  /\ busy \in BOOLEAN
  /\ pending \subseteq 1 .. calls
  /\ onBus \subseteq 1 .. calls

CanInit == calls = 0 /\ busy = FALSE /\ pending = {} /\ onBus = {}

Handover ==
  /\ ~busy /\ calls < MaxCalls
  /\ calls' = calls + 1
  /\ busy' = TRUE
  /\ pending' = pending \cup {calls + 1}
  /\ UNCHANGED onBus

FrameOnBus(c) ==
  /\ c \in pending
  /\ pending' = pending \ {c}
  /\ onBus' = onBus \cup {c}
  /\ UNCHANGED <<calls, busy>>

\* A withdrawn frame that was on the wire loses arbitration or is destroyed.
LateFrameLost(c) ==
  /\ c \in pending /\ ~(busy /\ c = calls)
  /\ pending' = pending \ {c}
  /\ UNCHANGED <<calls, busy, onBus>>

Return(result) ==
  /\ busy
  /\ busy' = FALSE
  /\ \/ result = "Ok" /\ calls \in onBus /\ pending' = pending
     \/ result = "Busy" /\ calls \in pending /\ pending' = pending \ {calls}
     \/ result = "Failed" /\ pending' = pending \ {calls}
     \/ result = "Timeout" /\ pending' \in {pending, pending \ {calls}}
  /\ UNCHANGED <<calls, onBus>>

\* A step of the contract, in which a call that returns gives this result.
CanStep(result) ==
  \/ Handover
  \/ \E c \in pending : FrameOnBus(c) \/ LateFrameLost(c)
  \/ Return(result)

CanNext == \E result \in TransmitResult : CanStep(result)

CanSpec == CanInit /\ [][CanNext]_canVars
=============================================================================
