-------------------------- MODULE EspNowCanGateway --------------------------
(***************************************************************************)
(* esp_now_can_gateway: process_message validates a decoded message, lets  *)
(* can_command_router::build_frame turn it into a CAN frame, hands the     *)
(* frame to Config::transmit and counts what happened.  The call is split  *)
(* where the main task waits for the CAN controller: RejectMessage or      *)
(* RouteMessage before, CountTransmission after Config::transmit returns.  *)
(* The gateway is modelled after init: application::run reaches its main   *)
(* loop only when init returned ESP_OK, and deinit has no caller.          *)
(***************************************************************************)
EXTENDS RemoteMessage

CONSTANTS
  RouteOf,        \* [Contents -> RouteResult]: build_frame under the
                  \* installed router configuration
  CounterModulus  \* 2^32 in the code: the counters are uint32_t

RouteResult == {"Ok", "InvalidConfiguration", "InvalidMessageType",
                "UnknownCommand", "InvalidPayloadLength",
                "InvalidPayloadValue"}

ASSUME RouteOfAssumption == RouteOf \in [Contents -> RouteResult]
ASSUME CounterModulusAssumption == CounterModulus \in Nat \ {0, 1}

VARIABLE statistics   \* g_statistics

Counter == 0 .. CounterModulus - 1

Statistics == [commandsRouted : Counter, framesSent : Counter,
               validationErrors : Counter, transmitErrors : Counter]

ProcessResult ==
  {"Ok", "InvalidMessage", "UnsupportedMessage", "UnknownCommand",
   "InvalidPayloadLength", "InvalidPayloadValue", "CanBusy",
   "CanTransmitFailed", "CanTimeout"}

MapRouteResult(r) ==
  CASE r = "InvalidConfiguration" -> "CanTransmitFailed"
    [] r = "InvalidMessageType"   -> "UnsupportedMessage"
    [] OTHER                      -> r

\* Fault: a request withdrawn at its deadline counts as transmitted.
MapTimeoutToOk(r) ==
  CASE r \in {"Ok", "Timeout"} -> "Ok"
    [] r = "Busy"              -> "CanBusy"
    [] OTHER                   -> "CanTransmitFailed"

MapTransmitResult(r) ==
  CASE r = "Ok"      -> "Ok"
    [] r = "Busy"    -> "CanBusy"
    [] r = "Timeout" -> "CanTimeout"
    [] OTHER         -> "CanTransmitFailed"

ResetStatistics ==
  [commandsRouted |-> 0, framesSent |-> 0,
   validationErrors |-> 0, transmitErrors |-> 0]

GatewayInit == statistics = ResetStatistics

Increment(n) == (n + 1) % CounterModulus

(***************************************************************************)
(* process_message.  After decode the type and flags are valid and the     *)
(* payload length bounded, so of the first validation only the response    *)
(* flag can reject.                                                        *)
(***************************************************************************)
Routable(m) == ~m.isResponse /\ RouteOf[m.content] = "Ok"

RejectionOf(m) == IF m.isResponse THEN "InvalidMessage"
                  ELSE MapRouteResult(RouteOf[m.content])

RejectMessage(m) ==
  /\ ~Routable(m)
  /\ statistics' = [statistics EXCEPT !.validationErrors = Increment(@)]

RouteMessage(m) ==
  /\ Routable(m)
  /\ statistics' = [statistics EXCEPT !.commandsRouted = Increment(@)]

\* Fault: only what is sent is counted.
CountSentOnly(result) ==
  statistics' = IF result = "Ok"
                THEN [statistics EXCEPT !.framesSent = Increment(@)]
                ELSE statistics

CountTransmission(result) ==
  statistics' = IF result = "Ok"
                THEN [statistics EXCEPT !.framesSent = Increment(@)]
                ELSE [statistics EXCEPT !.transmitErrors = Increment(@)]
=============================================================================
