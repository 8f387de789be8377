--------------------------- MODULE MCApplication ---------------------------
(***************************************************************************)
(* Small instances of Application for TLC.                                 *)
(***************************************************************************)
EXTENDS Application, VehicleCanProtocol

CONSTANTS txu, other   \* MAC addresses

Msg(seq, ack, response, content) ==
  [seq |-> seq, ackRequested |-> ack, isResponse |-> response,
   content |-> content]

From(source, message) ==
  [source |-> source, intact |-> TRUE, message |-> message]

MCPeers == {txu, other}

(***************************************************************************)
(* Contents are real messages, and what the router says of them is         *)
(* computed with the tables of the car.                                    *)
(***************************************************************************)
Content(type, id, payload) ==
  [type |-> type, message_id |-> id, payload |-> payload]

BrakeOn   == Content("Command", 261, <<1>>)
Telemetry == Content("Telemetry", 261, <<1>>)
Unknown   == Content("Command", 258, <<>>)
BadLength == Content("Command", 261, <<>>)
BadValue  == Content("Command", 261, <<2>>)

MCContents == {BrakeOn, Telemetry, Unknown, BadLength, BadValue}
RefusedContents == {Unknown, BadValue}

Router == INSTANCE CommandRouter WITH Validators <- PayloadValidators,
                                      Accepts <- ValidatePayload

CarRoute(c) ==
  Router!RouteResultOf([type |-> c.type, isResponse |-> FALSE,
                        message_id |-> c.message_id, payload |-> c.payload],
                       CommandRouterConfig)

MCRouteOf == [c \in MCContents |-> CarRoute(c)]
RefusedRouteOf == [c \in RefusedContents |-> CarRoute(c)]

\* Requests of the peer that the router refuses for different reasons: enough
\* of them to wrap a ring of two around and to contend for a sequence number,
\* without the interleavings of the CAN driver.
Requests ==
  {From(txu, Msg(1, TRUE, FALSE, Unknown)),
   From(txu, Msg(1, TRUE, FALSE, BadValue)),
   From(txu, Msg(2, TRUE, FALSE, Unknown)),
   From(txu, Msg(3, TRUE, FALSE, Unknown))}

\* One packet for each way through process_received_packet.
Assorted ==
  {From(txu, Msg(1, TRUE, FALSE, BrakeOn)),
   From(txu, Msg(1, FALSE, FALSE, BrakeOn)),
   From(txu, Msg(2, TRUE, FALSE, Telemetry)),
   From(txu, Msg(2, TRUE, FALSE, BadLength)),
   From(txu, Msg(1, TRUE, TRUE, BrakeOn)),
   From(other, Msg(1, TRUE, FALSE, BrakeOn)),
   [From(txu, Msg(2, FALSE, FALSE, BadValue)) EXCEPT !.intact = FALSE]}

\* Retries and contention, with and without the CAN driver, and packets that
\* are ignored.
Varied ==
  {From(txu, Msg(1, TRUE, FALSE, BrakeOn)),
   From(txu, Msg(1, TRUE, FALSE, BadValue)),
   From(txu, Msg(2, TRUE, FALSE, BadValue)),
   [From(txu, Msg(2, FALSE, FALSE, BadValue)) EXCEPT !.intact = FALSE]}
=============================================================================
