--------------------------- MODULE CommandRouter ---------------------------
(***************************************************************************)
(* can_command_router: is_valid_config and build_frame, the translation of *)
(* a decoded message into one classic CAN frame under a configuration of   *)
(* two tables.  Both are pure functions of their arguments.                *)
(*                                                                         *)
(* The message is a record [type, isResponse, message_id, payload]; its    *)
(* payload_length is Len(payload).  A validator (a function pointer) is a  *)
(* name, and Accepts gives the payloads it returns true for.               *)
(***************************************************************************)
EXTENDS Integers, Sequences

CONSTANTS
  Validators,   \* the validator functions
  Accepts       \* the payloads each of them returns true for

Byte == 0 .. 255

ASSUME AcceptsAssumption == DOMAIN Accepts = Validators
ASSUME NullptrAssumption == "nullptr" \notin Validators

Nullptr == "nullptr"

INVALID_ECU_ID == 0
CLASSIC_CAN_MAX_DATA_LENGTH == 8
\* Fault: no room is left for the command byte.
PayloadFillsFrame == CLASSIC_CAN_MAX_DATA_LENGTH
MAX_COMMAND_PAYLOAD_LENGTH == CLASSIC_CAN_MAX_DATA_LENGTH - 1

\* CAN identifiers are uint32_t; no arithmetic is done on them.
EcuDefinition == [ecu_id : Byte, command_can_identifier : Nat,
                  extended_identifier : BOOLEAN]

CommandRoute == [remote_message_id : 0 .. 2^16 - 1, destination_ecu : Byte,
                 ecu_command_id : Byte, expected_payload_length : Byte,
                 validate_payload : Validators \cup {Nullptr}]

\* An absent table is an empty one: both are refused alike.
Config == [ecu_registry : Seq(EcuDefinition),
           command_routes : Seq(CommandRoute)]

CanFrame == [identifier : Nat, extended_identifier : BOOLEAN,
             data : Seq(Byte)]

EmptyFrame == [identifier |-> 0, extended_identifier |-> FALSE, data |-> <<>>]

(***************************************************************************)
(* Table lookups: indices that match; find_ecu and find_route return the   *)
(* first.                                                                  *)
(***************************************************************************)
EcusWith(config, id) ==
  {i \in DOMAIN config.ecu_registry : config.ecu_registry[i].ecu_id = id}

RoutesFor(config, id) ==
  {i \in DOMAIN config.command_routes :
     config.command_routes[i].remote_message_id = id}

First(indices) == CHOOSE i \in indices : \A j \in indices : i <= j

FindEcu(config, id) == config.ecu_registry[First(EcusWith(config, id))]
FindRoute(config, id) == config.command_routes[First(RoutesFor(config, id))]

(***************************************************************************)
(* is_valid_config                                                         *)
(***************************************************************************)
IsValidCanIdentifier(ecu) ==
  IF ecu.extended_identifier
  THEN ecu.command_can_identifier <= 536870911   \* 0x1FFFFFFF
  ELSE ecu.command_can_identifier <= 2047        \* 0x7FF

HighByte(id) == id \div 256

\* Fault: a route may leave its namespace.
IsValidRouteToAnyEcu(config, route) ==
  /\ route.remote_message_id # 0
  /\ route.destination_ecu # INVALID_ECU_ID
  /\ route.expected_payload_length <= MAX_COMMAND_PAYLOAD_LENGTH
  /\ route.validate_payload # Nullptr
  /\ EcusWith(config, route.destination_ecu) # {}

\* Fault: a route may name an ECU that is not registered.
IsValidRouteToNoEcu(config, route) ==
  /\ route.remote_message_id # 0
  /\ route.destination_ecu # INVALID_ECU_ID
  /\ route.destination_ecu = HighByte(route.remote_message_id)
  /\ route.expected_payload_length <= MAX_COMMAND_PAYLOAD_LENGTH
  /\ route.validate_payload # Nullptr

IsValidRoute(config, route) ==
  /\ route.remote_message_id # 0
  /\ route.destination_ecu # INVALID_ECU_ID
  /\ route.destination_ecu = HighByte(route.remote_message_id)
  /\ route.expected_payload_length <= MAX_COMMAND_PAYLOAD_LENGTH
  /\ route.validate_payload # Nullptr
  /\ EcusWith(config, route.destination_ecu) # {}

IsValidConfig(config) ==
  /\ config.ecu_registry # <<>> /\ config.command_routes # <<>>
  /\ \A i \in DOMAIN config.ecu_registry :
       /\ config.ecu_registry[i].ecu_id # INVALID_ECU_ID
       /\ IsValidCanIdentifier(config.ecu_registry[i])
       /\ \A j \in DOMAIN config.ecu_registry : j > i =>
            config.ecu_registry[j].ecu_id # config.ecu_registry[i].ecu_id
  /\ \A i \in DOMAIN config.command_routes :
       /\ IsValidRoute(config, config.command_routes[i])
       /\ \A j \in DOMAIN config.command_routes : j > i =>
            config.command_routes[j].remote_message_id
              # config.command_routes[i].remote_message_id

(***************************************************************************)
(* build_frame: its result, and what it leaves in the frame.               *)
(***************************************************************************)
RouteResultOf(message, config) ==
  LET route == FindRoute(config, message.message_id) IN
  IF ~IsValidConfig(config) THEN "InvalidConfiguration"
  ELSE IF message.type # "Command" \/ message.isResponse
    THEN "InvalidMessageType"
  ELSE IF RoutesFor(config, message.message_id) = {} THEN "UnknownCommand"
  ELSE IF Len(message.payload) # route.expected_payload_length
    THEN "InvalidPayloadLength"
  ELSE IF message.payload \notin Accepts[route.validate_payload]
    THEN "InvalidPayloadValue"
  ELSE IF EcusWith(config, route.destination_ecu) = {}
    THEN "InvalidConfiguration"
  ELSE "Ok"

BuildFrame(message, config) ==
  IF RouteResultOf(message, config) # "Ok" THEN EmptyFrame
  ELSE LET route == FindRoute(config, message.message_id)
           ecu == FindEcu(config, route.destination_ecu)
       IN [identifier |-> ecu.command_can_identifier,
           extended_identifier |-> ecu.extended_identifier,
           data |-> <<route.ecu_command_id>> \o message.payload]
=============================================================================
