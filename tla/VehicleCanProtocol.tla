------------------------- MODULE VehicleCanProtocol -------------------------
(***************************************************************************)
(* vehicle_can_protocol: the ECU registry and the command table of the     *)
(* car, and the payload validators the table names.                        *)
(***************************************************************************)
EXTENDS Integers, Sequences

EcuRole == [Lighting |-> 1]

LMCU100_COMMAND_CAN_ID == 257            \* 0x101
LMCU100_SOFTWARE_VERSION_CAN_ID == 256   \* 0x100

Lmcu100CommandId ==
  [GetSoftwareVersion |-> 1, Reserved |-> 2, SetIndicatorState |-> 3,
   SetExteriorLightsState |-> 4, SetBrakeState |-> 5,
   SetReverseLightState |-> 6]

MakeRemoteMessageId(destination, command) == destination * 256 + command

(***************************************************************************)
(* The validators, as the sets of payloads they accept.  Each is reached   *)
(* with a payload of the route's expected length only.                     *)
(***************************************************************************)
BinaryState == {0, 1}
ExteriorLightMode == 0 .. 3

\* Fault: left and right are not checked together.
IndependentIndicators == {<<w, l, r>> : w, l, r \in BinaryState}

ValidIndicatorStates ==   \* <<warning, left, right>>
  {<<w, l, r>> : w, l, r \in BinaryState} \ {<<w, 1, 1>> : w \in BinaryState}

ValidExteriorLightStates ==   \* <<mode, front projectors, fog, high beam>>
  {<<mode, p, f, h>> : mode \in ExteriorLightMode, p, f, h \in BinaryState}

PayloadValidators == {"any", "indicator", "exterior", "binary"}

ValidatePayload ==
  [v \in PayloadValidators |->
     CASE v = "any"       -> Seq(0 .. 255)
       [] v = "indicator" -> ValidIndicatorStates
       [] v = "exterior"  -> ValidExteriorLightStates
       [] v = "binary"    -> {<<s>> : s \in BinaryState}]

(***************************************************************************)
(* ECU_REGISTRY, COMMAND_ROUTES and make_command_router_config             *)
(***************************************************************************)
ECU_REGISTRY ==
  << [ecu_id |-> EcuRole.Lighting,
      command_can_identifier |-> LMCU100_COMMAND_CAN_ID,
      extended_identifier |-> FALSE] >>

LightingRoute(remote, command, length, validator) ==
  [remote_message_id |-> MakeRemoteMessageId(EcuRole.Lighting, remote),
   destination_ecu |-> EcuRole.Lighting,
   ecu_command_id |-> command,
   expected_payload_length |-> length,
   validate_payload |-> validator]

COMMAND_ROUTES ==
  << LightingRoute(1, Lmcu100CommandId.GetSoftwareVersion, 0, "any"),
     LightingRoute(3, Lmcu100CommandId.SetIndicatorState, 3, "indicator"),
     LightingRoute(4, Lmcu100CommandId.SetExteriorLightsState, 4, "exterior"),
     LightingRoute(5, Lmcu100CommandId.SetBrakeState, 1, "binary"),
     LightingRoute(6, Lmcu100CommandId.SetReverseLightState, 1, "binary") >>

CommandRouterConfig == [ecu_registry |-> ECU_REGISTRY,
                        command_routes |-> COMMAND_ROUTES]
=============================================================================
