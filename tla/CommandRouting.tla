--------------------------- MODULE CommandRouting ---------------------------
(***************************************************************************)
(* One call of can_command_router::build_frame, for any message, any       *)
(* configuration and any previous content of the frame it fills.           *)
(***************************************************************************)
EXTENDS CommandRouter

CONSTANTS
  Configs,    \* the configurations tried
  Messages,   \* the messages tried
  OldFrame    \* what the caller's frame held before the call

ASSUME RoutingAssumption ==
  /\ Configs \subseteq Config
  /\ \A message \in Messages :
       /\ message.payload \in Seq(Byte)
       /\ message.isResponse \in BOOLEAN

VARIABLES config, message, frame, result

routingVars == <<config, message, frame, result>>

RoutingInit ==
  /\ config \in Configs /\ message \in Messages
  /\ frame = OldFrame /\ result = "none"

RouteFrame ==
  /\ result = "none"
  /\ result' = RouteResultOf(message, config)
  /\ frame' = BuildFrame(message, config)
  /\ UNCHANGED <<config, message>>

RoutingSpec == RoutingInit /\ [][RouteFrame]_routingVars
-----------------------------------------------------------------------------
\* Whatever tables is_valid_config lets through, a frame that is routed fits a
\* classic CAN frame under an identifier of its own width, and a call that is
\* refused leaves nothing of the caller's old frame behind.
FrameFitsTheBus ==
  /\ result = "Ok" =>
       /\ Len(frame.data) \in 1 .. CLASSIC_CAN_MAX_DATA_LENGTH
       /\ frame.identifier <= IF frame.extended_identifier THEN 536870911
                              ELSE 2047
  /\ result \notin {"none", "Ok"} => frame = EmptyFrame

\* The namespace byte of the message ID alone decides which ECU a command
\* goes to: no route can send it elsewhere, whatever the table order.
NamespaceSelectsEcu ==
  result = "Ok" =>
    \E i \in DOMAIN config.ecu_registry :
      /\ config.ecu_registry[i].ecu_id = HighByte(message.message_id)
      /\ config.ecu_registry[i].command_can_identifier = frame.identifier
      /\ config.ecu_registry[i].extended_identifier
           = frame.extended_identifier
      /\ \A j \in DOMAIN config.ecu_registry :
           config.ecu_registry[j].ecu_id = HighByte(message.message_id)
             => j = i

\* A configuration that esp_now_can_gateway::init accepted is never refused
\* later: build_frame's own find_ecu failure cannot happen, so a sender never
\* sees CanTransmitFailed for a configuration error.
AcceptedConfigurationHolds ==
  IsValidConfig(config) => result # "InvalidConfiguration"
=============================================================================
