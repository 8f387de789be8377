---------------------------- MODULE CarCommands ----------------------------
(***************************************************************************)
(* CommandPath with the tables of the car: what its commands are, and what *)
(* the receiver makes of them.                                             *)
(***************************************************************************)
EXTENDS CommandPath, VehicleCanProtocol

RemoteCommandId ==
  {MakeRemoteMessageId(EcuRole.Lighting, c) : c \in {1, 3, 4, 5, 6}}

\* In the car, every documented command (vehicle_can_protocol.h:32-44) is
\* routed and nothing else is: always to the command identifier of LMCU100,
\* which is not the one it answers on, under the command byte that the low
\* byte of the message ID names, never the reserved one, and never with both
\* indicators on.
CarCommandsAreTranslated ==
  config = CommandRouterConfig =>
  /\ result # "none" /\ message.type = "Command" =>
       (result = "UnknownCommand" <=> message.message_id \notin RemoteCommandId)
  /\ result = "Ok" =>
       /\ frame.identifier = LMCU100_COMMAND_CAN_ID
       /\ frame.identifier # LMCU100_SOFTWARE_VERSION_CAN_ID
       /\ Head(frame.data) = message.message_id % 256
       /\ Head(frame.data) # Lmcu100CommandId.Reserved
       /\ Head(frame.data) = Lmcu100CommandId.SetIndicatorState =>
            ~(frame.data[3] = 1 /\ frame.data[4] = 1)
=============================================================================
