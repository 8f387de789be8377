--------------------------- MODULE RoutingProofs ---------------------------
(***************************************************************************)
(* is_valid_config is strong enough for build_frame, for every pair of     *)
(* tables of any length and every message; and a message comes through the *)
(* receiver whole or not at all: for every message, every configuration    *)
(* and every error the CRC is there for, its packet is refused or decoded  *)
(* to what was sent, its frame survives the registers of the MCP2515, and  *)
(* its acknowledgement names it.                                           *)
(***************************************************************************)
EXTENDS CarCommands, CodecProofs, SequenceTheorems

\* A lookup among one candidate finds it.
LEMMA FirstOfOne ==
  ASSUME NEW i \in Int, NEW S, i \in S, \A j \in S : j = i
  PROVE  First(S) = i
  <1>1. \A j \in S : i <= j
    OBVIOUS
  <1>2. QED  BY <1>1 DEF First

\* The command byte makes a payload one longer.
LEMMA CommandByteFirst ==
  ASSUME NEW command \in Byte, NEW payload \in Seq(Byte)
  PROVE  Len(<<command>> \o payload) = 1 + Len(payload)
  <1>1. <<command>> \in Seq(Byte) /\ Len(<<command>>) = 1
    OBVIOUS
  <1>2. QED  BY <1>1

\* In a valid configuration a route lookup that finds anything finds a valid
\* route for this message ID.
LEMMA RouteFound ==
  ASSUME NEW cfg \in Config, IsValidConfig(cfg), NEW id,
         RoutesFor(cfg, id) # {}
  PROVE  /\ FindRoute(cfg, id) \in CommandRoute
         /\ FindRoute(cfg, id).remote_message_id = id
         /\ IsValidRoute(cfg, FindRoute(cfg, id))
  <1> DEFINE routes == cfg.command_routes
  <1>1. routes \in Seq(CommandRoute)
    BY DEF Config
  <1>2. PICK i \in DOMAIN routes : routes[i].remote_message_id = id
    BY DEF RoutesFor
  <1>3. i \in Int /\ DOMAIN routes \subseteq Int /\ routes[i] \in CommandRoute
    BY <1>1
  <1>4. \A j \in RoutesFor(cfg, id) : j = i
    <2>1. SUFFICES ASSUME NEW j \in DOMAIN routes,
                          routes[j].remote_message_id = id
                   PROVE  j = i
      BY DEF RoutesFor
    <2>2. ~(j > i) /\ ~(i > j)
      BY <1>2, <2>1 DEF IsValidConfig
    <2>3. QED  BY <1>3, <2>2
  <1>5. First(RoutesFor(cfg, id)) = i
    BY <1>2, <1>3, <1>4, FirstOfOne DEF RoutesFor
  <1>6. FindRoute(cfg, id) = routes[i]
    BY <1>5 DEF FindRoute
  <1>7. IsValidRoute(cfg, routes[i])
    BY DEF IsValidConfig
  <1>8. QED  BY <1>2, <1>3, <1>6, <1>7

\* In a valid configuration an ECU lookup that finds anything finds the only
\* ECU of that ID, whose identifier has the width it claims.
LEMMA EcuFound ==
  ASSUME NEW cfg \in Config, IsValidConfig(cfg), NEW id,
         EcusWith(cfg, id) # {}
  PROVE  \E i \in DOMAIN cfg.ecu_registry :
           /\ FindEcu(cfg, id) = cfg.ecu_registry[i]
           /\ cfg.ecu_registry[i] \in EcuDefinition
           /\ cfg.ecu_registry[i].ecu_id = id
           /\ IsValidCanIdentifier(cfg.ecu_registry[i])
           /\ \A j \in DOMAIN cfg.ecu_registry :
                cfg.ecu_registry[j].ecu_id = id => j = i
  <1> DEFINE ecus == cfg.ecu_registry
  <1>1. ecus \in Seq(EcuDefinition)
    BY DEF Config
  <1>2. PICK i \in DOMAIN ecus : ecus[i].ecu_id = id
    BY DEF EcusWith
  <1>3. i \in Int /\ DOMAIN ecus \subseteq Int /\ ecus[i] \in EcuDefinition
    BY <1>1
  <1>4. \A j \in DOMAIN ecus : ecus[j].ecu_id = id => j = i
    <2>1. SUFFICES ASSUME NEW j \in DOMAIN ecus, ecus[j].ecu_id = id
                   PROVE  j = i
      OBVIOUS
    <2>2. ~(j > i) /\ ~(i > j)
      BY <1>2, <2>1 DEF IsValidConfig
    <2>3. QED  BY <1>3, <2>2
  <1>5. First(EcusWith(cfg, id)) = i
    BY <1>2, <1>3, <1>4, FirstOfOne DEF EcusWith
  <1>6. FindEcu(cfg, id) = ecus[i]
    BY <1>5 DEF FindEcu
  <1>7. IsValidCanIdentifier(ecus[i])
    BY DEF IsValidConfig
  <1>8. QED  BY <1>2, <1>3, <1>4, <1>6, <1>7

\* The find_ecu of build_frame cannot fail on a valid configuration.
LEMMA ValidConfigIsNeverRefused ==
  ASSUME NEW cfg \in Config, IsValidConfig(cfg), NEW msg
  PROVE  RouteResultOf(msg, cfg) # "InvalidConfiguration"
  <1>1. RoutesFor(cfg, msg.message_id) # {} =>
          EcusWith(cfg, FindRoute(cfg, msg.message_id).destination_ecu) # {}
    BY RouteFound DEF IsValidRoute
  <1>2. QED  BY <1>1 DEF RouteResultOf

\* What an "Ok" of build_frame stands for.
LEMMA OkMeans ==
  ASSUME NEW msg, NEW cfg, RouteResultOf(msg, cfg) = "Ok"
  PROVE  /\ IsValidConfig(cfg)
         /\ RoutesFor(cfg, msg.message_id) # {}
         /\ Len(msg.payload)
              = FindRoute(cfg, msg.message_id).expected_payload_length
         /\ EcusWith(cfg, FindRoute(cfg, msg.message_id).destination_ecu) # {}
  BY DEF RouteResultOf

\* A routed frame has the identifier of the ECU that the namespace byte names
\* and at most eight bytes.
LEMMA RoutedFrame ==
  ASSUME NEW msg, msg.payload \in Seq(Byte), NEW cfg \in Config,
         RouteResultOf(msg, cfg) = "Ok"
  PROVE  /\ Len(BuildFrame(msg, cfg).data) \in 1 .. CLASSIC_CAN_MAX_DATA_LENGTH
         /\ \E i \in DOMAIN cfg.ecu_registry :
              /\ BuildFrame(msg, cfg).identifier
                   = cfg.ecu_registry[i].command_can_identifier
              /\ BuildFrame(msg, cfg).extended_identifier
                   = cfg.ecu_registry[i].extended_identifier
              /\ cfg.ecu_registry[i] \in EcuDefinition
              /\ IsValidCanIdentifier(cfg.ecu_registry[i])
              /\ cfg.ecu_registry[i].ecu_id = HighByte(msg.message_id)
              /\ \A j \in DOMAIN cfg.ecu_registry :
                   cfg.ecu_registry[j].ecu_id = HighByte(msg.message_id)
                     => j = i
  <1> DEFINE route == FindRoute(cfg, msg.message_id)
             ecu == FindEcu(cfg, route.destination_ecu)
  <1>1. /\ IsValidConfig(cfg) /\ RoutesFor(cfg, msg.message_id) # {}
        /\ Len(msg.payload) = route.expected_payload_length
        /\ EcusWith(cfg, route.destination_ecu) # {}
    BY OkMeans
  <1>2. /\ route \in CommandRoute /\ route.remote_message_id = msg.message_id
        /\ IsValidRoute(cfg, route)
    BY <1>1, RouteFound
  <1>3. BuildFrame(msg, cfg) =
          [identifier |-> ecu.command_can_identifier,
           extended_identifier |-> ecu.extended_identifier,
           data |-> <<route.ecu_command_id>> \o msg.payload]
    BY DEF BuildFrame
  <1>4. Len(<<route.ecu_command_id>> \o msg.payload) = 1 + Len(msg.payload)
    <2>1. route.ecu_command_id \in Byte
      BY <1>2 DEF CommandRoute
    <2>2. QED  BY <2>1, CommandByteFirst
  <1>5. Len(msg.payload) \in 0 .. 7
    BY <1>1, <1>2
    DEF IsValidRoute, MAX_COMMAND_PAYLOAD_LENGTH, CLASSIC_CAN_MAX_DATA_LENGTH
  <1>6. Len(BuildFrame(msg, cfg).data) \in 1 .. CLASSIC_CAN_MAX_DATA_LENGTH
    <2>1. BuildFrame(msg, cfg).data = <<route.ecu_command_id>> \o msg.payload
      BY <1>3
    <2>2. \A n \in 0 .. 7 : 1 + n \in 1 .. 8
      OBVIOUS
    <2>3. QED  BY <1>4, <1>5, <2>1, <2>2 DEF CLASSIC_CAN_MAX_DATA_LENGTH
  <1>7. route.destination_ecu = HighByte(msg.message_id)
    BY <1>2 DEF IsValidRoute
  <1>8. PICK i \in DOMAIN cfg.ecu_registry :
          /\ ecu = cfg.ecu_registry[i]
          /\ cfg.ecu_registry[i] \in EcuDefinition
          /\ cfg.ecu_registry[i].ecu_id = route.destination_ecu
          /\ IsValidCanIdentifier(cfg.ecu_registry[i])
          /\ \A j \in DOMAIN cfg.ecu_registry :
               cfg.ecu_registry[j].ecu_id = route.destination_ecu => j = i
    BY <1>1, EcuFound
  <1>9. /\ BuildFrame(msg, cfg).identifier = ecu.command_can_identifier
        /\ BuildFrame(msg, cfg).extended_identifier = ecu.extended_identifier
    BY <1>3
  <1>10. QED  BY <1>6, <1>7, <1>8, <1>9

\* A routed frame is a frame the registers can carry.
LEMMA RoutedIsFrame ==
  ASSUME NEW msg, msg.payload \in Seq(Byte), NEW cfg \in Config,
         RouteResultOf(msg, cfg) = "Ok"
  PROVE  BuildFrame(msg, cfg) \in Frames
  <1> DEFINE built == BuildFrame(msg, cfg)
             route == FindRoute(cfg, msg.message_id)
             ecu == FindEcu(cfg, route.destination_ecu)
  <1>1. /\ IsValidConfig(cfg) /\ RoutesFor(cfg, msg.message_id) # {}
        /\ EcusWith(cfg, route.destination_ecu) # {}
    BY OkMeans
  <1>2. route \in CommandRoute
    BY <1>1, RouteFound
  <1>3. ecu \in EcuDefinition /\ IsValidCanIdentifier(ecu)
    BY <1>1, EcuFound
  <1>4. built = [identifier |-> ecu.command_can_identifier,
                 extended_identifier |-> ecu.extended_identifier,
                 data |-> <<route.ecu_command_id>> \o msg.payload]
    BY DEF BuildFrame
  <1>5. <<route.ecu_command_id>> \o msg.payload \in Seq(Byte)
    <2>1. route.ecu_command_id \in Byte
      BY <1>2 DEF CommandRoute
    <2>2. <<route.ecu_command_id>> \in Seq(Byte)
      BY <2>1
    <2>3. QED  BY ONLY <2>2, Joined, msg.payload \in Seq(Byte)
  <1>6. /\ ecu.command_can_identifier \in Nat
        /\ ecu.extended_identifier \in BOOLEAN
    BY <1>3 DEF EcuDefinition
  <1>7. ecu.command_can_identifier <=
          IF ecu.extended_identifier THEN CAN_EFF_MASK ELSE CAN_SFF_MASK
    BY <1>3, <1>6 DEF IsValidCanIdentifier, CAN_EFF_MASK, CAN_SFF_MASK
  <1> HIDE DEF built, route, ecu
  <1>8. built \in [identifier : Nat, extended_identifier : BOOLEAN,
                   data : Seq(0 .. 255)]
    BY <1>4, <1>5, <1>6 DEF Byte
  <1>9. built.identifier <=
          IF built.extended_identifier THEN CAN_EFF_MASK ELSE CAN_SFF_MASK
    BY <1>4, <1>7
  <1>10. built \in Frames
    BY <1>8, <1>9 DEF Frames
  <1>11. QED  BY <1>10 DEF built
-----------------------------------------------------------------------------
(***************************************************************************)
(* One call of build_frame.                                                *)
(***************************************************************************)
\* The call returns what the operators say.
RoutingInv ==
  /\ config \in Config
  /\ message.payload \in Seq(Byte)
  /\ result # "none" => /\ result = RouteResultOf(message, config)
                        /\ frame = BuildFrame(message, config)

\* The call is described by the two operators in every state.
LEMMA RoutingInvariant == RoutingSpec => []RoutingInv
  <1>1. RoutingInit => RoutingInv
    BY RoutingAssumption DEF RoutingInit, RoutingInv
  <1>2. RoutingInv /\ [RouteFrame]_routingVars => RoutingInv'
    BY DEF RoutingInv, RouteFrame, routingVars
  <1>3. QED  BY <1>1, <1>2, PTL DEF RoutingSpec

\* With a valid configuration build_frame finds its ECU.
LEMMA AcceptedHolds == RoutingInv => AcceptedConfigurationHolds
  BY ValidConfigIsNeverRefused DEF RoutingInv, AcceptedConfigurationHolds

\* A routed frame fits the bus, a refused call leaves an empty one.
LEMMA FitsTheBus == ASSUME RoutingInv PROVE FrameFitsTheBus
  <1>1. CASE result = "Ok"
    <2>1. /\ frame = BuildFrame(message, config) /\ config \in Config
          /\ RouteResultOf(message, config) = "Ok"
          /\ message.payload \in Seq(Byte)
      BY <1>1 DEF RoutingInv
    <2>2. PICK i \in DOMAIN config.ecu_registry :
            /\ frame.identifier
                 = config.ecu_registry[i].command_can_identifier
            /\ frame.extended_identifier
                 = config.ecu_registry[i].extended_identifier
            /\ IsValidCanIdentifier(config.ecu_registry[i])
      BY <2>1, RoutedFrame
    <2>3. Len(frame.data) \in 1 .. CLASSIC_CAN_MAX_DATA_LENGTH
      BY <2>1, RoutedFrame
    <2>4. frame.identifier <= IF frame.extended_identifier THEN 536870911
                              ELSE 2047
      BY <2>2 DEF IsValidCanIdentifier
    <2>5. QED  BY <1>1, <2>3, <2>4 DEF FrameFitsTheBus
  <1>2. CASE result # "Ok"
    BY <1>2 DEF RoutingInv, FrameFitsTheBus, BuildFrame
  <1>3. QED  BY <1>1, <1>2

\* The namespace byte selects the ECU.
LEMMA SelectsEcu == ASSUME RoutingInv PROVE NamespaceSelectsEcu
  <1>1. ASSUME result = "Ok" PROVE NamespaceSelectsEcu
    <2>1. /\ frame = BuildFrame(message, config) /\ config \in Config
          /\ RouteResultOf(message, config) = "Ok"
          /\ message.payload \in Seq(Byte)
      BY <1>1 DEF RoutingInv
    <2>2. QED  BY <2>1, RoutedFrame DEF NamespaceSelectsEcu
  <1>2. QED  BY <1>1 DEF NamespaceSelectsEcu

\* A configuration that was accepted is never refused by build_frame.
THEOREM AcceptedConfigurationAlwaysHolds ==
    RoutingSpec => []AcceptedConfigurationHolds
  BY AcceptedHolds, RoutingInvariant, PTL

\* A routed frame fits the bus, a refused call leaves an empty one.
THEOREM FrameAlwaysFitsTheBus == RoutingSpec => []FrameFitsTheBus
  <1>1. RoutingInv => FrameFitsTheBus
    BY FitsTheBus
  <1>2. QED  BY <1>1, RoutingInvariant, PTL

\* The namespace byte alone decides which ECU a command goes to.
THEOREM NamespaceAlwaysSelectsEcu == RoutingSpec => []NamespaceSelectsEcu
  <1>1. RoutingInv => NamespaceSelectsEcu
    BY SelectsEcu
  <1>2. QED  BY <1>1, RoutingInvariant, PTL
-----------------------------------------------------------------------------
(***************************************************************************)
(* The tables of the car.                                                  *)
(***************************************************************************)
\* The routes of the car, one by one.
LEMMA CarRoutes ==
  /\ Len(COMMAND_ROUTES) = 5 /\ Len(ECU_REGISTRY) = 1
  /\ COMMAND_ROUTES[1] = LightingRoute(1, 1, 0, "any")
  /\ COMMAND_ROUTES[2] = LightingRoute(3, 3, 3, "indicator")
  /\ COMMAND_ROUTES[3] = LightingRoute(4, 4, 4, "exterior")
  /\ COMMAND_ROUTES[4] = LightingRoute(5, 5, 1, "binary")
  /\ COMMAND_ROUTES[5] = LightingRoute(6, 6, 1, "binary")
  /\ ECU_REGISTRY[1] = [ecu_id |-> 1, command_can_identifier |-> 257,
                        extended_identifier |-> FALSE]
  BY DEF COMMAND_ROUTES, ECU_REGISTRY, Lmcu100CommandId, EcuRole,
         LMCU100_COMMAND_CAN_ID

\* The fields of a route of the car.
LEMMA LightingRouteIs ==
  ASSUME NEW remote \in Int, NEW command, NEW length, NEW validator
  PROVE  /\ LightingRoute(remote, command, length, validator).remote_message_id
              = 256 + remote
         /\ LightingRoute(remote, command, length, validator).destination_ecu = 1
         /\ LightingRoute(remote, command, length, validator).ecu_command_id
              = command
         /\ LightingRoute(remote, command, length, validator)
              .expected_payload_length = length
         /\ LightingRoute(remote, command, length, validator).validate_payload
              = validator
  BY DEF LightingRoute, MakeRemoteMessageId, EcuRole

\* There are five of them.
LEMMA FiveRoutes == \A i \in 1 .. 5 : i = 1 \/ i = 2 \/ i = 3 \/ i = 4 \/ i = 5
  OBVIOUS

\* What a route lookup finds in the tables of the car.
LEMMA CarRouteFound ==
  ASSUME NEW id, RoutesFor(CommandRouterConfig, id) # {}
  PROVE  LET route == FindRoute(CommandRouterConfig, id) IN
         \/ id = 257 /\ route = LightingRoute(1, 1, 0, "any")
         \/ id = 259 /\ route = LightingRoute(3, 3, 3, "indicator")
         \/ id = 260 /\ route = LightingRoute(4, 4, 4, "exterior")
         \/ id = 261 /\ route = LightingRoute(5, 5, 1, "binary")
         \/ id = 262 /\ route = LightingRoute(6, 6, 1, "binary")
  <1> DEFINE routes == COMMAND_ROUTES
  <1>1. /\ CommandRouterConfig.command_routes = routes
        /\ DOMAIN routes = 1 .. 5
    BY DEF CommandRouterConfig, COMMAND_ROUTES
  <1>2. PICK i \in 1 .. 5 : routes[i].remote_message_id = id
    BY <1>1 DEF RoutesFor
  <1>3. /\ routes[1].remote_message_id = 257
        /\ routes[2].remote_message_id = 259
        /\ routes[3].remote_message_id = 260
        /\ routes[4].remote_message_id = 261
        /\ routes[5].remote_message_id = 262
    BY CarRoutes, LightingRouteIs
  <1> HIDE DEF routes
  <1>4. \A j \in 1 .. 5 : routes[j].remote_message_id = id => j = i
    BY <1>2, <1>3, FiveRoutes
  <1>5. First(RoutesFor(CommandRouterConfig, id)) = i
    BY <1>1, <1>2, <1>4, FirstOfOne DEF RoutesFor
  <1>6. FindRoute(CommandRouterConfig, id) = routes[i]
    BY <1>1, <1>5 DEF FindRoute
  <1>7. QED  BY <1>2, <1>3, <1>6, FiveRoutes, CarRoutes DEF routes

\* Every documented command has a route.
LEMMA CarRoutesExist ==
  ASSUME NEW id
  PROVE  RoutesFor(CommandRouterConfig, id) # {} <=> id \in RemoteCommandId
  <1>1. RemoteCommandId = {257, 259, 260, 261, 262}
    BY DEF RemoteCommandId, MakeRemoteMessageId, EcuRole
  <1>2. RoutesFor(CommandRouterConfig, id) # {} => id \in RemoteCommandId
    BY <1>1, CarRouteFound
  <1>3. id \in RemoteCommandId => RoutesFor(CommandRouterConfig, id) # {}
    <2>1. /\ CommandRouterConfig.command_routes = COMMAND_ROUTES
          /\ DOMAIN COMMAND_ROUTES = 1 .. 5
      BY DEF CommandRouterConfig, COMMAND_ROUTES
    <2>2. /\ COMMAND_ROUTES[1].remote_message_id = 257
          /\ COMMAND_ROUTES[2].remote_message_id = 259
          /\ COMMAND_ROUTES[3].remote_message_id = 260
          /\ COMMAND_ROUTES[4].remote_message_id = 261
          /\ COMMAND_ROUTES[5].remote_message_id = 262
      BY CarRoutes, LightingRouteIs
    <2>3. {1, 2, 3, 4, 5} \subseteq 1 .. 5
      OBVIOUS
    <2>4. QED  BY <1>1, <2>1, <2>2, <2>3 DEF RoutesFor
  <1>4. QED  BY <1>2, <1>3

\* The tables of the car are valid.
LEMMA CarConfigIsValid == IsValidConfig(CommandRouterConfig)
  <1> DEFINE ecus == ECU_REGISTRY
             routes == COMMAND_ROUTES
             cfg == CommandRouterConfig
  <1>1. cfg.ecu_registry = ecus /\ cfg.command_routes = routes
    BY DEF CommandRouterConfig
  <1>2. DOMAIN routes = 1 .. 5 /\ routes # <<>>
    BY DEF COMMAND_ROUTES
  <1>3. DOMAIN ecus = {1} /\ ecus # <<>>
    BY DEF ECU_REGISTRY
  <1>4. ecus[1].ecu_id = 1 /\ IsValidCanIdentifier(ecus[1])
    BY CarRoutes DEF IsValidCanIdentifier
  <1>5. /\ routes[1].remote_message_id = 257
        /\ routes[2].remote_message_id = 259
        /\ routes[3].remote_message_id = 260
        /\ routes[4].remote_message_id = 261
        /\ routes[5].remote_message_id = 262
    BY CarRoutes, LightingRouteIs
  <1>6. \A i \in 1 .. 5 :
          /\ routes[i].destination_ecu = 1
          /\ routes[i].expected_payload_length \in {0, 1, 3, 4}
          /\ routes[i].validate_payload \in {"any", "indicator", "exterior",
                                             "binary"}
    BY CarRoutes, LightingRouteIs, FiveRoutes
  <1> HIDE DEF ecus, routes, cfg
  <1>7. 1 \in EcusWith(cfg, 1)
    BY <1>1, <1>3, <1>4 DEF EcusWith
  <1>8. \A i \in 1 .. 5 : routes[i].remote_message_id \in 257 .. 262
    BY <1>5, FiveRoutes
  <1>9. ASSUME NEW i \in 1 .. 5
        PROVE  IsValidRoute(cfg, routes[i])
    <2>1. HighByte(routes[i].remote_message_id) = 1
      BY <1>8 DEF HighByte
    <2>2. routes[i].expected_payload_length <= MAX_COMMAND_PAYLOAD_LENGTH
      BY <1>6 DEF MAX_COMMAND_PAYLOAD_LENGTH, CLASSIC_CAN_MAX_DATA_LENGTH
    <2>3. routes[i].validate_payload # Nullptr
      BY <1>6 DEF Nullptr
    <2>4. routes[i].remote_message_id # 0
      BY <1>8
    <2>5. QED
      BY <1>6, <1>7, <2>1, <2>2, <2>3, <2>4 DEF IsValidRoute, INVALID_ECU_ID
  <1>10. \A i \in 1 .. 5 : \A j \in 1 .. 5 : j > i =>
           routes[j].remote_message_id # routes[i].remote_message_id
    BY <1>5, FiveRoutes
  <1>11. IsValidConfig(cfg)
    BY <1>1, <1>2, <1>3, <1>4, <1>9, <1>10 DEF IsValidConfig, INVALID_ECU_ID
  <1>12. QED  BY <1>11 DEF cfg

\* The payload of an indicator command never has both indicators on.
LEMMA IndicatorPayload ==
  ASSUME NEW payload \in ValidatePayload["indicator"]
  PROVE  /\ payload \in Seq(Byte) /\ Len(payload) = 3
         /\ ~(payload[2] = 1 /\ payload[3] = 1)
  <1>1. ValidatePayload["indicator"] = ValidIndicatorStates
    BY DEF ValidatePayload, PayloadValidators
  <1>2. PICK w, l, r \in BinaryState :
          payload = <<w, l, r>> /\ payload \notin {<<v, 1, 1>> : v \in BinaryState}
    BY <1>1 DEF ValidIndicatorStates
  <1>3. ~(l = 1 /\ r = 1)
    BY <1>2
  <1>4. w \in Byte /\ l \in Byte /\ r \in Byte
    BY DEF BinaryState, Byte
  <1>5. QED  BY <1>2, <1>3, <1>4
-----------------------------------------------------------------------------
(***************************************************************************)
(* What the radio may do to a packet, and what decode makes of it.         *)
(***************************************************************************)
\* Which bits of a byte are flipped, and by what that changes it.
LEMMA FlipMaskIs ==
  ASSUME NEW bits, NEW i \in Nat
  PROVE  /\ FlipMask(bits, i) \in Octet
         /\ \A k \in 0 .. 8 :
              /\ (\A j \in 0 .. 7 : j < 8 - k => 8 * (i - 1) + j \notin bits)
                   => FlipMask(bits, i) \div Pow[k] = 0
              /\ (\A j \in 0 .. 7 : j >= 8 - k => 8 * (i - 1) + j \notin bits)
                   => FlipMask(bits, i) % Pow[k] = 0
         /\ FlipMask(bits, i) = 0 =>
              \A j \in 0 .. 7 : 8 * (i - 1) + j \notin bits
  <1> DEFINE in(j) == 8 * (i - 1) + j \in bits
             w0 == IF in(0) THEN 128 ELSE 0
             w1 == IF in(1) THEN 64 ELSE 0
             w2 == IF in(2) THEN 32 ELSE 0
             w3 == IF in(3) THEN 16 ELSE 0
             w4 == IF in(4) THEN 8 ELSE 0
             w5 == IF in(5) THEN 4 ELSE 0
             w6 == IF in(6) THEN 2 ELSE 0
             w7 == IF in(7) THEN 1 ELSE 0
             mask == FlipMask(bits, i)
  <1>1. mask = w0 + w1 + w2 + w3 + w4 + w5 + w6 + w7
    BY DEF FlipMask
  <1>2. /\ (in(0) /\ w0 = 128) \/ (~in(0) /\ w0 = 0)
        /\ (in(1) /\ w1 = 64) \/ (~in(1) /\ w1 = 0)
        /\ (in(2) /\ w2 = 32) \/ (~in(2) /\ w2 = 0)
        /\ (in(3) /\ w3 = 16) \/ (~in(3) /\ w3 = 0)
        /\ (in(4) /\ w4 = 8) \/ (~in(4) /\ w4 = 0)
        /\ (in(5) /\ w5 = 4) \/ (~in(5) /\ w5 = 0)
        /\ (in(6) /\ w6 = 2) \/ (~in(6) /\ w6 = 0)
        /\ (in(7) /\ w7 = 1) \/ (~in(7) /\ w7 = 0)
    OBVIOUS
  <1>3. \A k \in 0 .. 8 :
          /\ (\A j \in 0 .. 7 : j < 8 - k => 8 * (i - 1) + j \notin bits)
               <=> \A j \in 0 .. 7 : j < 8 - k => ~in(j)
          /\ (\A j \in 0 .. 7 : j >= 8 - k => 8 * (i - 1) + j \notin bits)
               <=> \A j \in 0 .. 7 : j >= 8 - k => ~in(j)
    OBVIOUS
  <1> HIDE DEF in, w0, w1, w2, w3, w4, w5, w6, w7, mask
  <1>4. mask \in Int /\ 0 <= mask /\ mask <= 255
    BY <1>1, <1>2
  <1>5. mask \in Octet
    BY <1>4, OctetIs
  <1>6. mask = 0 => \A j \in 0 .. 7 : ~in(j)
    <2>1. mask = 0 => /\ ~in(0) /\ ~in(1) /\ ~in(2) /\ ~in(3)
                      /\ ~in(4) /\ ~in(5) /\ ~in(6) /\ ~in(7)
      BY <1>1, <1>2
    <2>2. \A j \in 0 .. 7 : j = 0 \/ j = 1 \/ j = 2 \/ j = 3 \/ j = 4 \/ j = 5
                            \/ j = 6 \/ j = 7
      OBVIOUS
    <2>3. QED  BY <2>1, <2>2
  <1>7. ASSUME NEW k \in 0 .. 8,
               \A j \in 0 .. 7 : j < 8 - k => ~in(j)
        PROVE  mask \div Pow[k] = 0
    <2>1. /\ k <= 7 => ~in(0) /\ w0 = 0
          /\ k <= 6 => ~in(1) /\ w1 = 0
          /\ k <= 5 => ~in(2) /\ w2 = 0
          /\ k <= 4 => ~in(3) /\ w3 = 0
          /\ k <= 3 => ~in(4) /\ w4 = 0
          /\ k <= 2 => ~in(5) /\ w5 = 0
          /\ k <= 1 => ~in(6) /\ w6 = 0
          /\ k <= 0 => ~in(7) /\ w7 = 0
      BY <1>2, <1>7
    <2>2. 0 <= mask /\ mask < Pow[k]
      BY <1>1, <1>2, <2>1, PowIs
    <2>3. Pow[k] \in Int /\ Pow[k] > 0
      BY PowIs
    <2>4. QED  BY <1>4, <2>2, <2>3
  <1>8. ASSUME NEW k \in 0 .. 8,
               \A j \in 0 .. 7 : j >= 8 - k => ~in(j)
        PROVE  mask % Pow[k] = 0
    <2>1. /\ k >= 8 => w0 = 0
          /\ k >= 7 => w1 = 0
          /\ k >= 6 => w2 = 0
          /\ k >= 5 => w3 = 0
          /\ k >= 4 => w4 = 0
          /\ k >= 3 => w5 = 0
          /\ k >= 2 => w6 = 0
          /\ k >= 1 => w7 = 0
      BY <1>2, <1>8
    <2>2. CASE k = 0
      BY <1>4, <2>2, PowIs
    <2>3. CASE k = 1
      BY <1>1, <1>2, <2>1, <2>3, PowIs
    <2>4. CASE k = 2
      BY <1>1, <1>2, <2>1, <2>4, PowIs
    <2>5. CASE k = 3
      BY <1>1, <1>2, <2>1, <2>5, PowIs
    <2>6. CASE k = 4
      BY <1>1, <1>2, <2>1, <2>6, PowIs
    <2>7. CASE k = 5
      BY <1>1, <1>2, <2>1, <2>7, PowIs
    <2>8. CASE k = 6
      BY <1>1, <1>2, <2>1, <2>8, PowIs
    <2>9. CASE k = 7
      BY <1>1, <1>2, <2>1, <2>9, PowIs
    <2>10. CASE k = 8
      BY <1>1, <1>2, <2>1, <2>10, PowIs
    <2>11. QED
      BY <2>2, <2>3, <2>4, <2>5, <2>6, <2>7, <2>8, <2>9, <2>10
  <1>9. QED  BY <1>3, <1>5, <1>6, <1>7, <1>8 DEF mask, in

\* What flipping does to a packet, byte by byte.
LEMMA FlipIs ==
  ASSUME NEW p \in Seq(Octet), NEW bits
  PROVE  /\ Flip(p, bits) \in Seq(Octet) /\ Len(Flip(p, bits)) = Len(p)
         /\ \A i \in 1 .. Len(p) :
              /\ p[i] \in Octet /\ Flip(p, bits)[i] \in Octet
              /\ FlipMask(bits, i) \in Octet
              /\ Flip(p, bits)[i] = XorByte(p[i], FlipMask(bits, i))
  <1> DEFINE q == Flip(p, bits)
  <1>1. \A i \in 1 .. Len(p) : p[i] \in Octet /\ FlipMask(bits, i) \in Octet
    BY FlipMaskIs
  <1>2. \A i \in 1 .. Len(p) : XorByte(p[i], FlipMask(bits, i)) \in Octet
    BY <1>1, XorByteNibbles
  <1>3. q = [i \in 1 .. Len(p) |-> XorByte(p[i], FlipMask(bits, i))]
    BY DEF Flip
  <1>4. Len(p) \in Nat
    OBVIOUS
  <1> HIDE DEF q
  <1>5. q \in Seq(Octet) /\ Len(q) = Len(p)
    <2>1. q \in [1 .. Len(p) -> Octet]
      BY ONLY <1>2, <1>3
    <2>2. QED  BY ONLY <1>4, <2>1, SeqDef
  <1>6. \A i \in 1 .. Len(p) :
          q[i] = XorByte(p[i], FlipMask(bits, i))
    BY ONLY <1>3
  <1>7. QED  BY <1>1, <1>2, <1>5, <1>6 DEF q

\* A byte none of whose upper (lower) bits are flipped keeps them.
LEMMA FlipKeeps ==
  ASSUME NEW p \in Seq(Octet), NEW bits, NEW i \in 1 .. Len(p), NEW k \in 0 .. 8
  PROVE  /\ (\A j \in 0 .. 7 : j < 8 - k => 8 * (i - 1) + j \notin bits)
              => Flip(p, bits)[i] \div Pow[k] = p[i] \div Pow[k]
         /\ (\A j \in 0 .. 7 : j >= 8 - k => 8 * (i - 1) + j \notin bits)
              => Flip(p, bits)[i] % Pow[k] = p[i] % Pow[k]
  <1> DEFINE mask == FlipMask(bits, i)
  <1>1. /\ p[i] \in Octet /\ mask \in Octet
        /\ Flip(p, bits)[i] = XorByte(p[i], mask)
    BY FlipIs
  <1>2. Pow[k] \in BytePowers
    BY PowStep
  <1>3. i \in Nat
    OBVIOUS
  <1>4. 0 \in Octet
    BY OctetIs
  <1>5. /\ (\A j \in 0 .. 7 : j < 8 - k => 8 * (i - 1) + j \notin bits)
             => mask \div Pow[k] = 0
        /\ (\A j \in 0 .. 7 : j >= 8 - k => 8 * (i - 1) + j \notin bits)
             => mask % Pow[k] = 0
    BY <1>3, FlipMaskIs
  <1>6. Pow[k] \in Int /\ Pow[k] > 0
    BY <1>2 DEF BytePowers
  <1>7. 0 \div Pow[k] = 0 /\ 0 % Pow[k] = 0
    BY <1>6
  <1>8. XorByte(p[i], 0) = p[i]
    BY <1>1, ByteNeutral
  <1> HIDE DEF mask
  <1>9. mask \div Pow[k] = 0
          => XorByte(p[i], mask) \div Pow[k] = p[i] \div Pow[k]
    <2>1. mask \div Pow[k] = 0 => mask \div Pow[k] = 0 \div Pow[k]
      BY <1>7
    <2>2. QED  BY ONLY <2>1, <1>1, <1>2, <1>4, <1>8, ByteKeepsHigh
  <1>10. mask % Pow[k] = 0 => XorByte(p[i], mask) % Pow[k] = p[i] % Pow[k]
    <2>1. mask % Pow[k] = 0 => mask % Pow[k] = 0 % Pow[k]
      BY <1>7
    <2>2. QED  BY ONLY <2>1, <1>1, <1>2, <1>4, <1>8, ByteKeepsLow
  <1>11. QED  BY ONLY <1>1, <1>5, <1>9, <1>10

\* A byte with no flipped bit is as it was, one with a flipped bit is not.
LEMMA FlippedByte ==
  ASSUME NEW p \in Seq(Octet), NEW bits, NEW i \in 1 .. Len(p)
  PROVE  Flip(p, bits)[i] = p[i]
           <=> \A j \in 0 .. 7 : 8 * (i - 1) + j \notin bits
  <1> DEFINE mask == FlipMask(bits, i)
  <1>1. /\ p[i] \in Octet /\ mask \in Octet
        /\ Flip(p, bits)[i] = XorByte(p[i], mask)
    BY FlipIs
  <1>2. i \in Nat /\ 0 \in Octet
    BY OctetIs
  <1>3. XorByte(p[i], 0) = p[i]
    BY <1>1, ByteNeutral
  <1>4. mask = 0 => \A j \in 0 .. 7 : 8 * (i - 1) + j \notin bits
    BY <1>2, FlipMaskIs
  <1>5. (\A j \in 0 .. 7 : 8 * (i - 1) + j \notin bits) => mask \div Pow[0] = 0
    BY <1>2, FlipMaskIs
  <1>6. Pow[0] = 1
    BY PowIs
  <1> HIDE DEF mask
  <1>7. mask \div Pow[0] = 0 => mask = 0
    <2>1. mask \in Int
      BY <1>1, OctetIs
    <2>2. QED  BY <1>6, <2>1
  <1>8. XorByte(p[i], mask) = p[i] => mask = 0
    BY ONLY <1>1, <1>2, <1>3, ByteInjective
  <1>9. QED  BY ONLY <1>1, <1>3, <1>4, <1>5, <1>7, <1>8

\* Every flipped bit changes the packet.
LEMMA FlipChanges ==
  ASSUME NEW p \in Seq(Octet), NEW bits, bits \subseteq 0 .. 8 * Len(p) - 1,
         \A i \in 1 .. Len(p) : Flip(p, bits)[i] = p[i]
  PROVE  bits = {}
  <1>1. SUFFICES ASSUME NEW b \in bits PROVE FALSE
    OBVIOUS
  <1> DEFINE i == b \div 8 + 1
             j == b % 8
  <1>2. b \in Int /\ 0 <= b /\ b <= 8 * Len(p) - 1 /\ Len(p) \in Nat
    OBVIOUS
  <1>3. i \in 1 .. Len(p) /\ j \in 0 .. 7 /\ b = 8 * (i - 1) + j
    BY <1>2
  <1> HIDE DEF i, j
  <1>4. 8 * (i - 1) + j \notin bits
    BY <1>3, FlippedByte
  <1>5. QED  BY <1>3, <1>4

\* A burst of 16 bits lies in three bytes, above and below a power of two.
LEMMA BurstPlace ==
  ASSUME NEW L \in Nat, L >= 3, NEW a \in Nat, a + 15 < 8 * L
  PROVE  \E i \in Nat, k \in 0 .. 8 :
           /\ 1 <= i /\ i + 2 <= L
           /\ \A j \in 0 .. 7 : j < 8 - k => 8 * (i - 1) + j < a
           /\ \A j \in 0 .. 7 : j >= 8 - k => 8 * (i + 1) + j > a + 15
           /\ \A b \in Nat, j \in 0 .. 7 : b < i => 8 * (b - 1) + j < a
           /\ \A b \in Nat, j \in 0 .. 7 :
                b > i + 2 => 8 * (b - 1) + j > a + 15
  <1> DEFINE i0 == a \div 8 + 1
             o == a % 8
             Fits(i, k) ==
               /\ 1 <= i /\ i + 2 <= L
               /\ \A j \in 0 .. 7 : j < 8 - k => 8 * (i - 1) + j < a
               /\ \A j \in 0 .. 7 : j >= 8 - k => 8 * (i + 1) + j > a + 15
               /\ \A b \in Nat, j \in 0 .. 7 : b < i => 8 * (b - 1) + j < a
               /\ \A b \in Nat, j \in 0 .. 7 :
                    b > i + 2 => 8 * (b - 1) + j > a + 15
  <1>1. /\ i0 \in Nat /\ i0 >= 1 /\ o \in 0 .. 7 /\ a = 8 * (i0 - 1) + o
    OBVIOUS
  <1> HIDE DEF i0, o
  <1>2. ASSUME o = 0, i0 + 2 <= L PROVE \E i \in Nat, k \in 0 .. 8 : Fits(i, k)
    <2>1. Fits(i0, 8)
      BY <1>1, <1>2
    <2>2. 8 \in 0 .. 8
      OBVIOUS
    <2> HIDE DEF Fits
    <2>3. QED  BY ONLY <1>1, <2>1, <2>2
  <1>3. ASSUME o = 0, ~(i0 + 2 <= L)
        PROVE \E i \in Nat, k \in 0 .. 8 : Fits(i, k)
    <2>1. i0 - 1 \in Nat /\ i0 + 1 = L
      BY <1>1, <1>3
    <2>2. Fits(i0 - 1, 0)
      BY <1>1, <1>3, <2>1
    <2>3. 0 \in 0 .. 8
      OBVIOUS
    <2> HIDE DEF Fits
    <2>4. QED  BY ONLY <2>1, <2>2, <2>3
  <1>4. ASSUME o # 0 PROVE \E i \in Nat, k \in 0 .. 8 : Fits(i, k)
    <2>1. 8 - o \in 0 .. 8
      BY <1>1
    <2>2. Fits(i0, 8 - o)
      BY <1>1, <1>4
    <2> HIDE DEF Fits
    <2>3. QED  BY ONLY <1>1, <2>1, <2>2
  <1>5. QED  BY <1>2, <1>3, <1>4

\* A flipped packet that is accepted has its CRC where the packet that was
\* sent has it.
LEMMA FlippedAccepted ==
  ASSUME NEW m \in ProtocolMessage, EncodeResultOf(m, MAX_PACKET_SIZE) = "Ok",
         NEW bits, DecodeResultOf(Flip(Encode(m, MAX_PACKET_SIZE), bits)) = "Ok"
  PROVE  LET p == Encode(m, MAX_PACKET_SIZE)
             q == Flip(p, bits)
             L == Len(p) - 2 IN
         /\ L \in Nat /\ L >= 10
         /\ p \in Seq(Octet) /\ q \in Seq(Octet) /\ Len(q) = Len(p)
         /\ ReadUint16LittleEndian(p, L) = CalculateCrc16(SubSeq(p, 1, L))
         /\ ReadUint16LittleEndian(q, L) = CalculateCrc16(SubSeq(q, 1, L))
  <1> DEFINE p == Encode(m, MAX_PACKET_SIZE)
             q == Flip(p, bits)
             L == Len(p) - 2
  <1>1. /\ p \in Seq(Octet) /\ Len(p) = 10 + Len(m.payload) + 2
        /\ SubSeq(p, 1, 10 + Len(m.payload)) = HeaderAndPayload(m)
        /\ ReadUint16LittleEndian(p, 10 + Len(m.payload))
             = CalculateCrc16(HeaderAndPayload(m))
    BY EncodedBytes
  <1>2. Len(m.payload) \in Nat
    BY DEF ProtocolMessage
  <1>3. q \in Seq(Octet) /\ Len(q) = Len(p)
    BY <1>1, FlipIs
  <1>4. /\ Len(q) >= 12 /\ Len(q) = 10 + q[10] + 2
        /\ ReadUint16LittleEndian(q, 10 + q[10])
             = CalculateCrc16(SubSeq(q, 1, 10 + q[10]))
    BY AcceptedPacket
  <1>5. q[10] \in Int
    <2>1. 10 \in 1 .. Len(q)
      BY <1>3, <1>4
    <2>2. q[10] \in Octet
      BY <1>3, <2>1
    <2>3. QED  BY <2>2, OctetIs
  <1> HIDE DEF p, q
  <1>6. L = 10 + Len(m.payload) /\ L = 10 + q[10] /\ L \in Nat /\ L >= 10
    BY <1>1, <1>2, <1>3, <1>4, <1>5
  <1>7. QED
    BY <1>1, <1>3, <1>4, <1>6 DEF p, q

\* decode refuses every packet in which the bits of a burst of up to 16 were
\* flipped among the bytes the CRC covers, or any bits of the CRC itself.
THEOREM FlippedIsRefused ==
  ASSUME NEW m \in ProtocolMessage, EncodeResultOf(m, MAX_PACKET_SIZE) = "Ok",
         NEW bits, bits # {},
         LET covered == 8 * (Len(Encode(m, MAX_PACKET_SIZE)) - CRC_SIZE) IN
         \/ \E a \in Nat : a + 15 < covered /\ bits \subseteq a .. a + 15
         \/ bits \subseteq covered .. covered + 15
  PROVE  DecodeResultOf(Flip(Encode(m, MAX_PACKET_SIZE), bits)) # "Ok"
  <1> DEFINE p == Encode(m, MAX_PACKET_SIZE)
             q == Flip(p, bits)
             L == Len(p) - 2
             s == SubSeq(p, 1, L)
             t == SubSeq(q, 1, L)
  <1>1. SUFFICES ASSUME DecodeResultOf(q) = "Ok" PROVE FALSE
    OBVIOUS
  <1>2. /\ L \in Nat /\ L >= 10
        /\ p \in Seq(Octet) /\ q \in Seq(Octet) /\ Len(q) = Len(p)
        /\ ReadUint16LittleEndian(p, L) = CalculateCrc16(s)
        /\ ReadUint16LittleEndian(q, L) = CalculateCrc16(t)
    BY <1>1, FlippedAccepted
  <1>3. \/ \E a \in Nat : a + 15 < 8 * L /\ bits \subseteq a .. a + 15
        \/ bits \subseteq 8 * L .. 8 * L + 15
    BY DEF CRC_SIZE
  <1>4. ASSUME NEW i \in 1 .. Len(p), NEW k \in 0 .. 8
        PROVE  /\ (\A j \in 0 .. 7 : j < 8 - k => 8 * (i - 1) + j \notin bits)
                    => q[i] \div Pow[k] = p[i] \div Pow[k]
               /\ (\A j \in 0 .. 7 : j >= 8 - k => 8 * (i - 1) + j \notin bits)
                    => q[i] % Pow[k] = p[i] % Pow[k]
    BY <1>2, FlipKeeps
  <1>5. \A i \in 1 .. Len(p) : q[i] = p[i]
            <=> \A j \in 0 .. 7 : 8 * (i - 1) + j \notin bits
    BY <1>2, FlippedByte
  <1>6. (\A i \in 1 .. Len(p) : q[i] = p[i])
          => ~(bits \subseteq 0 .. 8 * Len(p) - 1)
    BY <1>2, FlipChanges
  <1>7. Len(p) = L + 2 /\ Len(p) \in Nat
    BY <1>2
  <1> HIDE DEF p, q, L
  <1>8. /\ s \in Seq(Octet) /\ t \in Seq(Octet) /\ Len(s) = L /\ Len(t) = L
        /\ \A i \in 1 .. L : s[i] = p[i] /\ t[i] = q[i]
    BY <1>2, <1>7
  <1>9. \A i \in 1 .. Len(p) : p[i] \in Octet /\ q[i] \in Octet
    BY <1>2
  <1> HIDE DEF s, t
  <1>10. ASSUME NEW a \in Nat, a + 15 < 8 * L, bits \subseteq a .. a + 15
         PROVE  FALSE
    <2>1. PICK i \in Nat, k \in 0 .. 8 :
            /\ 1 <= i /\ i + 2 <= L
            /\ \A j \in 0 .. 7 : j < 8 - k => 8 * (i - 1) + j < a
            /\ \A j \in 0 .. 7 : j >= 8 - k => 8 * (i + 1) + j > a + 15
            /\ \A b \in Nat, j \in 0 .. 7 : b < i => 8 * (b - 1) + j < a
            /\ \A b \in Nat, j \in 0 .. 7 :
                 b > i + 2 => 8 * (b - 1) + j > a + 15
      <3>1. L >= 3
        BY <1>2
      <3>2. QED  BY ONLY <1>2, <1>10, <3>1, BurstPlace
    <2>2. \A b \in bits : a <= b /\ b <= a + 15
      BY <1>10
    <2>3. \A b \in 1 .. Len(p) : b < i \/ b > i + 2 => q[b] = p[b]
      <3>1. ASSUME NEW b \in 1 .. Len(p), b < i \/ b > i + 2, NEW j \in 0 .. 7
            PROVE  8 * (b - 1) + j \notin bits
        <4>1. b \in Nat
          OBVIOUS
        <4>2. 8 * (b - 1) + j < a \/ 8 * (b - 1) + j > a + 15
          BY <2>1, <3>1, <4>1
        <4>3. QED  BY <1>10, <2>2, <4>1, <4>2
      <3>2. QED  BY <1>5, <3>1
    <2>4. i \in 1 .. Len(p) /\ i + 2 \in 1 .. Len(p)
      BY <1>2, <1>7, <2>1
    <2>5. q[i] \div Pow[k] = p[i] \div Pow[k]
      <3>1. ASSUME NEW j \in 0 .. 7, j < 8 - k
            PROVE  8 * (i - 1) + j \notin bits
        <4>1. 8 * (i - 1) + j < a
          BY <2>1, <3>1
        <4>2. QED  BY <1>10, <2>1, <2>2, <4>1
      <3>2. QED  BY <1>4, <2>4, <3>1
    <2> DEFINE third == i + 2
    <2>6. q[third] % Pow[k] = p[third] % Pow[k]
      <3>1. ASSUME NEW j \in 0 .. 7, j >= 8 - k
            PROVE  8 * (third - 1) + j \notin bits
        <4>1. 8 * (i + 1) + j > a + 15
          BY <2>1, <3>1
        <4>2. 8 * (third - 1) + j = 8 * (i + 1) + j
          BY <2>1
        <4>3. QED  BY <1>10, <2>1, <2>2, <4>1, <4>2
      <3>2. third \in 1 .. Len(p)
        BY <2>4
      <3> HIDE DEF third
      <3>3. QED  BY ONLY <1>4, <3>1, <3>2
    <2>7. ReadUint16LittleEndian(p, L) = ReadUint16LittleEndian(q, L)
      <3>1. /\ L + 1 \in 1 .. Len(p) /\ L + 1 > i + 2
            /\ L + 2 \in 1 .. Len(p) /\ L + 2 > i + 2
        BY <1>2, <1>7, <2>1
      <3>2. q[L + 1] = p[L + 1] /\ q[L + 2] = p[L + 2]
        BY <2>3, <3>1
      <3>3. QED  BY <3>2 DEF ReadUint16LittleEndian
    <2>8. CalculateCrc16(s) = CalculateCrc16(t)
      BY <1>2, <2>7 DEF s, t
    <2>9. /\ \A b \in 1 .. Len(s) : b < i \/ b > i + 2 => s[b] = t[b]
          /\ s[i] \div Pow[k] = t[i] \div Pow[k]
          /\ s[i + 2] % Pow[k] = t[i + 2] % Pow[k]
      <3>1. \A b \in 1 .. L : b \in 1 .. Len(p)
        BY <1>2, <1>7
      <3>2. i \in 1 .. L /\ i + 2 \in 1 .. L
        BY <1>2, <2>1
      <3>3. QED  BY <1>8, <2>3, <2>5, <2>6, <3>1, <3>2
    <2>10. s = t
      <3>1. Len(s) = Len(t) /\ i + 2 <= Len(s)
        BY <1>8, <2>1
      <3>2. QED  BY ONLY <1>8, <2>1, <2>8, <2>9, <3>1, BurstIsNoticed
    <2>11. \A b \in 1 .. Len(p) : q[b] = p[b]
      <3>1. SUFFICES ASSUME NEW b \in 1 .. Len(p) PROVE q[b] = p[b]
        OBVIOUS
      <3>2. b \in 1 .. L \/ b > i + 2
        BY <1>2, <1>7, <2>1
      <3>3. QED  BY ONLY <1>8, <2>3, <2>10, <3>2
    <2>12. bits \subseteq 0 .. 8 * Len(p) - 1
      BY ONLY <1>2, <1>7, <1>10
    <2>13. QED  BY <1>6, <2>11, <2>12
  <1>11. ASSUME bits \subseteq 8 * L .. 8 * L + 15
         PROVE  FALSE
    <2>1. \A b \in 1 .. L : q[b] = p[b]
      <3>1. ASSUME NEW b \in 1 .. L, NEW j \in 0 .. 7
            PROVE  8 * (b - 1) + j \notin bits
        <4>1. 8 * (b - 1) + j < 8 * L
          BY <1>2
        <4>2. \A c \in bits : c >= 8 * L
          BY <1>11, <1>2
        <4>3. QED  BY <1>2, <4>1, <4>2
      <3>2. \A b \in 1 .. L : b \in 1 .. Len(p)
        BY <1>2, <1>7
      <3>3. QED  BY <1>5, <3>1, <3>2
    <2>2. s = t
      BY <1>8, <2>1
    <2>3. ReadUint16LittleEndian(p, L) = ReadUint16LittleEndian(q, L)
      BY <1>2, <2>2 DEF s, t
    <2>4. q[L + 1] = p[L + 1] /\ q[L + 2] = p[L + 2]
      <3>1. L + 1 \in 1 .. Len(p) /\ L + 2 \in 1 .. Len(p)
        BY <1>2, <1>7
      <3>2. /\ p[L + 1] \in Octet /\ q[L + 1] \in Octet
            /\ p[L + 2] \in Octet /\ q[L + 2] \in Octet
        BY <1>9, <3>1
      <3>3. p[L + 1] + 256 * p[L + 2] = q[L + 1] + 256 * q[L + 2]
        BY <2>3 DEF ReadUint16LittleEndian
      <3>4. QED  BY ONLY <3>2, <3>3, OctetIs
    <2>5. \A b \in 1 .. Len(p) : q[b] = p[b]
      <3>1. \A b \in 1 .. Len(p) : b \in 1 .. L \/ b = L + 1 \/ b = L + 2
        BY <1>2, <1>7
      <3>2. QED  BY <2>1, <2>4, <3>1
    <2>6. bits \subseteq 0 .. 8 * Len(p) - 1
      BY <1>2, <1>7, <1>11
    <2>7. QED  BY <1>6, <2>5, <2>6
  <1>12. QED  BY <1>3, <1>10, <1>11

\* The parity of a mask is the number of its bits.
FlippedBit(bits, n) == IF n \in bits THEN 1 ELSE 0

LEMMA MaskParity ==
  ASSUME NEW bits, NEW o \in Nat
  PROVE  Parity(FlipMask(bits, o + 1))
           = (FlippedBit(bits, 8 * o) + FlippedBit(bits, 8 * o + 1)
               + FlippedBit(bits, 8 * o + 2) + FlippedBit(bits, 8 * o + 3)
               + FlippedBit(bits, 8 * o + 4) + FlippedBit(bits, 8 * o + 5)
               + FlippedBit(bits, 8 * o + 6) + FlippedBit(bits, 8 * o + 7)) % 2
  <1> DEFINE b == [j \in 0 .. 7 |-> FlippedBit(bits, 8 * o + j)]
             w(j, weight) == IF 8 * ((o + 1) - 1) + j \in bits THEN weight ELSE 0
  <1>1. (o + 1) - 1 = o /\ 8 * o + 0 = 8 * o
    OBVIOUS
  <1>2. /\ w(0, 128) = 128 * b[0] /\ w(1, 64) = 64 * b[1]
        /\ w(2, 32) = 32 * b[2] /\ w(3, 16) = 16 * b[3]
        /\ w(4, 8) = 8 * b[4] /\ w(5, 4) = 4 * b[5]
        /\ w(6, 2) = 2 * b[6] /\ w(7, 1) = b[7]
    BY <1>1 DEF FlippedBit
  <1>3. FlipMask(bits, o + 1)
          = w(0, 128) + w(1, 64) + w(2, 32) + w(3, 16)
              + w(4, 8) + w(5, 4) + w(6, 2) + w(7, 1)
    BY DEF FlipMask
  <1>4. b \in [0 .. 7 -> Bit]
    BY DEF FlippedBit, Bit
  <1>5. /\ b[0] = FlippedBit(bits, 8 * o) /\ b[1] = FlippedBit(bits, 8 * o + 1)
        /\ b[2] = FlippedBit(bits, 8 * o + 2)
        /\ b[3] = FlippedBit(bits, 8 * o + 3)
        /\ b[4] = FlippedBit(bits, 8 * o + 4)
        /\ b[5] = FlippedBit(bits, 8 * o + 5)
        /\ b[6] = FlippedBit(bits, 8 * o + 6)
        /\ b[7] = FlippedBit(bits, 8 * o + 7)
    BY <1>1
  <1> HIDE DEF b, w
  <1>6. FlipMask(bits, o + 1)
          = 128 * b[0] + 64 * b[1] + 32 * b[2] + 16 * b[3]
              + 8 * b[4] + 4 * b[5] + 2 * b[6] + b[7]
    BY <1>2, <1>3
  <1>7. Parity(FlipMask(bits, o + 1))
          = (b[0] + b[1] + b[2] + b[3] + b[4] + b[5] + b[6] + b[7]) % 2
    BY <1>4, <1>6, EightBits
  <1>8. QED  BY <1>5, <1>7

\* Counting the flipped bits, one by one ...
LEMMA CountBit ==
  ASSUME NEW bits, NEW n \in Nat
  PROVE  /\ IsFiniteSet(bits \cap 0 .. n - 1)
         /\ Cardinality(bits \cap 0 .. n - 1) \in Nat
         /\ Cardinality(bits \cap 0 .. (n + 1) - 1)
              = Cardinality(bits \cap 0 .. n - 1) + FlippedBit(bits, n)
  <1> DEFINE A == bits \cap 0 .. n - 1
             B == bits \cap 0 .. (n + 1) - 1
  <1>1. IsFiniteSet(A)
    <2>1. IsFiniteSet(0 .. n - 1)
      BY FS_Interval
    <2>2. A \in SUBSET (0 .. n - 1)
      OBVIOUS
    <2>3. QED  BY <2>1, <2>2, FS_Subset
  <1>2. Cardinality(A) \in Nat
    BY <1>1, FS_CardinalityType
  <1>3. n \notin A /\ \A x : x \in B <=> x \in A \/ (x = n /\ n \in bits)
    OBVIOUS
  <1> HIDE DEF A, B
  <1>4. CASE n \in bits
    <2>1. B = A \cup {n}
      BY <1>3, <1>4
    <2>2. Cardinality(B) = Cardinality(A) + 1
      BY <1>1, <1>3, <2>1, FS_AddElement
    <2>3. QED  BY <1>1, <1>2, <1>4, <2>2 DEF A, B, FlippedBit
  <1>5. CASE n \notin bits
    <2>1. B = A
      BY <1>3, <1>5
    <2>2. FlippedBit(bits, n) = 0
      BY <1>5 DEF FlippedBit
    <2>3. QED  BY <1>1, <1>2, <2>1, <2>2 DEF A, B
  <1>6. QED  BY <1>4, <1>5

\* ... and byte by byte.
LEMMA CountByte ==
  ASSUME NEW bits, NEW o \in Nat
  PROVE  /\ Cardinality(bits \cap 0 .. 8 * o - 1) \in Nat
         /\ Cardinality(bits \cap 0 .. 8 * (o + 1) - 1) % 2
              = (Cardinality(bits \cap 0 .. 8 * o - 1)
                  + Parity(FlipMask(bits, o + 1))) % 2
  <1> DEFINE C(n) == Cardinality(bits \cap 0 .. n - 1)
             b(n) == FlippedBit(bits, n)
             k == 8 * o
  <1>1. \A n \in Nat : C(n) \in Nat /\ C(n + 1) = C(n) + b(n)
    BY CountBit
  <1>2. \A n \in Nat : b(n) \in Bit
    BY DEF FlippedBit, Bit
  <1>3. Parity(FlipMask(bits, o + 1))
          = (b(k) + b(k + 1) + b(k + 2) + b(k + 3) + b(k + 4) + b(k + 5)
              + b(k + 6) + b(k + 7)) % 2
    BY MaskParity
  <1>4. k \in Nat /\ 8 * (o + 1) = k + 8
    OBVIOUS
  <1>5. /\ k + 1 \in Nat /\ k + 2 \in Nat /\ k + 3 \in Nat /\ k + 4 \in Nat
        /\ k + 5 \in Nat /\ k + 6 \in Nat /\ k + 7 \in Nat
        /\ (k + 1) + 1 = k + 2 /\ (k + 2) + 1 = k + 3 /\ (k + 3) + 1 = k + 4
        /\ (k + 4) + 1 = k + 5 /\ (k + 5) + 1 = k + 6 /\ (k + 6) + 1 = k + 7
        /\ (k + 7) + 1 = k + 8
    BY <1>4
  <1> HIDE DEF C, b, k
  <1>6. C(k + 8) = C(k) + b(k) + b(k + 1) + b(k + 2) + b(k + 3) + b(k + 4)
                     + b(k + 5) + b(k + 6) + b(k + 7)
    <2>1. /\ C(k) \in Nat /\ C(k + 1) = C(k) + b(k)
          /\ C(k + 1) \in Nat /\ C(k + 2) = C(k + 1) + b(k + 1)
          /\ C(k + 2) \in Nat /\ C(k + 3) = C(k + 2) + b(k + 2)
          /\ C(k + 3) \in Nat /\ C(k + 4) = C(k + 3) + b(k + 3)
      BY <1>1, <1>4, <1>5
    <2>2. /\ C(k + 4) \in Nat /\ C(k + 5) = C(k + 4) + b(k + 4)
          /\ C(k + 5) \in Nat /\ C(k + 6) = C(k + 5) + b(k + 5)
          /\ C(k + 6) \in Nat /\ C(k + 7) = C(k + 6) + b(k + 6)
          /\ C(k + 7) \in Nat /\ C(k + 8) = C(k + 7) + b(k + 7)
      BY <1>1, <1>4, <1>5
    <2>3. QED  BY <2>1, <2>2
  <1>7. /\ b(k) \in Bit /\ b(k + 1) \in Bit /\ b(k + 2) \in Bit
        /\ b(k + 3) \in Bit /\ b(k + 4) \in Bit /\ b(k + 5) \in Bit
        /\ b(k + 6) \in Bit /\ b(k + 7) \in Bit /\ C(k) \in Nat
    BY <1>1, <1>2, <1>4, <1>5
  <1> DEFINE z == b(k) + b(k + 1) + b(k + 2) + b(k + 3) + b(k + 4) + b(k + 5)
                    + b(k + 6) + b(k + 7)
  <1>8. z \in Int /\ C(k + 8) = C(k) + z
    BY <1>6, <1>7 DEF Bit
  <1>9. Parity(FlipMask(bits, o + 1)) = z % 2
    BY <1>3
  <1> HIDE DEF z
  <1>10. C(k + 8) % 2 = (C(k) + (z % 2)) % 2
    <2>1. \A m, n \in Int : (m + n) % 2 = (m + (n % 2)) % 2
      OBVIOUS
    <2>2. C(k) \in Int
      BY <1>7
    <2>3. QED  BY ONLY <1>8, <2>1, <2>2
  <1>11. QED  BY <1>4, <1>7, <1>9, <1>10 DEF C, k

\* decode refuses every packet in which an odd number of bits were flipped,
\* wherever they are: the CRC and its field always agree in parity.
THEOREM OddErrorIsRefused ==
  ASSUME NEW m \in ProtocolMessage, EncodeResultOf(m, MAX_PACKET_SIZE) = "Ok",
         NEW bits,
         bits \subseteq 0 .. 8 * Len(Encode(m, MAX_PACKET_SIZE)) - 1,
         Cardinality(bits) % 2 = 1
  PROVE  DecodeResultOf(Flip(Encode(m, MAX_PACKET_SIZE), bits)) # "Ok"
  <1> DEFINE p == Encode(m, MAX_PACKET_SIZE)
             q == Flip(p, bits)
             L == Len(p) - 2
             s == SubSeq(p, 1, L)
             t == SubSeq(q, 1, L)
             C(n) == Cardinality(bits \cap 0 .. 8 * n - 1)
             f == [n \in 0 .. L + 2 |-> C(n) % 2]
  <1>1. SUFFICES ASSUME DecodeResultOf(q) = "Ok" PROVE FALSE
    OBVIOUS
  <1>2. /\ L \in Nat /\ L >= 10
        /\ p \in Seq(Octet) /\ q \in Seq(Octet) /\ Len(q) = Len(p)
        /\ ReadUint16LittleEndian(p, L) = CalculateCrc16(s)
        /\ ReadUint16LittleEndian(q, L) = CalculateCrc16(t)
    BY <1>1, FlippedAccepted
  <1>3. Len(p) = L + 2
    BY <1>2
  <1>4. \A i \in 1 .. L + 2 :
          /\ p[i] \in Octet /\ q[i] \in Octet /\ FlipMask(bits, i) \in Octet
          /\ q[i] = XorByte(p[i], FlipMask(bits, i))
    BY <1>2, <1>3, FlipIs
  <1>5. C(L + 2) % 2 = 1
    <2>1. bits \cap 0 .. 8 * (L + 2) - 1 = bits
      BY <1>3
    <2>2. QED  BY <2>1
  <1>6. C(0) = 0
    <2>1. bits \cap 0 .. 8 * 0 - 1 = {}
      OBVIOUS
    <2>2. QED  BY <2>1, FS_EmptySet
  <1>7. \A o \in Nat :
          /\ C(o) \in Nat
          /\ C(o + 1) % 2 = (C(o) + Parity(FlipMask(bits, o + 1))) % 2
    BY CountByte
  <1> HIDE DEF p, q, L, C
  <1>8. /\ s \in Seq(Octet) /\ t \in Seq(Octet) /\ Len(s) = L /\ Len(t) = L
        /\ \A i \in 1 .. L : s[i] = p[i] /\ t[i] = q[i]
    BY <1>2, <1>3
  <1> HIDE DEF s, t
  <1>9. \A i \in 1 .. L + 2 :
          /\ Parity(p[i]) \in Bit /\ Parity(q[i]) \in Bit
          /\ f[i] = (f[i - 1] + Parity(p[i]) + Parity(q[i])) % 2
    <2>1. SUFFICES ASSUME NEW i \in 1 .. L + 2
          PROVE /\ Parity(p[i]) \in Bit /\ Parity(q[i]) \in Bit
                /\ f[i] = (f[i - 1] + Parity(p[i]) + Parity(q[i])) % 2
      OBVIOUS
    <2> DEFINE mask == FlipMask(bits, i)
    <2>2. /\ p[i] \in Octet /\ q[i] \in Octet /\ mask \in Octet
          /\ q[i] = XorByte(p[i], mask)
      BY <1>4
    <2>3. Parity(q[i]) = (Parity(p[i]) + Parity(mask)) % 2
      BY <2>2, XorParity
    <2>4. Parity(p[i]) \in Bit /\ Parity(q[i]) \in Bit /\ Parity(mask) \in Bit
      BY <2>2, ParityIsBit
    <2>5. i - 1 \in Nat /\ (i - 1) + 1 = i /\ i \in 0 .. L + 2
            /\ i - 1 \in 0 .. L + 2
      BY <1>2
    <2>6. C(i - 1) \in Nat /\ C(i) % 2 = (C(i - 1) + Parity(mask)) % 2
      BY <1>7, <2>5
    <2>7. f[i] = C(i) % 2 /\ f[i - 1] = C(i - 1) % 2
      BY <2>5
    <2> HIDE DEF f, mask
    <2>8. f[i] = (f[i - 1] + Parity(mask)) % 2
      BY <2>4, <2>6, <2>7 DEF Bit
    <2>9. f[i - 1] \in Bit
      BY <2>6, <2>7 DEF Bit
    <2>10. (f[i - 1] + Parity(mask)) % 2
             = (f[i - 1] + Parity(p[i]) + Parity(q[i])) % 2
      BY ONLY <2>3, <2>4, <2>9 DEF Bit
    <2>11. QED  BY <2>4, <2>8, <2>10
  <1>10. f[0] = 0 /\ f[L] \in Bit /\ f[L + 2] = 1
    <2>1. 0 \in 0 .. L + 2 /\ L \in 0 .. L + 2 /\ L + 2 \in 0 .. L + 2
      BY <1>2
    <2>2. f[0] = C(0) % 2 /\ f[L] = C(L) % 2 /\ f[L + 2] = C(L + 2) % 2
      BY <2>1
    <2>3. C(L) % 2 \in Bit
      <3>1. C(L) \in Nat
        BY <1>2, <1>7
      <3>2. QED  BY ONLY <3>1 DEF Bit
    <2>4. QED  BY <1>5, <1>6, <2>2, <2>3
  <1> HIDE DEF f
  <1>11. (WordParity(CalculateCrc16(s)) + WordParity(CalculateCrc16(t))) % 2
           = f[L]
    <2>1. ASSUME NEW n \in 1 .. Len(s)
          PROVE  f[n] = (f[n - 1] + Parity(s[n]) + Parity(t[n])) % 2
      <3>1. n \in 1 .. L /\ n \in 1 .. L + 2
        BY <1>2, <1>8
      <3>2. s[n] = p[n] /\ t[n] = q[n]
        BY <1>8, <3>1
      <3>3. QED  BY <1>9, <3>1, <3>2
    <2>2. /\ s \in Seq(Octet) /\ t \in Seq(Octet) /\ Len(s) = Len(t)
          /\ f[0] = 0
      BY <1>8, <1>10
    <2>3. (WordParity(CalculateCrc16(s)) + WordParity(CalculateCrc16(t))) % 2
            = f[Len(s)]
      BY ONLY <2>1, <2>2, CrcParity, Zenon
    <2>4. QED  BY <1>8, <2>3
  <1>12. L + 1 \in 1 .. L + 2 /\ L + 2 \in 1 .. L + 2
           /\ (L + 1) - 1 = L /\ (L + 2) - 1 = L + 1
    BY <1>2
  <1> DEFINE a == Parity(p[L + 1])
             b == Parity(p[L + 2])
             c == Parity(q[L + 1])
             d == Parity(q[L + 2])
  <1>13. /\ a \in Bit /\ b \in Bit /\ c \in Bit /\ d \in Bit
         /\ f[L + 1] = (f[L] + a + c) % 2 /\ f[L + 2] = (f[L + 1] + b + d) % 2
    BY <1>9, <1>12
  <1>14. /\ WordParity(CalculateCrc16(s)) = (a + b) % 2
         /\ WordParity(CalculateCrc16(t)) = (c + d) % 2
    BY <1>2, <1>4, <1>12, ReadParity DEF ReadUint16LittleEndian
  <1> HIDE DEF a, b, c, d
  <1>15. QED
    BY ONLY <1>10, <1>11, <1>13, <1>14 DEF Bit

\* A flip flips something, an extension adds something.
LEMMA SpoilingIs ==
  ASSUME NEW s \in Spoiling
  PROVE  /\ s.kind = "flipped" => s.bits # {}
         /\ s.kind = "cut" => s.lost \in Nat \ {0}
         /\ s.kind = "extended" => s.bytes \in Seq(Octet) /\ s.bytes # <<>>
  <1>1. ASSUME s.kind = "flipped" PROVE s.bits # {}
    <2>1. s.bits \in (SUBSET Nat) \ {{}}
      BY <1>1 DEF Spoiling
    <2>2. QED  BY <2>1
  <1>2. s.kind = "cut" => s.lost \in Nat \ {0}
    BY DEF Spoiling
  <1>3. s.kind = "extended" => s.bytes \in Seq(Octet) /\ s.bytes # <<>>
    BY DEF Spoiling
  <1>4. QED  BY <1>1, <1>2, <1>3

\* Whatever the radio did to it, a packet is a sequence of bytes.
LEMMA SpoiltIsBytes ==
  ASSUME NEW p \in Seq(Octet), NEW s \in Spoiling
  PROVE  Spoil(p, s) \in Seq(Octet)
  <1>1. CASE s.kind = "none"
    BY <1>1 DEF Spoil
  <1>2. CASE s.kind = "flipped"
    <2>1. Spoil(p, s) = Flip(p, s.bits)
      BY <1>2 DEF Spoil
    <2>2. QED  BY <2>1, FlipIs
  <1>3. CASE s.kind = "cut"
    <2>1. Spoil(p, s) = SubSeq(p, 1, Len(p) - s.lost)
      BY <1>3 DEF Spoil
    <2>2. s.lost \in Nat \ {0}
      BY <1>3 DEF Spoiling
    <2>3. SubSeq(p, 1, Len(p) - s.lost) \in Seq(Octet)
      BY <2>2
    <2>4. QED  BY <2>1, <2>3
  <1>4. CASE s.kind = "extended"
    <2>1. Spoil(p, s) = p \o s.bytes
      BY <1>4 DEF Spoil
    <2>2. s.bytes \in Seq(Octet)
      BY <1>4 DEF Spoiling
    <2>3. QED  BY <2>1, <2>2, Joined
  <1>5. CASE s.kind = "foreign"
    <2> DEFINE head == SubSeq(p, 1, Len(p) - CRC_SIZE)
    <2>1. Spoil(p, s) = WithCrc([head EXCEPT ![s.at] = s.value])
      BY <1>5 DEF Spoil
    <2>2. s.value \in Octet
      BY <1>5 DEF Spoiling
    <2>3. head \in Seq(Octet)
      BY DEF CRC_SIZE
    <2> HIDE DEF head
    <2>4. [head EXCEPT ![s.at] = s.value] \in Seq(Octet)
      <3>1. Len(head) \in Nat /\ head \in [1 .. Len(head) -> Octet]
        BY <2>3
      <3>2. [head EXCEPT ![s.at] = s.value] \in [1 .. Len(head) -> Octet]
        BY <2>2, <3>1
      <3>3. QED  BY ONLY <3>1, <3>2, SeqDef
    <2>5. QED  BY <2>1, <2>4, WithCrcIs
  <1>6. s.kind \in {"none", "flipped", "cut", "extended", "foreign"}
    BY DEF Spoiling
  <1>7. QED  BY <1>1, <1>2, <1>3, <1>4, <1>5, <1>6

\* A packet has the length its header declares.
LEMMA AcceptedLength ==
  ASSUME NEW m \in ProtocolMessage, EncodeResultOf(m, MAX_PACKET_SIZE) = "Ok",
         NEW q \in Seq(Octet), DecodeResultOf(q) = "Ok",
         Len(q) >= 10 => q[10] = Encode(m, MAX_PACKET_SIZE)[10]
  PROVE  Len(q) = Len(Encode(m, MAX_PACKET_SIZE))
  <1>1. /\ Len(Encode(m, MAX_PACKET_SIZE)) = 10 + Len(m.payload) + 2
        /\ Encode(m, MAX_PACKET_SIZE)[10] = Len(m.payload)
    BY EncodedBytes
  <1>2. Len(q) >= 12 /\ Len(q) = 10 + q[10] + 2
    BY AcceptedPacket
  <1>3. Len(q) \in Nat
    OBVIOUS
  <1>4. Len(q) >= 10
    BY ONLY <1>2, <1>3
  <1>5. q[10] = Len(m.payload)
    BY <1>1, <1>4
  <1>6. QED  BY ONLY <1>1, <1>2, <1>5

\* A packet that lost bytes at the end, or to which bytes were added, is
\* refused.
LEMMA WrongLengthIsRefused ==
  ASSUME NEW m \in ProtocolMessage, EncodeResultOf(m, MAX_PACKET_SIZE) = "Ok",
         NEW s \in Spoiling, s.kind \in {"cut", "extended"}
  PROVE  DecodeResultOf(Spoil(Encode(m, MAX_PACKET_SIZE), s)) # "Ok"
  <1> DEFINE p == Encode(m, MAX_PACKET_SIZE)
             q == Spoil(p, s)
  <1>1. p \in Seq(Octet) /\ Len(p) = 10 + Len(m.payload) + 2
    BY EncodedBytes
  <1>2. Len(m.payload) \in Nat
    BY DEF ProtocolMessage
  <1>3. q \in Seq(Octet)
    BY <1>1, SpoiltIsBytes
  <1>4. DecodeResultOf(q) = "Ok" /\ (Len(q) >= 10 => q[10] = p[10])
          => Len(q) = Len(p)
    BY <1>3, AcceptedLength
  <1>5. Len(p) \in Nat /\ Len(p) >= 12
    BY <1>1, <1>2
  <1> HIDE DEF p
  <1>6. CASE s.kind = "cut"
    <2>1. q = SubSeq(p, 1, Len(p) - s.lost) /\ s.lost \in Nat \ {0}
      BY <1>6 DEF Spoil, Spoiling
    <2> HIDE DEF q
    <2>2. Len(p) - s.lost < Len(p)
      BY ONLY <1>5, <2>1
    <2>3. Len(q) < Len(p)
      BY ONLY <1>1, <1>5, <2>1, <2>2
    <2>4. Len(q) >= 10 => q[10] = p[10]
      BY ONLY <1>1, <1>5, <2>1, <2>2
    <2>5. QED  BY <1>3, <1>4, <1>5, <2>3, <2>4 DEF p, q
  <1>7. CASE s.kind = "extended"
    <2>1. q = p \o s.bytes /\ s.bytes \in Seq(Octet) /\ s.bytes # <<>>
      BY <1>7 DEF Spoil, Spoiling
    <2>2. Len(s.bytes) \in Nat \ {0}
      BY <2>1
    <2>3. /\ Len(p \o s.bytes) = Len(p) + Len(s.bytes)
          /\ \A i \in 1 .. Len(p) : (p \o s.bytes)[i] = p[i]
      BY ONLY <1>1, <2>1, Joined
    <2>4. 10 \in 1 .. Len(p)
      BY <1>5
    <2>5. Len(q) # Len(p) /\ q[10] = p[10]
      BY <1>5, <2>1, <2>2, <2>3, <2>4
    <2>6. QED  BY <1>4, <2>5 DEF p
  <1>8. QED  BY <1>6, <1>7
-----------------------------------------------------------------------------
(***************************************************************************)
(* The path of a message, step by step.                                    *)
(***************************************************************************)
\* The types the proofs need.
PathType ==
  /\ config \in Config
  /\ sent \in ProtocolMessage /\ received \in ProtocolMessage
  /\ spoiling \in Spoiling
  /\ step \in {"send", "decode", "route", "load", "acknowledge", "done"}

\* The packet is what the radio made of the encoding.
PacketInv ==
  step = "decode" \/ decodeResult # "none" =>
    /\ EncodeResultOf(sent, MAX_PACKET_SIZE) = "Ok"
    /\ packet = Spoil(Encode(sent, MAX_PACKET_SIZE), spoiling)

\* The message is what decode made of the packet; only an intact one that is
\* no response goes on.
DecodeInv ==
  /\ step \in {"send", "decode"} => decodeResult = "none"
  /\ decodeResult = "none" => received = DefaultMessage
  /\ decodeResult # "none" => /\ decodeResult = DecodeResultOf(packet)
                              /\ received = Decode(packet, DefaultMessage)
  /\ message = RoutedView(received)
  /\ step \in {"route", "load", "acknowledge"} =>
       decodeResult = "Ok" /\ ~IsResponse(received)

\* The frame is what build_frame made of the message.
RouteInv ==
  /\ step \in {"send", "decode", "route"} => result = "none"
  /\ result # "none" => /\ decodeResult = "Ok" /\ ~IsResponse(received)
                        /\ result = RouteResultOf(message, config)
                        /\ frame = BuildFrame(message, config)

\* The buffer holds the frame, and only a frame that was routed.
BufferInv ==
  /\ step \in {"send", "decode", "route", "load"} => buffer = EmptyBuffer
  /\ step = "load" => result = "Ok"
  /\ buffer # EmptyBuffer => /\ result = "Ok"
                             /\ buffer = LoadedBuffer(ToCanFrame(frame))
  /\ step = "acknowledge" => /\ result # "none"
                             /\ result = "Ok" => buffer # EmptyBuffer

\* The acknowledgement answers the message, when all is done.
AcknowledgementInv ==
  acknowledgement # <<>> =>
    /\ step = "done" /\ result # "none"
    /\ result = "Ok" => buffer # EmptyBuffer
    /\ acknowledgement =
         Encode(AcknowledgementOf(received, StatusOf(result)), MAX_PACKET_SIZE)

PathInv == /\ PathType /\ PacketInv /\ DecodeInv
           /\ RouteInv /\ BufferInv /\ AcknowledgementInv

\* Octets are bytes.
LEMMA SameBytes == Octet = Byte /\ Octet = 0 .. 255
  BY DEF Octet, Byte

\* A default message is a message.
LEMMA DefaultIsMessage == DefaultMessage \in ProtocolMessage
  <1>1. 0 \in Octet /\ 1 \in Octet /\ 0 \in Word
    BY OctetIs, WordIs
  <1>2. <<>> \in Seq(Octet)
    OBVIOUS
  <1>3. QED  BY ONLY <1>1, <1>2 DEF DefaultMessage, ProtocolMessage, MessageType

\* What decode delivers is a message.
LEMMA DecodedIsMessage ==
  ASSUME NEW p \in Seq(Octet)
  PROVE  Decode(p, DefaultMessage) \in ProtocolMessage
  <1>1. CASE DecodeResultOf(p) = "Ok"
    BY <1>1, OnlyEncodings
  <1>2. CASE DecodeResultOf(p) # "Ok"
    <2>1. Decode(p, DefaultMessage) = DefaultMessage
      BY <1>2 DEF Decode
    <2>2. QED  BY <2>1, DefaultIsMessage
  <1>3. QED  BY <1>1, <1>2

\* decode and build_frame always return a result.
LEMMA Returned ==
  /\ \A p : DecodeResultOf(p) # "none"
  /\ \A msg, cfg : RouteResultOf(msg, cfg) \in
       {"InvalidConfiguration", "InvalidMessageType", "UnknownCommand",
        "InvalidPayloadLength", "InvalidPayloadValue", "Ok"}
  <1>1. \A p : DecodeResultOf(p) # "none"
    BY DEF DecodeResultOf
  <1>2. \A msg, cfg : RouteResultOf(msg, cfg) \in
       {"InvalidConfiguration", "InvalidMessageType", "UnknownCommand",
        "InvalidPayloadLength", "InvalidPayloadValue", "Ok"}
    BY DEF RouteResultOf
  <1>3. QED  BY <1>1, <1>2

\* The routed view of a message has its payload and its ID.
LEMMA RoutedViewIs ==
  ASSUME NEW m \in ProtocolMessage
  PROVE  /\ RoutedView(m).payload \in Seq(Byte)
         /\ RoutedView(m).isResponse = IsResponse(m)
         /\ RoutedView(m).message_id = m.message_id
         /\ RoutedView(m).message_id \in Word
  <1>1. m.payload \in Seq(Octet) /\ m.message_id \in Word
    BY DEF ProtocolMessage
  <1>2. QED  BY <1>1, SameBytes DEF RoutedView

\* A routed frame is not empty: its buffer can be told from an empty one.
LEMMA LoadedIsNotEmpty ==
  ASSUME NEW msg, msg.payload \in Seq(Byte), NEW cfg \in Config,
         RouteResultOf(msg, cfg) = "Ok"
  PROVE  LoadedBuffer(ToCanFrame(BuildFrame(msg, cfg))) # EmptyBuffer
  <1>1. Len(BuildFrame(msg, cfg).data) \in 1 .. CLASSIC_CAN_MAX_DATA_LENGTH
    BY RoutedFrame
  <1>2. LoadedBuffer(ToCanFrame(BuildFrame(msg, cfg))).dlc
          = Len(BuildFrame(msg, cfg).data)
    BY DEF LoadedBuffer, ToCanFrame
  <1>3. EmptyBuffer.dlc = 0
    BY DEF EmptyBuffer
  <1>4. 0 \notin 1 .. CLASSIC_CAN_MAX_DATA_LENGTH
    BY DEF CLASSIC_CAN_MAX_DATA_LENGTH
  <1>5. QED  BY ONLY <1>1, <1>2, <1>3, <1>4

\* The path starts in the invariant.
LEMMA PathStarts == PathInit => PathInv
  <1> SUFFICES ASSUME PathInit PROVE PathInv
    OBVIOUS
  <1>1. PICK c \in Cases :
          config \in c.configs /\ sent \in c.messages /\ spoiling \in c.spoilings
    BY DEF PathInit
  <1>2. config \in Config /\ sent \in ProtocolMessage /\ spoiling \in Spoiling
    BY <1>1, CasesAssumption
  <1>3. /\ step = "send" /\ decodeResult = "none" /\ result = "none"
        /\ received = DefaultMessage /\ message = RoutedView(received)
        /\ buffer = EmptyBuffer /\ acknowledgement = <<>>
    BY DEF PathInit
  <1>4. PathType
    BY <1>2, <1>3, DefaultIsMessage DEF PathType
  <1>5. QED
    BY <1>3, <1>4
    DEF PathInv, PacketInv, DecodeInv, RouteInv, BufferInv, AcknowledgementInv

\* The packet in the receiver is a sequence of bytes.
LEMMA PacketIsBytes ==
  ASSUME PathInv, step = "decode" \/ decodeResult # "none"
  PROVE  packet \in Seq(Octet)
  <1>1. /\ EncodeResultOf(sent, MAX_PACKET_SIZE) = "Ok"
        /\ packet = Spoil(Encode(sent, MAX_PACKET_SIZE), spoiling)
        /\ sent \in ProtocolMessage /\ spoiling \in Spoiling
    BY DEF PathInv, PathType, PacketInv
  <1>2. Encode(sent, MAX_PACKET_SIZE) \in Seq(Octet)
    BY <1>1, EncodedBytes
  <1>3. QED  BY <1>1, <1>2, SpoiltIsBytes

\* encode, and the radio.
LEMMA SendKeeps == ASSUME PathInv, Send PROVE PathInv'
  <1>1. /\ step = "send" /\ step' \in {"decode", "done"}
        /\ UNCHANGED <<sent, spoiling, decodeResult, received, buffer,
                       acknowledgement, config, message, frame, result>>
    BY DEF Send, routingVars
  <1>2. step' = "decode" =>
          /\ EncodeResultOf(sent, MAX_PACKET_SIZE) = "Ok"
          /\ packet' = Spoil(Encode(sent, MAX_PACKET_SIZE), spoiling)
    BY DEF Send
  <1>3. /\ decodeResult = "none" /\ result = "none" /\ buffer = EmptyBuffer
        /\ acknowledgement = <<>>
    BY <1>1 DEF PathInv, DecodeInv, RouteInv, BufferInv, AcknowledgementInv
  <1>4. PathType'
    BY <1>1 DEF PathInv, PathType
  <1>5. PacketInv'
    BY <1>1, <1>2, <1>3 DEF PacketInv
  <1>6. DecodeInv'
    BY <1>1, <1>3 DEF PathInv, DecodeInv
  <1>7. RouteInv' /\ BufferInv' /\ AcknowledgementInv'
    BY <1>1, <1>3 DEF RouteInv, BufferInv, AcknowledgementInv
  <1>8. QED  BY <1>4, <1>5, <1>6, <1>7 DEF PathInv

\* decode.
LEMMA DecodeKeeps == ASSUME PathInv, DecodePacket PROVE PathInv'
  <1>1. /\ step = "decode" /\ decodeResult' = DecodeResultOf(packet)
        /\ received' = Decode(packet, received)
        /\ message' = RoutedView(received')
        /\ step' = IF decodeResult' # "Ok" \/ IsResponse(received')
                   THEN "done" ELSE "route"
        /\ UNCHANGED <<sent, spoiling, packet, buffer, acknowledgement,
                       config, frame, result>>
    BY DEF DecodePacket
  <1>2. /\ received = DefaultMessage /\ result = "none"
        /\ buffer = EmptyBuffer /\ acknowledgement = <<>>
    BY <1>1 DEF PathInv, DecodeInv, RouteInv, BufferInv, AcknowledgementInv
  <1>3. received' \in ProtocolMessage
    BY <1>1, <1>2, PacketIsBytes, DecodedIsMessage
  <1>4. PathType'
    BY <1>1, <1>3 DEF PathInv, PathType
  <1>5. PacketInv'
    BY <1>1 DEF PathInv, PacketInv
  <1>6. DecodeInv'
    BY <1>1, <1>2, Returned DEF DecodeInv
  <1>7. RouteInv' /\ BufferInv' /\ AcknowledgementInv'
    BY <1>1, <1>2 DEF RouteInv, BufferInv, AcknowledgementInv
  <1>8. QED  BY <1>4, <1>5, <1>6, <1>7 DEF PathInv

\* build_frame.
LEMMA RouteKeeps == ASSUME PathInv, Route PROVE PathInv'
  <1>1. /\ step = "route" /\ result = "none"
        /\ result' = RouteResultOf(message, config)
        /\ frame' = BuildFrame(message, config)
        /\ step' = IF result' = "Ok" THEN "load" ELSE "acknowledge"
        /\ UNCHANGED <<sent, spoiling, packet, decodeResult, received, buffer,
                       acknowledgement, config, message>>
    BY DEF Route, RouteFrame
  <1>2. /\ decodeResult = "Ok" /\ ~IsResponse(received)
        /\ buffer = EmptyBuffer /\ acknowledgement = <<>>
    BY <1>1 DEF PathInv, DecodeInv, BufferInv, AcknowledgementInv
  <1>3. result' # "none"
    BY <1>1, Returned
  <1>4. PathType'
    BY <1>1 DEF PathInv, PathType
  <1>5. PacketInv' /\ DecodeInv'
    BY <1>1, <1>2 DEF PathInv, PacketInv, DecodeInv
  <1>6. RouteInv'
    BY <1>1, <1>2 DEF RouteInv
  <1>7. BufferInv' /\ AcknowledgementInv'
    BY <1>1, <1>2, <1>3 DEF BufferInv, AcknowledgementInv
  <1>8. QED  BY <1>4, <1>5, <1>6, <1>7 DEF PathInv

\* sendMessage.
LEMMA LoadKeeps == ASSUME PathInv, LoadFrame PROVE PathInv'
  <1>1. /\ step = "load" /\ step' = "acknowledge"
        /\ buffer' = LoadedBuffer(ToCanFrame(frame))
        /\ UNCHANGED <<sent, spoiling, packet, decodeResult, received,
                       acknowledgement, config, message, frame, result>>
    BY DEF LoadFrame, routingVars
  <1>2. /\ result = "Ok" /\ acknowledgement = <<>>
        /\ decodeResult = "Ok" /\ ~IsResponse(received)
    BY <1>1 DEF PathInv, BufferInv, AcknowledgementInv, DecodeInv
  <1>3. /\ frame = BuildFrame(message, config)
        /\ RouteResultOf(message, config) = "Ok"
        /\ config \in Config /\ message.payload \in Seq(Byte)
    BY <1>2, RoutedViewIs DEF PathInv, PathType, RouteInv, DecodeInv
  <1>4. buffer' # EmptyBuffer
    BY <1>1, <1>3, LoadedIsNotEmpty
  <1>5. PathType'
    BY <1>1 DEF PathInv, PathType
  <1>6. PacketInv' /\ DecodeInv'
    BY <1>1, <1>2 DEF PathInv, PacketInv, DecodeInv
  <1>7. RouteInv' /\ BufferInv' /\ AcknowledgementInv'
    BY <1>1, <1>2, <1>4
    DEF PathInv, RouteInv, BufferInv, AcknowledgementInv
  <1>8. QED  BY <1>5, <1>6, <1>7 DEF PathInv

\* send_acknowledgement.
LEMMA AcknowledgeKeeps == ASSUME PathInv, Acknowledge PROVE PathInv'
  <1>1. /\ step = "acknowledge" /\ step' = "done"
        /\ acknowledgement' # <<>> => acknowledgement' =
             Encode(AcknowledgementOf(received, StatusOf(result)),
                    MAX_PACKET_SIZE)
        /\ UNCHANGED <<sent, spoiling, packet, decodeResult, received, buffer,
                       config, message, frame, result>>
    BY DEF Acknowledge, routingVars
  <1>2. result # "none" /\ (result = "Ok" => buffer # EmptyBuffer)
    BY <1>1 DEF PathInv, BufferInv
  <1>3. PathType'
    BY <1>1 DEF PathInv, PathType
  <1>4. PacketInv' /\ DecodeInv'
    BY <1>1 DEF PathInv, PacketInv, DecodeInv
  <1>5. RouteInv' /\ BufferInv' /\ AcknowledgementInv'
    BY <1>1, <1>2 DEF PathInv, RouteInv, BufferInv, AcknowledgementInv
  <1>6. QED  BY <1>3, <1>4, <1>5 DEF PathInv

\* The invariant holds in every state of the path.
LEMMA PathInvariant == PathSpec => []PathInv
  <1>1. ASSUME PathInv, [PathNext]_<<pathVars, routingVars>> PROVE PathInv'
    <2>1. CASE Send  BY <1>1, <2>1, SendKeeps
    <2>2. CASE DecodePacket  BY <1>1, <2>2, DecodeKeeps
    <2>3. CASE Route  BY <1>1, <2>3, RouteKeeps
    <2>4. CASE LoadFrame  BY <1>1, <2>4, LoadKeeps
    <2>5. CASE Acknowledge  BY <1>1, <2>5, AcknowledgeKeeps
    <2>6. CASE UNCHANGED <<pathVars, routingVars>>
      BY <1>1, <2>6
      DEF pathVars, routingVars, PathInv, PathType, PacketInv, DecodeInv,
          RouteInv, BufferInv, AcknowledgementInv
    <2>7. QED  BY <1>1, <2>1, <2>2, <2>3, <2>4, <2>5, <2>6 DEF PathNext
  <1>2. QED  BY <1>1, PathStarts, PTL DEF PathSpec
-----------------------------------------------------------------------------
(***************************************************************************)
(* What follows for the message, its frame and its acknowledgement.        *)
(***************************************************************************)
\* decode accepts nothing encode would not write.
THEOREM OnlyEncodingsAreAlwaysAccepted ==
  PathSpec => []OnlyEncodingsAreAccepted
  <1>1. ASSUME PathInv, decodeResult = "Ok"
        PROVE  Encode(received, MAX_PACKET_SIZE) = packet
    <2>1. packet \in Seq(Octet)
      BY <1>1, PacketIsBytes
    <2>2. /\ DecodeResultOf(packet) = "Ok"
          /\ received = Decode(packet, DefaultMessage)
      BY <1>1 DEF PathInv, DecodeInv
    <2>3. QED  BY <2>1, <2>2, OnlyEncodings
  <1>2. PathInv => OnlyEncodingsAreAccepted
    BY <1>1 DEF OnlyEncodingsAreAccepted
  <1>3. QED  BY <1>2, PathInvariant, PTL

\* What the CRC is there for: a burst of up to 16 bits among the bytes it
\* covers, any error in its own field, an odd number of flipped bits anywhere
\* in the packet, and bytes missing or added.
CrcNotices(s, length) ==
  LET covered == 8 * (length - CRC_SIZE) IN
  s.kind = "flipped" =>
    \/ \E a \in Nat : a + 15 < covered /\ s.bits \subseteq a .. a + 15
    \/ s.bits \subseteq covered .. covered + 15
    \/ s.bits \subseteq 0 .. 8 * length - 1 /\ Cardinality(s.bits) % 2 = 1

\* An intact packet gives the message back, a spoiled one whose errors the
\* CRC notices gives none.
THEOREM MessageAlwaysSurvivesOrIsRefused ==
    PathSpec => [](CrcNotices(spoiling, EncodedSize(Len(sent.payload)))
                     => MessageSurvivesOrIsRefused)
  <1>1. ASSUME PathInv, decodeResult # "none",
               CrcNotices(spoiling, EncodedSize(Len(sent.payload)))
        PROVE  MessageSurvivesOrIsRefused
    <2> DEFINE p == Encode(sent, MAX_PACKET_SIZE)
    <2>1. /\ EncodeResultOf(sent, MAX_PACKET_SIZE) = "Ok"
          /\ packet = Spoil(p, spoiling)
          /\ sent \in ProtocolMessage /\ spoiling \in Spoiling
      BY <1>1 DEF PathInv, PathType, PacketInv
    <2>2. /\ decodeResult = DecodeResultOf(packet)
          /\ received = Decode(packet, DefaultMessage)
      BY <1>1 DEF PathInv, DecodeInv
    <2>3. Len(p) = EncodedSize(Len(sent.payload))
      <3>1. /\ Len(p) = 10 + Len(sent.payload) + 2
            /\ Len(sent.payload) <= MAX_PAYLOAD_SIZE
        BY <2>1, EncodedBytes, EncodeIs
      <3>2. Len(sent.payload) \in Nat
        BY <2>1 DEF ProtocolMessage
      <3>3. QED
        BY <3>1, <3>2 DEF EncodedSize, HEADER_SIZE, CRC_SIZE, MAX_PAYLOAD_SIZE
    <2>4. CASE spoiling.kind = "none"
      <3>1. packet = p
        BY <2>1, <2>4 DEF Spoil
      <3>2. DecodeResultOf(packet) = "Ok" /\ received = sent
        BY <2>1, <2>2, <3>1, RoundTrip
      <3>3. QED  BY <2>2, <2>4, <3>2 DEF MessageSurvivesOrIsRefused
    <2>5. CASE spoiling.kind \in {"cut", "extended"}
      <3>1. decodeResult # "Ok"
        BY <2>1, <2>2, <2>5, WrongLengthIsRefused
      <3>2. QED  BY <2>5, <3>1 DEF MessageSurvivesOrIsRefused
    <2>6. CASE spoiling.kind = "flipped"
      <3> DEFINE covered == 8 * (Len(p) - CRC_SIZE)
      <3>1. packet = Flip(p, spoiling.bits)
        BY <2>1, <2>6 DEF Spoil
      <3>2. spoiling.bits # {}
        BY <2>1, <2>6, SpoilingIs
      <3>3. \/ \E a \in Nat :
                 a + 15 < covered /\ spoiling.bits \subseteq a .. a + 15
            \/ spoiling.bits \subseteq covered .. covered + 15
            \/ /\ spoiling.bits \subseteq 0 .. 8 * Len(p) - 1
               /\ Cardinality(spoiling.bits) % 2 = 1
        BY <1>1, <2>3, <2>6 DEF CrcNotices
      <3>4. DecodeResultOf(packet) # "Ok"
        BY <2>1, <3>1, <3>2, <3>3, FlippedIsRefused, OddErrorIsRefused
      <3>5. QED  BY <2>2, <2>6, <3>4 DEF MessageSurvivesOrIsRefused
    <2>7. CASE spoiling.kind = "foreign"
      BY <2>7 DEF MessageSurvivesOrIsRefused
    <2>8. spoiling.kind \in {"none", "flipped", "cut", "extended", "foreign"}
      BY <2>1 DEF Spoiling
    <2>9. QED  BY <2>4, <2>5, <2>6, <2>7, <2>8
  <1>2. PathInv => (CrcNotices(spoiling, EncodedSize(Len(sent.payload)))
                      => MessageSurvivesOrIsRefused)
    BY <1>1 DEF MessageSurvivesOrIsRefused
  <1>3. QED  BY <1>2, PathInvariant, PTL

\* The receiving ECU puts the routed frame together again.
THEOREM FrameAlwaysSurvivesRegisters == PathSpec => []FrameSurvivesRegisters
  <1>1. ASSUME PathInv, buffer # EmptyBuffer
        PROVE  ReadMessage(buffer) = frame
    <2>1. /\ result = "Ok" /\ buffer = LoadedBuffer(ToCanFrame(frame))
      BY <1>1 DEF PathInv, BufferInv
    <2>2. /\ frame = BuildFrame(message, config)
          /\ RouteResultOf(message, config) = "Ok"
          /\ config \in Config /\ message.payload \in Seq(Byte)
      BY <1>1, <2>1, RoutedViewIs DEF PathInv, PathType, RouteInv, DecodeInv
    <2>3. frame \in Frames
      BY <2>2, RoutedIsFrame
    <2>4. QED  BY <2>1, <2>3, RegistersKeepFrames
  <1>2. PathInv => FrameSurvivesRegisters
    BY <1>1 DEF FrameSurvivesRegisters
  <1>3. QED  BY <1>2, PathInvariant, PTL

\* Two packets of messages with the same number and ID agree in bytes 6 to 9.
LEMMA NumberBytes ==
  ASSUME NEW m \in ProtocolMessage, EncodeResultOf(m, MAX_PACKET_SIZE) = "Ok",
         NEW n \in ProtocolMessage, EncodeResultOf(n, MAX_PACKET_SIZE) = "Ok",
         m.sequence_number = n.sequence_number, m.message_id = n.message_id
  PROVE  SubSeq(Encode(m, MAX_PACKET_SIZE), 6, 9)
           = SubSeq(Encode(n, MAX_PACKET_SIZE), 6, 9)
  <1> DEFINE bytes(w) ==
        <<w.sequence_number % 256, w.sequence_number \div 256,
          w.message_id % 256, w.message_id \div 256>>
  <1>1. ASSUME NEW w \in ProtocolMessage,
               EncodeResultOf(w, MAX_PACKET_SIZE) = "Ok"
        PROVE  SubSeq(Encode(w, MAX_PACKET_SIZE), 6, 9) = bytes(w)
    <2> DEFINE p == Encode(w, MAX_PACKET_SIZE)
               s == HeaderAndPayload(w)
               len == 10 + Len(w.payload)
    <2>1. Len(w.payload) <= MAX_PAYLOAD_SIZE /\ Len(w.payload) \in Nat
      BY <1>1, EncodeIs DEF ProtocolMessage
    <2>2. /\ s[6] = w.sequence_number % 256
          /\ s[7] = w.sequence_number \div 256
          /\ s[8] = w.message_id % 256 /\ s[9] = w.message_id \div 256
      BY <2>1, HeaderAndPayloadIs
    <2>3. p \in Seq(Octet) /\ Len(p) = len + 2 /\ SubSeq(p, 1, len) = s
      BY <1>1, EncodedBytes
    <2>4. len \in Nat /\ len >= 10
      BY <2>1
    <2> HIDE DEF p, s, len
    <2>5. s[6] = p[6] /\ s[7] = p[7] /\ s[8] = p[8] /\ s[9] = p[9]
      BY <2>3, <2>4
    <2>6. SubSeq(p, 6, 9) = <<p[6], p[7], p[8], p[9]>>
      <3> DEFINE q == SubSeq(p, 6, 9)
      <3>1. /\ q \in Seq(Octet) /\ Len(q) = 4
            /\ q[1] = p[6] /\ q[2] = p[7] /\ q[3] = p[8] /\ q[4] = p[9]
        BY <2>3, <2>4
      <3> HIDE DEF q
      <3>2. q = <<q[1], q[2], q[3], q[4]>>
        BY <3>1
      <3>3. QED  BY <3>1, <3>2 DEF q
    <2>7. SubSeq(p, 6, 9) = bytes(w)
      BY <2>2, <2>5, <2>6
    <2>8. QED  BY <2>7 DEF p
  <1>2. bytes(m) = bytes(n)
    OBVIOUS
  <1> HIDE DEF bytes
  <1>3. SubSeq(Encode(m, MAX_PACKET_SIZE), 6, 9) = bytes(m)
    BY <1>1
  <1>4. SubSeq(Encode(n, MAX_PACKET_SIZE), 6, 9) = bytes(n)
    BY <1>1
  <1>5. QED  BY ONLY <1>2, <1>3, <1>4

\* The acknowledgement of a message is a message encode takes.
LEMMA AcknowledgementIs ==
  ASSUME NEW m \in ProtocolMessage, NEW status \in 0 .. 8
  PROVE  LET a == AcknowledgementOf(m, status) IN
         /\ a \in ProtocolMessage /\ a.type = MessageType.Acknowledgement
         /\ a.flags = 2 /\ a.payload = <<status>>
         /\ a.sequence_number = m.sequence_number
         /\ a.message_id = m.message_id
         /\ EncodeResultOf(a, MAX_PACKET_SIZE) = "Ok"
  <1> DEFINE a == AcknowledgementOf(m, status)
  <1>1. a = [type |-> 3, flags |-> 2, sequence_number |-> m.sequence_number,
             message_id |-> m.message_id, payload |-> <<status>>]
    BY DEF AcknowledgementOf, MessageType, FlagIsResponse
  <1>2. 3 \in Octet /\ 2 \in Octet /\ status \in Octet
    BY OctetIs
  <1>3. m.sequence_number \in Word /\ m.message_id \in Word
    BY DEF ProtocolMessage
  <1>4. <<status>> \in Seq(Octet) /\ Len(<<status>>) = 1
    BY <1>2
  <1>5. a \in ProtocolMessage
    BY ONLY <1>1, <1>2, <1>3, <1>4 DEF ProtocolMessage
  <1>6. IsValidMessageType(a.type)
    BY <1>1 DEF IsValidMessageType, MessageType
  <1>7. AreValidFlags(a.flags)
    BY <1>1 DEF AreValidFlags, FlagAckRequested, FlagIsResponse
  <1>8. Len(a.payload) <= MAX_PAYLOAD_SIZE
    BY <1>1, <1>4 DEF MAX_PAYLOAD_SIZE
  <1>9. EncodeResultOf(a, MAX_PACKET_SIZE) = "Ok"
    BY <1>5, <1>6, <1>7, <1>8, EncodeOk
  <1>10. QED  BY <1>1, <1>5, <1>9 DEF MessageType

\* An acknowledgement names its request, tells the truth about the frame and
\* is itself neither acknowledged nor routed.
THEOREM AcknowledgementAlwaysNamesItsRequest ==
    PathSpec => []AcknowledgementNamesItsRequest
  <1>1. ASSUME PathInv, acknowledgement # <<>>
        PROVE  LET answer == Decode(acknowledgement, DefaultMessage) IN
               /\ DecodeResultOf(acknowledgement) = "Ok"
               /\ answer.type = MessageType.Acknowledgement
               /\ SubSeq(acknowledgement, 6, 9) = SubSeq(packet, 6, 9)
               /\ (answer.payload = <<0>>) <=> (buffer # EmptyBuffer)
               /\ ~AcknowledgementWanted(answer) /\ IsResponse(answer)
    <2> DEFINE status == StatusOf(result)
               a == AcknowledgementOf(received, status)
    <2>1. /\ result # "none" /\ (result = "Ok" => buffer # EmptyBuffer)
          /\ acknowledgement = Encode(a, MAX_PACKET_SIZE)
      BY <1>1 DEF PathInv, AcknowledgementInv
    <2>2. /\ decodeResult = "Ok" /\ result = RouteResultOf(message, config)
          /\ received \in ProtocolMessage
      BY <1>1, <2>1 DEF PathInv, PathType, RouteInv
    <2>3. status \in 0 .. 8 /\ (status = 0 <=> result = "Ok")
      BY <2>2, Returned DEF StatusOf
    <2>4. result = "Ok" <=> buffer # EmptyBuffer
      BY <1>1, <2>1 DEF PathInv, BufferInv
    <2>5. /\ a \in ProtocolMessage /\ a.type = MessageType.Acknowledgement
          /\ a.flags = 2 /\ a.payload = <<status>>
          /\ a.sequence_number = received.sequence_number
          /\ a.message_id = received.message_id
          /\ EncodeResultOf(a, MAX_PACKET_SIZE) = "Ok"
      BY <2>2, <2>3, AcknowledgementIs
    <2> HIDE DEF a, status
    <2>6. /\ DecodeResultOf(acknowledgement) = "Ok"
          /\ Decode(acknowledgement, DefaultMessage) = a
      BY <2>1, <2>5, RoundTrip
    <2>7. /\ packet \in Seq(Octet) /\ DecodeResultOf(packet) = "Ok"
          /\ received = Decode(packet, DefaultMessage)
      BY <1>1, <2>2, PacketIsBytes DEF PathInv, DecodeInv
    <2>8. /\ EncodeResultOf(received, MAX_PACKET_SIZE) = "Ok"
          /\ Encode(received, MAX_PACKET_SIZE) = packet
      BY <2>7, OnlyEncodings
    <2>9. SubSeq(acknowledgement, 6, 9) = SubSeq(packet, 6, 9)
      BY <2>1, <2>2, <2>5, <2>8, NumberBytes
    <2>10. (a.payload = <<0>>) <=> (buffer # EmptyBuffer)
      BY <2>3, <2>4, <2>5
    <2>11. ~AcknowledgementWanted(a) /\ IsResponse(a)
      BY <2>5 DEF AcknowledgementWanted, IsResponse, FlagAckRequested,
                  FlagIsResponse
    <2>12. QED  BY <2>5, <2>6, <2>9, <2>10, <2>11
  <1>2. PathInv => AcknowledgementNamesItsRequest
    BY <1>1 DEF AcknowledgementNamesItsRequest
  <1>3. QED  BY <1>2, PathInvariant, PTL

\* The path routes as a single call does.
LEMMA PathRoutes == PathInv => RoutingInv
  BY RoutedViewIs DEF PathInv, PathType, DecodeInv, RouteInv, RoutingInv

\* What holds of a single call holds on the path of a message: there too a
\* frame fits the bus, goes to the ECU of its namespace, and is never refused
\* for the configuration.
THEOREM PathRoutesSafely ==
    PathSpec => [](FrameFitsTheBus /\ NamespaceSelectsEcu
                     /\ AcceptedConfigurationHolds)
  <1>1. PathInv => FrameFitsTheBus /\ NamespaceSelectsEcu
                     /\ AcceptedConfigurationHolds
    BY PathRoutes, FitsTheBus, SelectsEcu, AcceptedHolds
  <1>2. QED  BY <1>1, PathInvariant, PTL

\* In the car, every documented command is routed and nothing else is: to
\* LMCU100, under the command byte its ID names, and never with both
\* indicators on.
THEOREM CarCommandsAreAlwaysTranslated ==
  ASSUME Validators = PayloadValidators, Accepts = ValidatePayload
  PROVE  PathSpec => []CarCommandsAreTranslated
  <1>1. ASSUME PathInv, config = CommandRouterConfig, result # "none"
        PROVE  /\ result = RouteResultOf(message, CommandRouterConfig)
               /\ frame = BuildFrame(message, CommandRouterConfig)
               /\ ~message.isResponse /\ message.payload \in Seq(Byte)
               /\ CommandRouterConfig \in Config
    <2>1. /\ result = RouteResultOf(message, config) /\ ~IsResponse(received)
          /\ frame = BuildFrame(message, config)
      BY <1>1 DEF PathInv, RouteInv
    <2>2. /\ message = RoutedView(received) /\ received \in ProtocolMessage
          /\ config \in Config
      BY <1>1 DEF PathInv, PathType, DecodeInv
    <2>3. QED  BY <1>1, <2>1, <2>2, RoutedViewIs
  <1>2. ASSUME PathInv, config = CommandRouterConfig, result # "none",
               message.type = "Command"
        PROVE  result = "UnknownCommand"
                 <=> message.message_id \notin RemoteCommandId
    BY <1>1, <1>2, CarConfigIsValid, CarRoutesExist DEF RouteResultOf
  <1>3. ASSUME PathInv, config = CommandRouterConfig, result = "Ok"
        PROVE  /\ frame.identifier = LMCU100_COMMAND_CAN_ID
               /\ frame.identifier # LMCU100_SOFTWARE_VERSION_CAN_ID
               /\ Head(frame.data) = message.message_id % 256
               /\ Head(frame.data) # Lmcu100CommandId.Reserved
               /\ Head(frame.data) = Lmcu100CommandId.SetIndicatorState =>
                    ~(frame.data[3] = 1 /\ frame.data[4] = 1)
    <2> DEFINE cfg == CommandRouterConfig
               id == message.message_id
               route == FindRoute(cfg, id)
    <2>1. /\ RouteResultOf(message, cfg) = "Ok" /\ cfg \in Config
          /\ frame = BuildFrame(message, cfg) /\ message.payload \in Seq(Byte)
      BY <1>1, <1>3
    <2>2. RoutesFor(cfg, id) # {}
      BY <2>1, OkMeans
    <2>3. \/ id = 257 /\ route = LightingRoute(1, 1, 0, "any")
          \/ id = 259 /\ route = LightingRoute(3, 3, 3, "indicator")
          \/ id = 260 /\ route = LightingRoute(4, 4, 4, "exterior")
          \/ id = 261 /\ route = LightingRoute(5, 5, 1, "binary")
          \/ id = 262 /\ route = LightingRoute(6, 6, 1, "binary")
      BY <2>2, CarRouteFound
    <2>4. /\ route.ecu_command_id = id % 256
          /\ route.ecu_command_id \in {1, 3, 4, 5, 6}
          /\ route.ecu_command_id = 3 => route.validate_payload = "indicator"
      BY <2>3, LightingRouteIs
    <2>5. PICK i \in DOMAIN cfg.ecu_registry :
            frame.identifier = cfg.ecu_registry[i].command_can_identifier
      BY <2>1, RoutedFrame
    <2>6. cfg.ecu_registry[i].command_can_identifier = 257
      <3>1. cfg.ecu_registry = ECU_REGISTRY
        BY DEF CommandRouterConfig
      <3>2. DOMAIN ECU_REGISTRY = {1}
        BY DEF ECU_REGISTRY
      <3>3. QED  BY <3>1, <3>2, CarRoutes
    <2>7. frame.data = <<route.ecu_command_id>> \o message.payload
      BY <2>1 DEF BuildFrame
    <2>8. message.payload \in Accepts[route.validate_payload]
      BY <2>1 DEF RouteResultOf
    <2> HIDE DEF cfg, id, route
    <2>9. Head(frame.data) = route.ecu_command_id
      BY <2>1, <2>4, <2>7
    <2>10. route.ecu_command_id = 3 => ~(frame.data[3] = 1 /\ frame.data[4] = 1)
      <3>1. SUFFICES ASSUME route.ecu_command_id = 3
                     PROVE  ~(frame.data[3] = 1 /\ frame.data[4] = 1)
        OBVIOUS
      <3>2. message.payload \in ValidatePayload["indicator"]
        BY <2>4, <2>8, <3>1
      <3>3. /\ message.payload \in Seq(Byte) /\ Len(message.payload) = 3
            /\ ~(message.payload[2] = 1 /\ message.payload[3] = 1)
        BY <3>2, IndicatorPayload
      <3>4. /\ <<route.ecu_command_id>> \in Seq(Byte)
            /\ Len(<<route.ecu_command_id>>) = 1
        BY <3>1 DEF Byte
      <3>5. \A j \in 1 .. Len(message.payload) :
              frame.data[Len(<<route.ecu_command_id>>) + j] = message.payload[j]
        BY ONLY <2>7, <3>3, <3>4, Joined
      <3>6. frame.data[3] = message.payload[2] /\ frame.data[4] = message.payload[3]
        BY <3>3, <3>4, <3>5
      <3>7. QED  BY <3>3, <3>6
    <2>11. QED
      BY <2>4, <2>5, <2>6, <2>9, <2>10
      DEF LMCU100_COMMAND_CAN_ID, LMCU100_SOFTWARE_VERSION_CAN_ID,
          Lmcu100CommandId, id
  <1>4. PathInv => CarCommandsAreTranslated
    BY <1>2, <1>3 DEF CarCommandsAreTranslated
  <1>5. QED  BY <1>4, PathInvariant, PTL
=============================================================================
