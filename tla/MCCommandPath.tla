--------------------------- MODULE MCCommandPath ---------------------------
(***************************************************************************)
(* CommandPath over small tables, valid and invalid; over the tables of    *)
(* the car with every command, length class and boundary value; and with   *)
(* one packet spoiled in every way the CRC is meant to notice.             *)
(***************************************************************************)
EXTENDS CarCommands

UpTo(n, S) == UNION {[1 .. k -> S] : k \in 0 .. n}

Msg(type, flags, id, payload) ==
  [type |-> type, flags |-> flags, sequence_number |-> 65281,
   message_id |-> id, payload |-> payload]

Command(id, payload) ==
  Msg(MessageType.Command, FlagAckRequested, id, payload)

LeftOver == [identifier |-> 5, extended_identifier |-> TRUE,
             data |-> <<9, 9, 9, 9, 9, 9, 9, 9>>]

(***************************************************************************)
(* Small tables: up to two ECUs and two routes, with each field at and     *)
(* around the values is_valid_config tests.                                *)
(***************************************************************************)
Ecu(id, can, extended) ==
  [ecu_id |-> id, command_can_identifier |-> can,
   extended_identifier |-> extended]

SmallEcus == {Ecu(0, 257, FALSE), Ecu(1, 2047, FALSE), Ecu(1, 2048, FALSE),
              Ecu(2, 536870911, TRUE), Ecu(2, 536870912, TRUE)}

SmallRoute(id, ecu, length, validator) ==
  [remote_message_id |-> id, destination_ecu |-> ecu, ecu_command_id |-> 7,
   expected_payload_length |-> length, validate_payload |-> validator]

SmallRoutes ==
  {SmallRoute(0, 0, 1, "binary"), SmallRoute(259, 1, 1, "binary"),
   SmallRoute(259, 2, 1, "binary"), SmallRoute(515, 2, 7, "any"),
   SmallRoute(515, 2, 8, "any"), SmallRoute(515, 2, 1, Nullptr)}

SmallConfigs == [ecu_registry : UpTo(2, SmallEcus),
                 command_routes : UpTo(2, SmallRoutes)]

SmallMessages ==
  {Command(259, <<1>>), Command(259, <<2>>), Command(0, <<1>>),
   Command(515, [i \in 1 .. 7 |-> i]), Command(515, [i \in 1 .. 8 |-> i]),
   Msg(MessageType.Telemetry, 1, 259, <<1>>),
   Msg(MessageType.Command, 3, 259, <<1>>)}

\* What encode refuses, and the longest payload it takes.
EdgeMessages ==
  {Msg(6, 0, 259, <<1>>), Msg(1, 4, 259, <<1>>)} \cup
  {Msg(2, 0, 65535, [i \in 1 .. n |-> 255]) : n \in {64, 65}}

(***************************************************************************)
(* The tables of the car, with every ID of the Lighting namespace around   *)
(* the documented ones, its neighbours, and payloads of every length to 5  *)
(* whose bytes are at or just past the accepted values.                    *)
(***************************************************************************)
CarMessages ==
  {Command(id, p) : id \in (255 .. 264) \cup {5, 517},
                    p \in UpTo(4, {0, 1, 2}) \cup
                          {<<3, 0, 1, 0>>, <<4, 0, 1, 0>>, <<0, 0, 0, 0, 0>>}}

(***************************************************************************)
(* One packet of 13 bytes, the brake command, and what becomes of it:      *)
(* every error of one or two bits; every burst of up to 16 bits before the *)
(* CRC field; every cut; a byte too many; another value in a header field. *)
(***************************************************************************)
Brake == Command(261, <<1>>)
PacketBits == 0 .. 103
CoveredBits == 0 .. 87

Intact == [kind |-> "none"]

Flipped == {[kind |-> "flipped", bits |-> {a, b}] : a, b \in PacketBits}
             \cup {[kind |-> "flipped", bits |-> a .. a + n] :
                     a \in {c \in CoveredBits : c + 15 \in CoveredBits},
                     n \in 2 .. 15}

Cut == {[kind |-> "cut", lost |-> n] : n \in 1 .. 13}
Extended == {[kind |-> "extended", bytes |-> <<b>>] : b \in {0, 255}}
Foreign == {[kind |-> "foreign", at |-> i, value |-> v] :
              i \in 1 .. HEADER_SIZE,
              v \in {0, 1, 2, 3, 4, 6, 64, 65, 128, 255}}

Spoilings == Flipped \cup Cut \cup Extended \cup Foreign

Tried(configs, messages, spoilings) ==
  [configs |-> configs, messages |-> messages, spoilings |-> spoilings]

MCCases ==
  {Tried(SmallConfigs, SmallMessages, {Intact}),
   Tried({CommandRouterConfig}, CarMessages \cup EdgeMessages, {Intact}),
   Tried({CommandRouterConfig}, {Brake}, Spoilings)}

\* The messages as build_frame sees them.
MCMessages == {RoutedView(m) : m \in SmallMessages \cup CarMessages}
=============================================================================
