---------------------------- MODULE CommandPath ----------------------------
(***************************************************************************)
(* One message on its way through the receiver, as bytes: TXU01 encodes    *)
(* it, the radio may spoil the packet, RXU01 decodes it, routes it, loads  *)
(* the frame into a transmit buffer of the MCP2515 and encodes the         *)
(* acknowledgement.  Application has the same path with its concurrency    *)
(* and with messages as abstract values; here are the values.              *)
(***************************************************************************)
EXTENDS CommandRouting, CanIdentifier, RemoteProtocol

CONSTANT Cases   \* records of configurations, messages and spoilings to combine

\* What the radio may do to a packet.
Spoiling ==
  [kind : {"none"}]
    \cup [kind : {"flipped"}, bits : (SUBSET Nat) \ {{}}]
    \cup [kind : {"cut"}, lost : Nat \ {0}]
    \cup [kind : {"extended"}, bytes : Seq(Octet) \ {<<>>}]
    \cup [kind : {"foreign"}, at : 1 .. HEADER_SIZE, value : Octet]

ASSUME CasesAssumption ==
  \A c \in Cases :
    /\ c.configs \subseteq Config
    /\ c.messages \subseteq ProtocolMessage
    /\ c.spoilings \subseteq Spoiling

VARIABLES
  sent,          \* the message TXU01 encodes
  spoiling,      \* what becomes of its packet
  packet,        \* ReceivedPacket::data
  decodeResult,  \* what decode returned
  received,      \* the message decode filled in
  buffer,        \* the transmit buffer of the MCP2515
  acknowledgement,  \* the bytes given to esp_now_driver::send
  step

pathVars == <<sent, spoiling, packet, decodeResult, received, buffer,
              acknowledgement, step>>

DefaultMessage == [type |-> MessageType.Command, flags |-> 0,
                   sequence_number |-> 0, message_id |-> 0, payload |-> <<>>]

IsResponse(msg) == msg.flags >= FlagIsResponse
AcknowledgementWanted(msg) == msg.flags = FlagAckRequested

\* What build_frame looks at in a message.
RoutedView(msg) ==
  [type |-> IF msg.type = MessageType.Command THEN "Command" ELSE "other",
   isResponse |-> IsResponse(msg), message_id |-> msg.message_id,
   payload |-> msg.payload]

(***************************************************************************)
(* The radio.  Bits are flipped, bytes are missing at the end or added, or *)
(* another sender put a value of its own into the header and computed the  *)
(* CRC of that.                                                            *)
(***************************************************************************)
FlipMask(bits, i) ==   \* what byte i is changed by
  LET flipped(j, weight) == IF 8 * (i - 1) + j \in bits THEN weight ELSE 0
  IN flipped(0, 128) + flipped(1, 64) + flipped(2, 32) + flipped(3, 16)
       + flipped(4, 8) + flipped(5, 4) + flipped(6, 2) + flipped(7, 1)

Flip(bytes, bits) ==   \* bit 0 is the most significant bit of byte 1
  [i \in DOMAIN bytes |-> XorByte(bytes[i], FlipMask(bits, i))]

Spoil(bytes, s) ==
  CASE s.kind = "none"     -> bytes
    [] s.kind = "flipped"  -> Flip(bytes, s.bits)
    [] s.kind = "cut"      -> SubSeq(bytes, 1, Len(bytes) - s.lost)
    [] s.kind = "extended" -> bytes \o s.bytes
    [] s.kind = "foreign"  -> WithCrc(
         [SubSeq(bytes, 1, Len(bytes) - CRC_SIZE) EXCEPT ![s.at] = s.value])

\* A transmit buffer nothing was loaded into.
EmptyBuffer == [id |-> StandardRegisters(0), dlc |-> 0, data |-> <<>>]

PathInit ==
  /\ \E c \in Cases :
       config \in c.configs /\ sent \in c.messages /\ spoiling \in c.spoilings
  /\ message = RoutedView(DefaultMessage) /\ frame = OldFrame
  /\ result = "none" /\ decodeResult = "none"
  /\ received = DefaultMessage
  /\ packet = <<>> /\ buffer = EmptyBuffer /\ acknowledgement = <<>>
  /\ step = "send"

Send ==
  /\ step = "send"
  /\ IF EncodeResultOf(sent, MAX_PACKET_SIZE) = "Ok"
     THEN /\ packet' = Spoil(Encode(sent, MAX_PACKET_SIZE), spoiling)
          /\ step' = "decode"
     ELSE step' = "done" /\ UNCHANGED packet
  /\ UNCHANGED <<sent, spoiling, decodeResult, received, buffer,
                 acknowledgement, routingVars>>

\* process_received_packet decodes; only an intact packet goes on.  The
\* gateway refuses a response before it looks at the tables.
DecodePacket ==
  /\ step = "decode"
  /\ decodeResult' = DecodeResultOf(packet)
  /\ received' = Decode(packet, received)
  /\ message' = RoutedView(received')
  /\ step' = IF decodeResult' # "Ok" \/ IsResponse(received') THEN "done"
             ELSE "route"
  /\ UNCHANGED <<sent, spoiling, packet, buffer, acknowledgement, config,
                 frame, result>>

Route ==
  /\ step = "route"
  /\ RouteFrame
  /\ step' = IF result' = "Ok" THEN "load" ELSE "acknowledge"
  /\ UNCHANGED <<sent, spoiling, packet, decodeResult, received, buffer,
                 acknowledgement>>

LoadFrame ==
  /\ step = "load"
  /\ buffer' = LoadedBuffer(ToCanFrame(frame))
  /\ step' = "acknowledge"
  /\ UNCHANGED <<sent, spoiling, packet, decodeResult, received,
                 acknowledgement, routingVars>>

(***************************************************************************)
(* send_acknowledgement.  The CAN transmission succeeds here, so the       *)
(* status is what routing made of the message.                             *)
(***************************************************************************)
StatusOf(r) ==
  CASE r = "Ok"                   -> 0   \* CanTransmitted
    [] r = "InvalidMessageType"   -> 2   \* UnsupportedMessage
    [] r = "InvalidConfiguration" -> 4   \* CanTransmitFailed
    [] r = "UnknownCommand"       -> 6
    [] r = "InvalidPayloadLength" -> 7
    [] r = "InvalidPayloadValue"  -> 8

\* Fault: the flags of the request are sent back.
AnswerInKind(request, status) ==
  [type |-> MessageType.Acknowledgement, flags |-> request.flags,
   sequence_number |-> request.sequence_number,
   message_id |-> request.message_id, payload |-> <<status>>]

AcknowledgementOf(request, status) ==
  [type |-> MessageType.Acknowledgement, flags |-> FlagIsResponse,
   sequence_number |-> request.sequence_number,
   message_id |-> request.message_id, payload |-> <<status>>]

Acknowledge ==
  /\ step = "acknowledge"
  /\ acknowledgement' =
       IF AcknowledgementWanted(received)
       THEN Encode(AcknowledgementOf(received, StatusOf(result)),
                   MAX_PACKET_SIZE)
       ELSE <<>>
  /\ step' = "done"
  /\ UNCHANGED <<sent, spoiling, packet, decodeResult, received, buffer,
                 routingVars>>

PathNext == Send \/ DecodePacket \/ Route \/ LoadFrame \/ Acknowledge

PathSpec == PathInit /\ [][PathNext]_<<pathVars, routingVars>>
-----------------------------------------------------------------------------
(***************************************************************************)
(* Properties                                                              *)
(***************************************************************************)

\* What encode produces, decode gives back, field by field; a packet the
\* radio cut, extended or spoiled by an error the CRC is there for never
\* passes for the message that was sent or for another.
MessageSurvivesOrIsRefused ==
  /\ decodeResult = "Ok" /\ spoiling.kind # "foreign" =>
       received = sent /\ spoiling.kind = "none"
  /\ spoiling.kind = "none" => decodeResult \in {"none", "Ok"}

\* Decode accepts nothing encode would not write, whatever a sender of
\* another version put into the header under a valid CRC: what it lets
\* through encodes to the same bytes.
OnlyEncodingsAreAccepted ==
  decodeResult = "Ok" => Encode(received, MAX_PACKET_SIZE) = packet

\* The identifier and the data that the receiving ECU puts together from the
\* registers are those of the routed frame.
FrameSurvivesRegisters == buffer # EmptyBuffer => ReadMessage(buffer) = frame

\* An acknowledgement decodes at TXU01, repeats the bytes of the sequence
\* number and the ID it was asked for, and says "transmitted" exactly when a
\* frame was loaded; and should it come back to a receiver, it is neither
\* acknowledged nor routed: no two units can acknowledge each other for ever.
AcknowledgementNamesItsRequest ==
  acknowledgement # <<>> =>
    LET answer == Decode(acknowledgement, DefaultMessage) IN
    /\ DecodeResultOf(acknowledgement) = "Ok"
    /\ answer.type = MessageType.Acknowledgement
    /\ SubSeq(acknowledgement, 6, 9) = SubSeq(packet, 6, 9)
    /\ (answer.payload = <<0>>) <=> (buffer # EmptyBuffer)
    /\ ~AcknowledgementWanted(answer) /\ IsResponse(answer)
=============================================================================
