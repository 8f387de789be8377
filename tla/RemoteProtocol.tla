--------------------------- MODULE RemoteProtocol ---------------------------
(***************************************************************************)
(* remote_protocol: the packet format, encode and decode.  A message is a  *)
(* record [type, flags, sequence_number, message_id, payload] of numbers   *)
(* and a sequence of bytes; payload_length is Len(payload).  A packet is a *)
(* sequence of bytes.  Null pointers are left out.                         *)
(***************************************************************************)
EXTENDS Integers, Sequences, SequencesExt

Octet == 0 .. 255
Word == 0 .. 65535

MAGIC == <<82, 67>>         \* 'R', 'C'
PROTOCOL_VERSION == 1
MAX_PAYLOAD_SIZE == 64
HEADER_SIZE == 10
CRC_SIZE == 2
MIN_PACKET_SIZE == HEADER_SIZE + CRC_SIZE
MAX_PACKET_SIZE == HEADER_SIZE + MAX_PAYLOAD_SIZE + CRC_SIZE

ProtocolMessage ==
  [type : Octet, flags : Octet, sequence_number : Word, message_id : Word,
   payload : Seq(Octet)]

MessageType == [Command |-> 1, Telemetry |-> 2, Acknowledgement |-> 3,
                Configuration |-> 4, Heartbeat |-> 5]
FlagAckRequested == 1
FlagIsResponse == 2

IsValidMessageType(type) == \E t \in DOMAIN MessageType : MessageType[t] = type

AreValidFlags(flags) == flags \in 0 .. FlagAckRequested + FlagIsResponse

EncodedSize(payloadLength) ==
  IF payloadLength > MAX_PAYLOAD_SIZE THEN 0
  ELSE HEADER_SIZE + payloadLength + CRC_SIZE

Uint16LittleEndian(value) == <<value % 256, value \div 256>>
ReadUint16LittleEndian(packet, offset) ==
  packet[offset + 1] + 256 * packet[offset + 2]

(***************************************************************************)
(* Exclusive or, bit by bit.                                               *)
(***************************************************************************)
XorBit(a, b) == IF a % 2 = b % 2 THEN 0 ELSE 1

XorNibble ==
  [a \in 0 .. 15 |-> [b \in 0 .. 15 |->
     XorBit(a \div 8, b \div 8) * 8 + XorBit(a \div 4, b \div 4) * 4
       + XorBit(a \div 2, b \div 2) * 2 + XorBit(a, b)]]

XorByte(a, b) ==
  XorNibble[a \div 16][b \div 16] * 16 + XorNibble[a % 16][b % 16]

(***************************************************************************)
(* CRC16-CCITT, most significant bit first, from 0xFFFF, by 0x1021.        *)
(***************************************************************************)
XorPolynomial(crc) ==
  XorByte(crc \div 256, 16) * 256 + XorByte(crc % 256, 33)

CrcShift(crc) ==
  IF crc >= 32768 THEN XorPolynomial((2 * crc) % 65536) ELSE 2 * crc

\* The loop over the bits of a byte.
CrcShifts(crc) ==
  LET crc1 == CrcShift(crc)
      crc2 == CrcShift(crc1)
      crc3 == CrcShift(crc2)
      crc4 == CrcShift(crc3)
      crc5 == CrcShift(crc4)
      crc6 == CrcShift(crc5)
      crc7 == CrcShift(crc6)
  IN CrcShift(crc7)

\* The byte goes into the high byte of the CRC.
CrcInput(crc, byte) == XorByte(crc \div 256, byte) * 256 + (crc % 256)

CrcByte(byte) == [crc \in Word |-> CrcShifts(CrcInput(crc, byte))]

\* Fault: a checksum that is blind to most double errors.
ByteSum(bytes) == FoldLeft(LAMBDA a, b : (a + b) % 65536, 0, bytes)

\* The loop over the bytes: the CRC of each prefix, that of none first.
CrcUpTo(bytes) ==
  LET upTo[n \in 0 .. Len(bytes)] ==
        IF n = 0 THEN 65535 ELSE CrcByte(bytes[n])[upTo[n - 1]]
  IN upTo

CalculateCrc16(bytes) == CrcUpTo(bytes)[Len(bytes)]

(***************************************************************************)
(* encode                                                                  *)
(***************************************************************************)
EncodeResultOf(message, capacity) ==
  IF ~IsValidMessageType(message.type) THEN "InvalidMessageType"
  ELSE IF ~AreValidFlags(message.flags) THEN "InvalidFlags"
  ELSE IF Len(message.payload) > MAX_PAYLOAD_SIZE THEN "PayloadTooLarge"
  ELSE IF capacity < EncodedSize(Len(message.payload)) THEN "OutputTooSmall"
  ELSE "Ok"

WithCrc(bytes) == bytes \o Uint16LittleEndian(CalculateCrc16(bytes))

\* What the CRC covers: header and payload.
HeaderAndPayload(message) ==
  MAGIC \o <<PROTOCOL_VERSION, message.type, message.flags>>
    \o Uint16LittleEndian(message.sequence_number)
    \o Uint16LittleEndian(message.message_id)
    \o <<Len(message.payload)>> \o message.payload

\* The bytes written: none when encode refuses.
Encode(message, capacity) ==
  IF EncodeResultOf(message, capacity) # "Ok" THEN <<>>
  ELSE WithCrc(HeaderAndPayload(message))

(***************************************************************************)
(* decode                                                                  *)
(***************************************************************************)
\* Fault: bytes after the CRC are not noticed.
HoldsDeclaredLength(packet) == Len(packet) >= EncodedSize(packet[10])
HasDeclaredLength(packet) == Len(packet) = EncodedSize(packet[10])

DecodeResultOf(packet) ==
  IF Len(packet) < MIN_PACKET_SIZE THEN "PacketTooShort"
  ELSE IF SubSeq(packet, 1, 2) # MAGIC THEN "InvalidMagic"
  ELSE IF packet[3] # PROTOCOL_VERSION THEN "UnsupportedVersion"
  ELSE IF ~IsValidMessageType(packet[4]) THEN "InvalidMessageType"
  ELSE IF ~AreValidFlags(packet[5]) THEN "InvalidFlags"
  ELSE IF packet[10] > MAX_PAYLOAD_SIZE THEN "PayloadTooLarge"
  ELSE IF ~HasDeclaredLength(packet) THEN "InvalidPacketLength"
  ELSE IF ReadUint16LittleEndian(packet, HEADER_SIZE + packet[10])
            # CalculateCrc16(SubSeq(packet, 1, HEADER_SIZE + packet[10]))
    THEN "CrcMismatch"
  ELSE "Ok"

\* The message decode fills in; the caller's is left alone on an error.
Decode(packet, message) ==
  IF DecodeResultOf(packet) # "Ok" THEN message
  ELSE [type |-> packet[4], flags |-> packet[5],
        sequence_number |-> ReadUint16LittleEndian(packet, 5),
        message_id |-> ReadUint16LittleEndian(packet, 7),
        payload |-> SubSeq(packet, HEADER_SIZE + 1, HEADER_SIZE + packet[10])]
=============================================================================
