--------------------------- MODULE RemoteMessage ---------------------------
(***************************************************************************)
(* The vocabulary of the TXU01 -> RXU01 protocol (remote_protocol.h) as    *)
(* the firmware sees it after remote_protocol::decode: a message carries a *)
(* sequence number, the two valid flags and a content.  A content stands   *)
(* for everything else that is compared or routed: message type, message   *)
(* ID, payload length and payload bytes.                                   *)
(***************************************************************************)
EXTENDS Integers, Sequences

CONSTANTS
  Peers,            \* MAC addresses that can be the source of a packet
  SequenceNumbers,  \* values of Message::sequence_number
  Contents          \* type, message_id, payload_length and payload together

Message == [seq : SequenceNumbers, ackRequested : BOOLEAN,
            isResponse : BOOLEAN, content : Contents]

AcknowledgementStatus ==
  {"CanTransmitted", "InvalidMessage", "UnsupportedMessage", "CanBusy",
   "CanTransmitFailed", "CanTimeout", "UnknownCommand",
   "InvalidPayloadLength", "InvalidPayloadValue"}

\* The sender of m waits for an acknowledgement: it asked for one, and m is
\* not itself a response.
AcknowledgementRequested(m) == m.ackRequested /\ ~m.isResponse
=============================================================================
