--------------------------- MODULE CanIdentifier ---------------------------
(***************************************************************************)
(* How an identifier gets into the MCP2515 and out of it: the frame of the *)
(* gateway becomes a can_frame (transmit_can_frame), whose identifier      *)
(* prepareId spreads over four registers; readMessage puts it together     *)
(* again.                                                                  *)
(*                                                                         *)
(* CAN_EFF_FLAG and CAN_RTR_FLAG, bits 31 and 30 of canid_t, are fields of *)
(* their own here, and the identifier is the rest of the word.             *)
(***************************************************************************)
EXTENDS Integers, Sequences

CAN_SFF_MASK == 2047               \* 0x7FF
CAN_EFF_MASK == 8192 * 65536 - 1   \* 0x1FFFFFFF

Registers == [SIDH : 0 .. 255, SIDL : 0 .. 255,
              EID8 : 0 .. 255, EID0 : 0 .. 255]

\* transmit_can_frame: the data bytes are copied.
ToCanFrame(frame) ==
  [eff |-> frame.extended_identifier, id |-> frame.identifier,
   data |-> frame.data]

\* sendMessage keeps the identifier bits of the frame's own format.
MaskedId(canFrame) ==
  canFrame.id % (1 + IF canFrame.eff THEN CAN_EFF_MASK ELSE CAN_SFF_MASK)

\* prepareId.  Bit 3 of SIDL is EXIDE; bits 5 to 7 and 0 and 1 are
\* identifier bits of an extended frame.
ExtendedRegisters(id) ==
  LET upper == id \div 65536 IN
  [SIDH |-> (upper \div 32) % 256,
   SIDL |-> (upper % 4) + ((upper \div 4) % 8) * 32 + 8,
   EID8 |-> (id \div 256) % 256,
   EID0 |-> id % 256]

StandardRegisters(id) ==
  [SIDH |-> ((id % 65536) \div 8) % 256, SIDL |-> (id % 8) * 32,
   EID8 |-> 0, EID0 |-> 0]

\* Fault: bits 18 to 20 are left where they were.
PrepareIdUnshifted(ext, id) ==
  IF ext THEN [ExtendedRegisters(id) EXCEPT
                 !.SIDL = ((id \div 65536) % 32) + 8]
  ELSE StandardRegisters(id)

PrepareId(ext, id) ==
  IF ext THEN ExtendedRegisters(id) ELSE StandardRegisters(id)

\* What sendMessage loads into a transmit buffer.
LoadedBuffer(canFrame) ==
  [id |-> PrepareId(canFrame.eff, MaskedId(canFrame)),
   dlc |-> Len(canFrame.data), data |-> canFrame.data]

\* readMessage.
IsExtended(r) == (r.SIDL \div 8) % 2 = 1

ReadId(r) ==
  LET standard == r.SIDH * 8 + r.SIDL \div 32 IN
  IF IsExtended(r)
  THEN ((standard * 4 + (r.SIDL % 4)) * 256 + r.EID8) * 256 + r.EID0
  ELSE standard

ReadMessage(buffer) ==
  [identifier |-> ReadId(buffer.id),
   extended_identifier |-> IsExtended(buffer.id),
   data |-> SubSeq(buffer.data, 1, buffer.dlc)]
=============================================================================
