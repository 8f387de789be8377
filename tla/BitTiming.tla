----------------------------- MODULE BitTiming -----------------------------
(***************************************************************************)
(* MCP2515::setBitrate: the values of CNF1, CNF2 and CNF3 for an           *)
(* oscillator and a bit rate, and what the MCP2515 makes of them.  A       *)
(* setting is a record [clock, speed].                                     *)
(***************************************************************************)
EXTENDS Integers

CNF_8MHZ ==
  [CAN_5KBPS |-> <<\h1F, \hBF, \h87>>, CAN_10KBPS |-> <<\h0F, \hBF, \h87>>,
   CAN_20KBPS |-> <<\h07, \hBF, \h87>>, CAN_31K25BPS |-> <<\h07, \hA4, \h84>>,
   CAN_33KBPS |-> <<\h47, \hE2, \h85>>, CAN_40KBPS |-> <<\h03, \hBF, \h87>>,
   CAN_50KBPS |-> <<\h03, \hB4, \h86>>, CAN_80KBPS |-> <<\h01, \hBF, \h87>>,
   CAN_100KBPS |-> <<\h01, \hB4, \h86>>, CAN_125KBPS |-> <<\h01, \hB1, \h85>>,
   CAN_200KBPS |-> <<\h00, \hB4, \h86>>, CAN_250KBPS |-> <<\h00, \hB1, \h85>>,
   CAN_500KBPS |-> <<\h00, \h90, \h82>>, CAN_1000KBPS |-> <<\h00, \h80, \h80>>]

CNF_16MHZ ==
  [CAN_5KBPS |-> <<\h3F, \hFF, \h87>>, CAN_10KBPS |-> <<\h1F, \hFF, \h87>>,
   CAN_20KBPS |-> <<\h0F, \hFF, \h87>>, CAN_33KBPS |-> <<\h4E, \hF1, \h85>>,
   CAN_40KBPS |-> <<\h07, \hFF, \h87>>, CAN_50KBPS |-> <<\h07, \hFA, \h87>>,
   CAN_80KBPS |-> <<\h03, \hFF, \h87>>, CAN_83K3BPS |-> <<\h03, \hBE, \h07>>,
   CAN_100KBPS |-> <<\h03, \hFA, \h87>>, CAN_125KBPS |-> <<\h03, \hF0, \h86>>,
   CAN_200KBPS |-> <<\h01, \hFA, \h87>>, CAN_250KBPS |-> <<\h41, \hF1, \h85>>,
   CAN_500KBPS |-> <<\h00, \hF0, \h86>>, CAN_1000KBPS |-> <<\h00, \hD0, \h82>>]

CNF_20MHZ ==
  [CAN_33KBPS |-> <<\h0B, \hFF, \h87>>, CAN_40KBPS |-> <<\h09, \hFF, \h87>>,
   CAN_50KBPS |-> <<\h09, \hFA, \h87>>, CAN_80KBPS |-> <<\h04, \hFF, \h87>>,
   CAN_83K3BPS |-> <<\h04, \hFE, \h87>>, CAN_100KBPS |-> <<\h04, \hFA, \h87>>,
   CAN_125KBPS |-> <<\h03, \hFA, \h87>>, CAN_200KBPS |-> <<\h01, \hFF, \h87>>,
   CAN_250KBPS |-> <<\h41, \hFB, \h86>>, CAN_500KBPS |-> <<\h00, \hFA, \h87>>,
   CAN_1000KBPS |-> <<\h00, \hD9, \h82>>]

Cnf == [MCP_8MHZ |-> CNF_8MHZ, MCP_16MHZ |-> CNF_16MHZ,
        MCP_20MHZ |-> CNF_20MHZ]

CAN_CLOCK == DOMAIN Cnf
CAN_SPEED ==
  {"CAN_5KBPS", "CAN_10KBPS", "CAN_20KBPS", "CAN_31K25BPS", "CAN_33KBPS",
   "CAN_40KBPS", "CAN_50KBPS", "CAN_80KBPS", "CAN_83K3BPS", "CAN_95KBPS",
   "CAN_100KBPS", "CAN_125KBPS", "CAN_200KBPS", "CAN_250KBPS",
   "CAN_500KBPS", "CAN_1000KBPS"}

Settings == [clock : CAN_CLOCK, speed : CAN_SPEED]

\* The cases of the two switches; every other setting is refused.
IsSupported(setting) == setting.speed \in DOMAIN Cnf[setting.clock]

\* Fault: the overload of setBitrate that assumes a 16 MHz oscillator.
CnfOf16Mhz(setting) ==
  IF setting.speed \in DOMAIN CNF_16MHZ THEN CNF_16MHZ[setting.speed]
  ELSE <<0, 0, 0>>

CnfOf(setting) == Cnf[setting.clock][setting.speed]

\* CanManager::Config
DefaultSetting == [clock |-> "MCP_8MHZ", speed |-> "CAN_1000KBPS"]
-----------------------------------------------------------------------------
(***************************************************************************)
(* The MCP2515: a bit is a synchronization quantum, the propagation        *)
(* segment and the phase segments; a quantum is 2 * BRP oscillator         *)
(* periods.  BTLMODE, bit 7 of CNF2, says whether phase segment 2 is that  *)
(* of CNF3.  Times are in nanoseconds.                                     *)
(***************************************************************************)
OscillatorQuantum == [MCP_8MHZ |-> 250, MCP_16MHZ |-> 125, MCP_20MHZ |-> 100]

Larger(a, b) == IF a >= b THEN a ELSE b

Segments(cnf) ==
  LET ps1 == ((cnf[2] \div 8) % 8) + 1 IN
  [brp |-> (cnf[1] % 64) + 1, sjw |-> (cnf[1] \div 64) + 1,
   prop |-> (cnf[2] % 8) + 1, ps1 |-> ps1,
   ps2 |-> IF cnf[2] >= 128 THEN (cnf[3] % 8) + 1 ELSE Larger(ps1, 2)]

BitTime(clock, cnf) ==
  LET s == Segments(cnf) IN
  OscillatorQuantum[clock] * s.brp * (1 + s.prop + s.ps1 + s.ps2)

\* What the controller asks of phase segment 2.
IsSampledInTime(cnf) ==
  LET s == Segments(cnf) IN
  s.ps2 >= 2 /\ s.ps2 > s.sjw /\ s.prop + s.ps1 >= s.ps2

NominalBitTime ==
  [CAN_5KBPS |-> 200000, CAN_10KBPS |-> 100000, CAN_20KBPS |-> 50000,
   CAN_31K25BPS |-> 32000, CAN_33KBPS |-> 30000, CAN_40KBPS |-> 25000,
   CAN_50KBPS |-> 20000, CAN_80KBPS |-> 12500, CAN_83K3BPS |-> 12000,
   CAN_100KBPS |-> 10000, CAN_125KBPS |-> 8000, CAN_200KBPS |-> 5000,
   CAN_250KBPS |-> 4000, CAN_500KBPS |-> 2000, CAN_1000KBPS |-> 1000]
=============================================================================
