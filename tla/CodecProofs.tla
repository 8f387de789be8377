----------------------------- MODULE CodecProofs -----------------------------
(***************************************************************************)
(* encode and decode of remote_protocol are inverse to each other, for     *)
(* every message and every packet; its CRC misses no burst of up to 16     *)
(* bits, in packets of every length, and keeps the parity of what it       *)
(* covers; and the identifier registers of the MCP2515 give back every     *)
(* frame that was put into them.                                           *)
(*                                                                         *)
(* Bits are told apart by arithmetic: the bits of w below 2^k are          *)
(* w % 2^k, those above are w \div 2^k, and a cut is such a power of two.  *)
(***************************************************************************)
EXTENDS RemoteProtocol, CanIdentifier, FiniteSetTheorems, TLAPS
-----------------------------------------------------------------------------
(***************************************************************************)
(* Induction up to a bound.                                                *)
(***************************************************************************)
\* Four bits, and the powers of two that cut them in two.
Nibble == 0 .. 15

\* Every set of naturals that is not empty has a least member.
LEMMA Least ==
  ASSUME NEW S \in SUBSET Nat, S # {}
  PROVE  \E m \in S : \A n \in S : m <= n
  <1>1. IsWellFoundedOn(OpToRel(<, Nat), Nat)
    BY ONLY NatLessThanWellFounded, Zenon
  <1>2. PICK m \in S : \A n \in S : ~(<<n, m>> \in OpToRel(<, Nat))
    BY <1>1, WFMin, Zenon
  <1>3. \A n \in S : ~(n < m)
    BY <1>2, Zenon DEF OpToRel
  <1>4. QED  BY <1>3

\* Induction up to a bound, on a set: it holds what its members lead to.
LEMMA UpToInduction ==
  ASSUME NEW N \in Nat, NEW S, 0 \in S,
         \A n \in S : n \in Nat /\ n < N => n + 1 \in S
  PROVE  0 .. N \subseteq S
  <1> DEFINE T == {n \in 0 .. N : n \notin S}
  <1>1. SUFFICES ASSUME T # {} PROVE FALSE
    OBVIOUS
  <1>2. PICK m \in T : \A n \in T : m <= n
    <2>1. T \in SUBSET Nat
      OBVIOUS
    <2>2. QED  BY <1>1, <2>1, Least
  <1>3. m # 0 /\ m - 1 \in 0 .. N /\ m - 1 \notin T
    BY <1>2
  <1>4. m \in S
    BY <1>2, <1>3
  <1>5. QED  BY <1>4
-----------------------------------------------------------------------------
(***************************************************************************)
(* Exclusive or of nibbles.                                                *)
(***************************************************************************)
\* The exclusive or of two nibbles, bit by bit.
LEMMA XorNibbleBits ==
  ASSUME NEW a \in Nibble, NEW b \in Nibble
  PROVE  /\ XorNibble[a][b] \in Nibble
         /\ (XorNibble[a][b] \div 8) % 2 = XorBit(a \div 8, b \div 8)
         /\ (XorNibble[a][b] \div 4) % 2 = XorBit(a \div 4, b \div 4)
         /\ (XorNibble[a][b] \div 2) % 2 = XorBit(a \div 2, b \div 2)
         /\ XorNibble[a][b] % 2 = XorBit(a, b)
  <1> USE DEF Nibble
  <1> DEFINE p == XorBit(a \div 8, b \div 8)
             q == XorBit(a \div 4, b \div 4)
             r == XorBit(a \div 2, b \div 2)
             s == XorBit(a, b)
  <1>1. p \in {0, 1} /\ q \in {0, 1} /\ r \in {0, 1} /\ s \in {0, 1}
    BY DEF XorBit
  <1>2. XorNibble[a][b] = p * 8 + q * 4 + r * 2 + s
    BY DEF XorNibble
  <1> HIDE DEF p, q, r, s
  <1>3. /\ XorNibble[a][b] \in Nibble
        /\ (XorNibble[a][b] \div 8) % 2 = p
        /\ (XorNibble[a][b] \div 4) % 2 = q
        /\ (XorNibble[a][b] \div 2) % 2 = r
        /\ XorNibble[a][b] % 2 = s
    BY <1>1, <1>2
  <1>4. QED  BY <1>3 DEF p, q, r, s

\* The powers of two that cut a nibble in two.
NibblePowers == {1, 2, 4, 8, 16}

\* A bit that both sides share cancels.
LEMMA XorBitCancels ==
  ASSUME NEW a \in Int, NEW b \in Int, NEW c \in Int, NEW d \in Int,
         XorBit(a, b) = XorBit(c, d), b % 2 = d % 2
  PROVE  a % 2 = c % 2
  BY DEF XorBit

\* Two nibbles agree below a power of two when they agree bit by bit.
LEMMA NibbleModulo ==
  ASSUME NEW a \in Nibble, NEW b \in Nibble
  PROVE  /\ a % 16 = b % 16 <=> a % 8 = b % 8 /\ (a \div 8) % 2 = (b \div 8) % 2
         /\ a % 8 = b % 8 <=> a % 4 = b % 4 /\ (a \div 4) % 2 = (b \div 4) % 2
         /\ a % 4 = b % 4 <=> a % 2 = b % 2 /\ (a \div 2) % 2 = (b \div 2) % 2
  BY DEF Nibble

\* What both sides share below a power of two cancels.
LEMMA NibbleCancels ==
  ASSUME NEW a \in Nibble, NEW b \in Nibble,
         NEW c \in Nibble, NEW d \in Nibble, NEW m \in NibblePowers,
         XorNibble[a][b] % m = XorNibble[c][d] % m, b % m = d % m
  PROVE  a % m = c % m
  <1> USE DEF Nibble
  <1> DEFINE x == XorNibble[a][b]
             y == XorNibble[c][d]
  <1>1. x \in Nibble /\ y \in Nibble
    BY XorNibbleBits
  <1>2. x % 2 = y % 2 /\ b % 2 = d % 2 => a % 2 = c % 2
    <2>1. x % 2 = XorBit(a, b) /\ y % 2 = XorBit(c, d)
      BY XorNibbleBits, Zenon
    <2>2. QED  BY <2>1 DEF XorBit
  <1>3. (x \div 2) % 2 = (y \div 2) % 2 /\ (b \div 2) % 2 = (d \div 2) % 2
          => (a \div 2) % 2 = (c \div 2) % 2
    <2>1. /\ (x \div 2) % 2 = XorBit(a \div 2, b \div 2)
          /\ (y \div 2) % 2 = XorBit(c \div 2, d \div 2)
      BY XorNibbleBits, Zenon
    <2>2. QED  BY <2>1 DEF XorBit
  <1>4. (x \div 4) % 2 = (y \div 4) % 2 /\ (b \div 4) % 2 = (d \div 4) % 2
          => (a \div 4) % 2 = (c \div 4) % 2
    <2>1. /\ (x \div 4) % 2 = XorBit(a \div 4, b \div 4)
          /\ (y \div 4) % 2 = XorBit(c \div 4, d \div 4)
      BY XorNibbleBits, Zenon
    <2>2. QED  BY <2>1 DEF XorBit
  <1>5. (x \div 8) % 2 = (y \div 8) % 2 /\ (b \div 8) % 2 = (d \div 8) % 2
          => (a \div 8) % 2 = (c \div 8) % 2
    <2>1. /\ (x \div 8) % 2 = XorBit(a \div 8, b \div 8)
          /\ (y \div 8) % 2 = XorBit(c \div 8, d \div 8)
      BY XorNibbleBits, Zenon
    <2>2. QED  BY <2>1 DEF XorBit
  <1>6. \A u, v \in Nibble :
          /\ u % 16 = v % 16 <=> u % 8 = v % 8 /\ (u \div 8) % 2 = (v \div 8) % 2
          /\ u % 8 = v % 8 <=> u % 4 = v % 4 /\ (u \div 4) % 2 = (v \div 4) % 2
          /\ u % 4 = v % 4 <=> u % 2 = v % 2 /\ (u \div 2) % 2 = (v \div 2) % 2
    BY NibbleModulo
  <1> HIDE DEF x, y
  <1>7. m = 1 => a % m = c % m
    OBVIOUS
  <1>8. x % 4 = y % 4 /\ b % 4 = d % 4 => a % 4 = c % 4
    BY <1>1, <1>2, <1>3, <1>6
  <1>9. x % 8 = y % 8 /\ b % 8 = d % 8 => a % 8 = c % 8
    BY <1>1, <1>4, <1>6, <1>8
  <1>10. x % 16 = y % 16 /\ b % 16 = d % 16 => a % 16 = c % 16
    BY <1>1, <1>5, <1>6, <1>9
  <1>11. QED  BY <1>7, <1>2, <1>8, <1>9, <1>10 DEF NibblePowers, x, y

\* Low bits of the operands decide low bits of the result, high bits high ones.
LEMMA NibbleKeeps ==
  ASSUME NEW a \in Nibble, NEW b \in Nibble, NEW c \in Nibble,
         NEW m \in NibblePowers
  PROVE  /\ b % m = c % m => XorNibble[a][b] % m = XorNibble[a][c] % m
         /\ b \div m = c \div m
              => XorNibble[a][b] \div m = XorNibble[a][c] \div m
  <1> USE DEF Nibble
  <1> DEFINE x == XorNibble[a][b]
             y == XorNibble[a][c]
  <1>1. x \in Nibble /\ y \in Nibble
    BY XorNibbleBits
  <1>2. b % 2 = c % 2 => x % 2 = y % 2
    <2>1. x % 2 = XorBit(a, b) /\ y % 2 = XorBit(a, c)
      BY XorNibbleBits, Zenon
    <2>2. QED  BY <2>1 DEF XorBit
  <1>3. (b \div 2) % 2 = (c \div 2) % 2 => (x \div 2) % 2 = (y \div 2) % 2
    <2>1. /\ (x \div 2) % 2 = XorBit(a \div 2, b \div 2)
          /\ (y \div 2) % 2 = XorBit(a \div 2, c \div 2)
      BY XorNibbleBits, Zenon
    <2>2. QED  BY <2>1 DEF XorBit
  <1>4. (b \div 4) % 2 = (c \div 4) % 2 => (x \div 4) % 2 = (y \div 4) % 2
    <2>1. /\ (x \div 4) % 2 = XorBit(a \div 4, b \div 4)
          /\ (y \div 4) % 2 = XorBit(a \div 4, c \div 4)
      BY XorNibbleBits, Zenon
    <2>2. QED  BY <2>1 DEF XorBit
  <1>5. (b \div 8) % 2 = (c \div 8) % 2 => (x \div 8) % 2 = (y \div 8) % 2
    <2>1. /\ (x \div 8) % 2 = XorBit(a \div 8, b \div 8)
          /\ (y \div 8) % 2 = XorBit(a \div 8, c \div 8)
      BY XorNibbleBits, Zenon
    <2>2. QED  BY <2>1 DEF XorBit
  <1>6. \A u, v \in Nibble :
          /\ u % 16 = v % 16 <=> u % 8 = v % 8 /\ (u \div 8) % 2 = (v \div 8) % 2
          /\ u % 8 = v % 8 <=> u % 4 = v % 4 /\ (u \div 4) % 2 = (v \div 4) % 2
          /\ u % 4 = v % 4 <=> u % 2 = v % 2 /\ (u \div 2) % 2 = (v \div 2) % 2
    BY NibbleModulo
  <1>7. \A u, v \in Nibble :
          /\ u \div 8 = v \div 8 <=> (u \div 8) % 2 = (v \div 8) % 2
          /\ u \div 4 = v \div 4 <=>
               u \div 8 = v \div 8 /\ (u \div 4) % 2 = (v \div 4) % 2
          /\ u \div 2 = v \div 2 <=>
               u \div 4 = v \div 4 /\ (u \div 2) % 2 = (v \div 2) % 2
    OBVIOUS
  <1> HIDE DEF x, y
  <1>8. b % m = c % m => x % m = y % m
    <2>1. b % 4 = c % 4 => x % 4 = y % 4
      BY <1>1, <1>2, <1>3, <1>6
    <2>2. b % 8 = c % 8 => x % 8 = y % 8
      BY <1>1, <1>4, <1>6, <2>1
    <2>3. b % 16 = c % 16 => x % 16 = y % 16
      BY <1>1, <1>5, <1>6, <2>2
    <2>4. x % 1 = y % 1
      BY <1>1
    <2>5. QED  BY <1>2, <2>1, <2>2, <2>3, <2>4 DEF NibblePowers
  <1>9. b \div m = c \div m => x \div m = y \div m
    <2>1. b \div 8 = c \div 8 => x \div 8 = y \div 8
      BY <1>1, <1>5, <1>7
    <2>2. b \div 4 = c \div 4 => x \div 4 = y \div 4
      BY <1>1, <1>4, <1>7, <2>1
    <2>3. b \div 2 = c \div 2 => x \div 2 = y \div 2
      BY <1>1, <1>3, <1>7, <2>2
    <2>4. b \div 1 = c \div 1 => x \div 1 = y \div 1
      BY DEF x, y
    <2>5. x \div 16 = y \div 16
      BY <1>1
    <2>6. QED  BY <2>1, <2>2, <2>3, <2>4, <2>5 DEF NibblePowers
  <1>10. QED  BY <1>8, <1>9 DEF x, y

\* 0 is neutral, and the order does not matter.
LEMMA NibbleNeutral ==
  ASSUME NEW a \in Nibble, NEW b \in Nibble
  PROVE  /\ XorNibble[a][0] = a
         /\ XorNibble[a][b] = XorNibble[b][a]
  <1> USE DEF Nibble
  <1>1. XorNibble[a][b] = XorNibble[b][a]
    BY DEF XorNibble, XorBit
  <1>2. XorBit(a, 0) = a % 2
    BY DEF XorBit
  <1>3. XorBit(a \div 2, 0 \div 2) = (a \div 2) % 2
    BY DEF XorBit
  <1>4. XorBit(a \div 4, 0 \div 4) = (a \div 4) % 2
    BY DEF XorBit
  <1>5. XorBit(a \div 8, 0 \div 8) = (a \div 8) % 2
    BY DEF XorBit
  <1>6. XorNibble[a][0] = ((a \div 8) % 2) * 8 + ((a \div 4) % 2) * 4
                           + ((a \div 2) % 2) * 2 + (a % 2)
    BY <1>2, <1>3, <1>4, <1>5 DEF XorNibble
  <1>7. QED  BY <1>1, <1>6
-----------------------------------------------------------------------------
(***************************************************************************)
(* Exclusive or of bytes.                                                  *)
(***************************************************************************)
\* The powers of two that cut a byte in two.
BytePowers == {1, 2, 4, 8, 16, 32, 64, 128, 256}

\* The exclusive or of two bytes, nibble by nibble.
LEMMA XorByteNibbles ==
  ASSUME NEW a \in Octet, NEW b \in Octet
  PROVE  /\ XorByte(a, b) \in Octet
         /\ XorByte(a, b) \div 16 = XorNibble[a \div 16][b \div 16]
         /\ XorByte(a, b) % 16 = XorNibble[a % 16][b % 16]
  <1> USE DEF Nibble
  <1>1. /\ a \div 16 \in Nibble /\ b \div 16 \in Nibble
        /\ a % 16 \in Nibble /\ b % 16 \in Nibble
    BY DEF Octet
  <1>2. /\ XorNibble[a \div 16][b \div 16] \in Nibble
        /\ XorNibble[a % 16][b % 16] \in Nibble
    BY <1>1, XorNibbleBits
  <1>3. \A u, v \in Nibble : /\ u * 16 + v \in 0 .. 255
                              /\ (u * 16 + v) \div 16 = u
                              /\ (u * 16 + v) % 16 = v
    OBVIOUS
  <1>4. QED  BY <1>2, <1>3 DEF XorByte, Octet

\* A byte is two nibbles.
LEMMA HalfOctet ==
  \A a \in Octet : a \div 16 \in Nibble /\ a % 16 \in Nibble
  BY DEF Octet, Nibble

\* A cut in the lower nibble.
LEMMA LowPowers ==
  ASSUME NEW u \in Octet, NEW m \in NibblePowers
  PROVE  /\ u % m = (u % 16) % m
         /\ u \div m = (u \div 16) * (16 \div m) + (u % 16) \div m
  <1>1. m = 1 \/ m = 2 \/ m = 4 \/ m = 8 \/ m = 16
    BY DEF NibblePowers
  <1>2. QED  BY <1>1 DEF Octet

\* A cut in the upper nibble.
LEMMA HighPowers ==
  ASSUME NEW u \in Octet, NEW k \in NibblePowers
  PROVE  /\ u % (16 * k) = ((u \div 16) % k) * 16 + (u % 16)
         /\ u \div (16 * k) = (u \div 16) \div k
  <1>1. k = 1 \/ k = 2 \/ k = 4 \/ k = 8 \/ k = 16
    BY DEF NibblePowers
  <1>2. QED  BY <1>1 DEF Octet

\* Each cut is in one of them.
LEMMA PowerIs ==
  ASSUME NEW m \in BytePowers
  PROVE  m \in NibblePowers \/ \E k \in NibblePowers : m = 16 * k
  <1>1. m \in NibblePowers \/ m \in {16 * 2, 16 * 4, 16 * 8, 16 * 16}
    BY DEF BytePowers, NibblePowers
  <1>2. QED  BY <1>1 DEF NibblePowers

\* Two bytes agree below a cut in the upper nibble: nibble by nibble.
LEMMA SameRemainder ==
  ASSUME NEW u \in Octet, NEW v \in Octet, NEW k \in NibblePowers
  PROVE  u % (16 * k) = v % (16 * k) <=>
           u % 16 = v % 16 /\ (u \div 16) % k = (v \div 16) % k
  <1> USE DEF Nibble
  <1> DEFINE p == (u \div 16) % k
             q == (v \div 16) % k
             r == u % 16
             s == v % 16
  <1>1. p \in Int /\ q \in Int /\ r \in Nibble /\ s \in Nibble
    BY DEF Octet, NibblePowers
  <1>2. u % (16 * k) = p * 16 + r /\ v % (16 * k) = q * 16 + s
    BY HighPowers
  <1> HIDE DEF p, q, r, s
  <1>3. p * 16 + r = q * 16 + s <=> r = s /\ p = q
    BY <1>1
  <1>4. QED  BY <1>2, <1>3 DEF p, q, r, s

\* Two bytes agree above a cut in the lower nibble: nibble by nibble.
LEMMA SameQuotient ==
  ASSUME NEW u \in Octet, NEW v \in Octet, NEW m \in NibblePowers
  PROVE  u \div m = v \div m <=>
           u \div 16 = v \div 16 /\ (u % 16) \div m = (v % 16) \div m
  <1> USE DEF Nibble
  <1> DEFINE p == u \div 16
             q == v \div 16
             r == u % 16
             s == v % 16
  <1>1. p \in Int /\ q \in Int /\ r \in Nibble /\ s \in Nibble
    BY DEF Octet
  <1>2. /\ u \div m = p * (16 \div m) + r \div m
        /\ v \div m = q * (16 \div m) + s \div m
    BY LowPowers
  <1> HIDE DEF p, q, r, s
  <1>3. m = 1 \/ m = 2 \/ m = 4 \/ m = 8 \/ m = 16
    BY DEF NibblePowers
  <1>4. p * (16 \div m) + r \div m = q * (16 \div m) + s \div m <=>
          p = q /\ r \div m = s \div m
    BY <1>1, <1>3
  <1>5. QED  BY <1>2, <1>4 DEF p, q, r, s

\* NibbleCancels for bytes.
LEMMA ByteCancels ==
  ASSUME NEW a \in Octet, NEW b \in Octet, NEW c \in Octet, NEW d \in Octet,
         NEW m \in BytePowers,
         XorByte(a, b) % m = XorByte(c, d) % m, b % m = d % m
  PROVE  a % m = c % m
  <1> DEFINE x == XorByte(a, b)
             y == XorByte(c, d)
  <1>1. /\ x \in Octet /\ y \in Octet
        /\ x \div 16 = XorNibble[a \div 16][b \div 16]
        /\ y \div 16 = XorNibble[c \div 16][d \div 16]
        /\ x % 16 = XorNibble[a % 16][b % 16]
        /\ y % 16 = XorNibble[c % 16][d % 16]
    BY XorByteNibbles
  <1>2. /\ a \div 16 \in Nibble /\ b \div 16 \in Nibble
        /\ c \div 16 \in Nibble /\ d \div 16 \in Nibble
        /\ a % 16 \in Nibble /\ b % 16 \in Nibble
        /\ c % 16 \in Nibble /\ d % 16 \in Nibble
    BY HalfOctet
  <1>3. ASSUME NEW k \in NibblePowers,
               (x % 16) % k = (y % 16) % k, (b % 16) % k = (d % 16) % k
        PROVE  (a % 16) % k = (c % 16) % k
    <2>1. XorNibble[a % 16][b % 16] % k = XorNibble[c % 16][d % 16] % k
      BY <1>1, <1>3
    <2>2. QED  BY <1>2, <1>3, <2>1, NibbleCancels
  <1>4. ASSUME NEW k \in NibblePowers,
               (x \div 16) % k = (y \div 16) % k,
               (b \div 16) % k = (d \div 16) % k
        PROVE  (a \div 16) % k = (c \div 16) % k
    <2>1. XorNibble[a \div 16][b \div 16] % k
            = XorNibble[c \div 16][d \div 16] % k
      BY <1>1, <1>4
    <2>2. QED  BY <1>2, <1>4, <2>1, NibbleCancels
  <1>5. x % m = y % m
    OBVIOUS
  <1> HIDE DEF x, y
  <1>6. CASE m \in NibblePowers
    BY <1>1, <1>3, <1>5, <1>6, LowPowers
  <1>7. ASSUME NEW k \in NibblePowers, m = 16 * k PROVE a % m = c % m
    <2>1. /\ x % 16 = y % 16 /\ (x \div 16) % k = (y \div 16) % k
          /\ b % 16 = d % 16 /\ (b \div 16) % k = (d \div 16) % k
      BY <1>1, <1>5, <1>7, SameRemainder
    <2>2. 16 \in NibblePowers /\ \A u \in Nibble : u % 16 = u
      BY DEF NibblePowers, Nibble
    <2>3. a % 16 = c % 16
      BY <1>2, <1>3, <2>1, <2>2
    <2>4. (a \div 16) % k = (c \div 16) % k
      BY <1>4, <2>1
    <2>5. QED  BY <1>7, <2>3, <2>4, SameRemainder
  <1>8. QED  BY <1>6, <1>7, PowerIs

\* Equal below a power of two, equal below it after the same exclusive or.
LEMMA ByteKeepsLow ==
  ASSUME NEW a \in Octet, NEW b \in Octet, NEW c \in Octet,
         NEW m \in BytePowers, b % m = c % m
  PROVE  XorByte(a, b) % m = XorByte(a, c) % m
  <1> DEFINE x == XorByte(a, b)
             y == XorByte(a, c)
  <1>1. /\ x \in Octet /\ y \in Octet
        /\ x \div 16 = XorNibble[a \div 16][b \div 16]
        /\ y \div 16 = XorNibble[a \div 16][c \div 16]
        /\ x % 16 = XorNibble[a % 16][b % 16]
        /\ y % 16 = XorNibble[a % 16][c % 16]
    BY XorByteNibbles
  <1>2. /\ a \div 16 \in Nibble /\ b \div 16 \in Nibble
        /\ c \div 16 \in Nibble
        /\ a % 16 \in Nibble /\ b % 16 \in Nibble /\ c % 16 \in Nibble
    BY HalfOctet
  <1>3. ASSUME NEW k \in NibblePowers, (b % 16) % k = (c % 16) % k
        PROVE  (x % 16) % k = (y % 16) % k
    <2>1. XorNibble[a % 16][b % 16] % k
            = XorNibble[a % 16][c % 16] % k
      BY <1>2, <1>3, NibbleKeeps
    <2>2. QED  BY <1>1, <2>1
  <1>4. ASSUME NEW k \in NibblePowers, (b \div 16) % k = (c \div 16) % k
        PROVE  (x \div 16) % k = (y \div 16) % k
    <2>1. XorNibble[a \div 16][b \div 16] % k
            = XorNibble[a \div 16][c \div 16] % k
      BY <1>2, <1>4, NibbleKeeps
    <2>2. QED  BY <1>1, <2>1
  <1> HIDE DEF x, y
  <1>5. CASE m \in NibblePowers
    <2>1. x % m = y % m
      BY <1>1, <1>3, <1>5, LowPowers
    <2>2. QED  BY <2>1 DEF x, y
  <1>6. ASSUME NEW k \in NibblePowers, m = 16 * k PROVE x % m = y % m
    <2>1. b % 16 = c % 16 /\ (b \div 16) % k = (c \div 16) % k
      BY <1>6, SameRemainder
    <2>2. 16 \in NibblePowers /\ \A u \in Nibble : u % 16 = u
      BY DEF NibblePowers, Nibble
    <2>3. x % 16 = y % 16
      BY <1>1, <1>2, <1>3, <2>1, <2>2
    <2>4. (x \div 16) % k = (y \div 16) % k
      BY <1>4, <2>1
    <2>5. QED  BY <1>1, <1>6, <2>3, <2>4, SameRemainder
  <1>7. QED  BY <1>5, <1>6, PowerIs DEF x, y

\* Equal above a power of two, equal above it after the same exclusive or.
LEMMA ByteKeepsHigh ==
  ASSUME NEW a \in Octet, NEW b \in Octet, NEW c \in Octet,
         NEW m \in BytePowers, b \div m = c \div m
  PROVE  XorByte(a, b) \div m = XorByte(a, c) \div m
  <1> DEFINE x == XorByte(a, b)
             y == XorByte(a, c)
  <1>1. /\ x \in Octet /\ y \in Octet
        /\ x \div 16 = XorNibble[a \div 16][b \div 16]
        /\ y \div 16 = XorNibble[a \div 16][c \div 16]
        /\ x % 16 = XorNibble[a % 16][b % 16]
        /\ y % 16 = XorNibble[a % 16][c % 16]
    BY XorByteNibbles
  <1>2. /\ a \div 16 \in Nibble /\ b \div 16 \in Nibble
        /\ c \div 16 \in Nibble
        /\ a % 16 \in Nibble /\ b % 16 \in Nibble /\ c % 16 \in Nibble
    BY HalfOctet
  <1>3. ASSUME NEW k \in NibblePowers, (b % 16) \div k = (c % 16) \div k
        PROVE  (x % 16) \div k = (y % 16) \div k
    <2>1. XorNibble[a % 16][b % 16] \div k
            = XorNibble[a % 16][c % 16] \div k
      BY <1>2, <1>3, NibbleKeeps
    <2>2. QED  BY <1>1, <2>1
  <1>4. ASSUME NEW k \in NibblePowers, (b \div 16) \div k = (c \div 16) \div k
        PROVE  (x \div 16) \div k = (y \div 16) \div k
    <2>1. XorNibble[a \div 16][b \div 16] \div k
            = XorNibble[a \div 16][c \div 16] \div k
      BY <1>2, <1>4, NibbleKeeps
    <2>2. QED  BY <1>1, <2>1
  <1> HIDE DEF x, y
  <1>5. ASSUME m \in NibblePowers PROVE x \div m = y \div m
    <2>1. b \div 16 = c \div 16 /\ (b % 16) \div m = (c % 16) \div m
      BY <1>5, SameQuotient
    <2>2. x \div 16 = y \div 16
      BY <1>1, <2>1
    <2>3. (x % 16) \div m = (y % 16) \div m
      BY <1>3, <1>5, <2>1
    <2>4. QED  BY <1>1, <1>5, <2>2, <2>3, SameQuotient
  <1>6. ASSUME NEW k \in NibblePowers, m = 16 * k PROVE x \div m = y \div m
    <2>1. (b \div 16) \div k = (c \div 16) \div k
      BY <1>6, HighPowers
    <2>2. (x \div 16) \div k = (y \div 16) \div k
      BY <1>4, <2>1
    <2>3. QED  BY <1>1, <1>6, <2>2, HighPowers
  <1>7. QED  BY <1>5, <1>6, PowerIs DEF x, y

\* NibbleNeutral for bytes.
LEMMA ByteNeutral ==
  ASSUME NEW a \in Octet, NEW b \in Octet
  PROVE  XorByte(a, 0) = a /\ XorByte(a, b) = XorByte(b, a)
  <1>1. XorByte(a, b) = XorByte(b, a)
    BY HalfOctet, NibbleNeutral DEF XorByte
  <1>2. XorByte(a, 0) = (a \div 16) * 16 + (a % 16)
    <2>1. /\ XorNibble[a \div 16][0] = a \div 16
          /\ XorNibble[a % 16][0] = a % 16
      BY HalfOctet, NibbleNeutral
    <2>2. 0 \div 16 = 0 /\ 0 % 16 = 0
      OBVIOUS
    <2>3. QED  BY <2>1, <2>2 DEF XorByte
  <1>3. QED  BY <1>1, <1>2 DEF Octet

\* An exclusive or can be undone.
LEMMA ByteInjective ==
  ASSUME NEW a \in Octet, NEW b \in Octet, NEW c \in Octet
  PROVE  /\ XorByte(a, b) = XorByte(a, c) => b = c
         /\ XorByte(b, a) = XorByte(c, a) => b = c
  <1>1. 256 \in BytePowers /\ \A u \in Octet : u % 256 = u
    BY DEF BytePowers, Octet
  <1>2. XorByte(b, a) = XorByte(c, a) => b = c
    BY <1>1, ByteCancels
  <1>3. XorByte(a, b) = XorByte(b, a) /\ XorByte(a, c) = XorByte(c, a)
    BY ByteNeutral
  <1>4. QED  BY <1>2, <1>3
-----------------------------------------------------------------------------
(***************************************************************************)
(* Words, cut in two at a power of two.                                    *)
(***************************************************************************)
\* The powers of two that cut a word in two.
WordPowers == {1, 2, 4, 8, 16, 32, 64, 128, 256, 512, 1024, 2048, 4096, 8192,
               16384, 32768, 65536}

\* Each is in the low or in the high byte.
LEMMA WordPowerIs ==
  ASSUME NEW m \in WordPowers
  PROVE  m \in BytePowers \/ \E k \in BytePowers : m = 256 * k
  <1>1. \/ m \in BytePowers
        \/ m \in {256 * 2, 256 * 4, 256 * 8, 256 * 16, 256 * 32, 256 * 64,
                  256 * 128, 256 * 256}
    BY DEF WordPowers, BytePowers
  <1>2. QED  BY <1>1 DEF BytePowers

\* Membership in an interval as two inequalities: the provers take those
\* where they would go through the interval value by value.
LEMMA Between ==
  \A N \in Int : \A w : w \in 0 .. N <=> w \in Int /\ 0 <= w /\ w <= N
  OBVIOUS

\* Words and bytes as inequalities.
LEMMA WordIs ==
  \A w : w \in Word <=> w \in Int /\ 0 <= w /\ w <= 65535
  <1>1. PICK N \in Int : N = 65535
    OBVIOUS
  <1>2. Word = 0 .. N
    BY <1>1 DEF Word
  <1>3. \A w : w \in Word <=> w \in Int /\ 0 <= w /\ w <= N
    BY <1>2, Between
  <1>4. \A w \in Int : w <= N <=> w <= 65535
    BY <1>1
  <1>5. QED  BY <1>3, <1>4

\* Words and bytes as inequalities.
LEMMA OctetIs ==
  \A w : w \in Octet <=> w \in Int /\ 0 <= w /\ w <= 255
  <1>1. 255 \in Int
    OBVIOUS
  <1>2. QED  BY ONLY <1>1, Between, Zenon DEF Octet

\* A word is two bytes.
LEMMA HalfWord ==
  ASSUME NEW w \in Word
  PROVE  /\ w \div 256 \in Octet /\ w % 256 \in Octet
         /\ w = 256 * (w \div 256) + (w % 256)
  <1>1. w \in Int /\ 0 <= w /\ w <= 65535
    BY WordIs
  <1>2. w \div 256 \in Int /\ 0 <= w \div 256 /\ w \div 256 <= 255
    BY <1>1
  <1>3. w % 256 \in Int /\ 0 <= w % 256 /\ w % 256 <= 255
    BY <1>1
  <1>4. w = 256 * (w \div 256) + (w % 256)
    BY <1>1
  <1>5. QED  BY <1>1, <1>2, <1>3, <1>4, OctetIs

\* The cuts of a byte, one by one.
LEMMA BytePowerCases ==
  ASSUME NEW m \in BytePowers
  PROVE  \/ m = 1 \/ m = 2 \/ m = 4 \/ m = 8 \/ m = 16 \/ m = 32 \/ m = 64
         \/ m = 128 \/ m = 256
  BY DEF BytePowers

\* Two bytes are a word.
LEMMA JoinedBytes ==
  ASSUME NEW p \in Octet, NEW r \in Octet
  PROVE  /\ p * 256 + r \in Word
         /\ (p * 256 + r) \div 256 = p
         /\ (p * 256 + r) % 256 = r
  <1>1. p \in Int /\ r \in Int /\ 0 <= r /\ r <= 255 /\ 0 <= p /\ p <= 255
    BY OctetIs
  <1>2. p * 256 + r \in Int /\ 0 <= p * 256 + r /\ p * 256 + r <= 65535
    BY <1>1
  <1>3. (p * 256 + r) \div 256 = p
    BY <1>1
  <1>4. (p * 256 + r) % 256 = r
    BY <1>1
  <1>5. p * 256 + r \in Word
    BY <1>2, WordIs
  <1>6. QED  BY <1>3, <1>4, <1>5

\* Two words are equal when their bytes are.
LEMMA SameLow ==
  ASSUME NEW p \in Octet, NEW q \in Octet, NEW r \in Octet, NEW s \in Octet
  PROVE  p * 256 + r = q * 256 + s <=> r = s /\ p = q
  BY OctetIs

\* Two words agree above a cut in the low byte when they do byte by byte.
LEMMA SameQ ==
  ASSUME NEW p \in Octet, NEW q \in Octet, NEW r \in Octet, NEW s \in Octet,
         NEW m \in BytePowers
  PROVE  p * (256 \div m) + (r \div m) = q * (256 \div m) + (s \div m)
           <=> p = q /\ r \div m = s \div m
  <1> USE DEF Octet
  <1>1. CASE m = 1
    BY <1>1
  <1>2. CASE m = 2
    BY <1>2
  <1>3. CASE m = 4
    BY <1>3
  <1>4. CASE m = 8
    BY <1>4
  <1>5. CASE m = 16
    BY <1>5
  <1>6. CASE m = 32
    BY <1>6
  <1>7. CASE m = 64
    BY <1>7
  <1>8. CASE m = 128
    BY <1>8
  <1>9. CASE m = 256
    BY <1>9
  <1>10. QED
    BY <1>1, <1>2, <1>3, <1>4, <1>5, <1>6, <1>7, <1>8, <1>9, BytePowerCases

\* How a word splits at a power of two in its low or in its high byte.
LEMMA WordLow ==
  ASSUME NEW u \in Word, NEW m \in BytePowers
  PROVE  /\ u % m = (u % 256) % m
         /\ u \div m = (u \div 256) * (256 \div m) + ((u % 256) \div m)
  <1>0. u \in Int
    BY WordIs
  <1>1. CASE m = 1
    BY <1>0, <1>1
  <1>2. CASE m = 2
    BY <1>0, <1>2
  <1>3. CASE m = 4
    BY <1>0, <1>3
  <1>4. CASE m = 8
    BY <1>0, <1>4
  <1>5. CASE m = 16
    BY <1>0, <1>5
  <1>6. CASE m = 32
    BY <1>0, <1>6
  <1>7. CASE m = 64
    BY <1>0, <1>7
  <1>8. CASE m = 128
    BY <1>0, <1>8
  <1>9. CASE m = 256
    BY <1>0, <1>9
  <1>10. QED
    BY <1>1, <1>2, <1>3, <1>4, <1>5, <1>6, <1>7, <1>8, <1>9, BytePowerCases

\* A cut in the high byte.
LEMMA WordHigh ==
  ASSUME NEW u \in Word, NEW k \in BytePowers
  PROVE  /\ u % (256 * k) = ((u \div 256) % k) * 256 + (u % 256)
         /\ u \div (256 * k) = (u \div 256) \div k
  <1>0. u \in Int
    BY WordIs
  <1>1. CASE k = 1
    BY <1>0, <1>1
  <1>2. CASE k = 2
    BY <1>0, <1>2
  <1>3. CASE k = 4
    BY <1>0, <1>3
  <1>4. CASE k = 8
    BY <1>0, <1>4
  <1>5. CASE k = 16
    BY <1>0, <1>5
  <1>6. CASE k = 32
    BY <1>0, <1>6
  <1>7. CASE k = 64
    BY <1>0, <1>7
  <1>8. CASE k = 128
    BY <1>0, <1>8
  <1>9. CASE k = 256
    BY <1>0, <1>9
  <1>10. QED
    BY <1>1, <1>2, <1>3, <1>4, <1>5, <1>6, <1>7, <1>8, <1>9, BytePowerCases

\* What is below a cut of a byte is a byte.
LEMMA OctetRemainder ==
  ASSUME NEW u \in Octet, NEW k \in BytePowers
  PROVE  u % k \in Octet
  BY BytePowerCases DEF Octet

\* Two words agree below a cut in the high byte: byte by byte.
LEMMA SameWordRemainder ==
  ASSUME NEW u \in Word, NEW v \in Word, NEW k \in BytePowers
  PROVE  u % (256 * k) = v % (256 * k) <=>
           u % 256 = v % 256 /\ (u \div 256) % k = (v \div 256) % k
  <1> DEFINE p == (u \div 256) % k
             q == (v \div 256) % k
             r == u % 256
             s == v % 256
  <1>1. p \in Octet /\ q \in Octet /\ r \in Octet /\ s \in Octet
    BY HalfWord, OctetRemainder
  <1>2. u % (256 * k) = p * 256 + r /\ v % (256 * k) = q * 256 + s
    BY WordHigh
  <1> HIDE DEF p, q, r, s
  <1>3. p * 256 + r = q * 256 + s <=> r = s /\ p = q
    BY <1>1, SameLow
  <1>4. QED  BY <1>2, <1>3 DEF p, q, r, s

\* Two words agree above a cut in the low byte: byte by byte.
LEMMA SameWordQuotient ==
  ASSUME NEW u \in Word, NEW v \in Word, NEW m \in BytePowers
  PROVE  u \div m = v \div m <=>
           u \div 256 = v \div 256 /\ (u % 256) \div m = (v % 256) \div m
  <1> DEFINE p == u \div 256
             q == v \div 256
             r == u % 256
             s == v % 256
  <1>1. p \in Octet /\ q \in Octet /\ r \in Octet /\ s \in Octet
    BY HalfWord
  <1>2. /\ u \div m = p * (256 \div m) + (r \div m)
        /\ v \div m = q * (256 \div m) + (s \div m)
    BY WordLow
  <1> HIDE DEF p, q, r, s
  <1>3. p * (256 \div m) + (r \div m) = q * (256 \div m) + (s \div m) <=>
          p = q /\ r \div m = s \div m
    BY <1>1, SameQ
  <1>4. QED  BY <1>2, <1>3 DEF p, q, r, s
-----------------------------------------------------------------------------
(***************************************************************************)
(* One pass of the loop over the bits: CrcShift.                           *)
(***************************************************************************)
\* The exclusive or with the polynomial, byte by byte.
LEMMA PolynomialBytes ==
  ASSUME NEW x \in Word
  PROVE  /\ XorPolynomial(x) \in Word
         /\ XorPolynomial(x) \div 256 = XorByte(x \div 256, 16)
         /\ XorPolynomial(x) % 256 = XorByte(x % 256, 33)
  <1>1. XorByte(x \div 256, 16) \in Octet /\ XorByte(x % 256, 33) \in Octet
    <2>1. 16 \in Octet /\ 33 \in Octet
      BY OctetIs
    <2>2. QED  BY <2>1, HalfWord, XorByteNibbles
  <1>2. QED  BY <1>1, JoinedBytes DEF XorPolynomial

\* Words agree below a cut exactly when they do after the exclusive or.
LEMMA PolynomialLow ==
  ASSUME NEW x \in Word, NEW y \in Word, NEW m \in WordPowers
  PROVE  XorPolynomial(x) % m = XorPolynomial(y) % m <=> x % m = y % m
  <1> DEFINE u == XorPolynomial(x)
             v == XorPolynomial(y)
  <1>1. /\ u \in Word /\ v \in Word
        /\ u \div 256 = XorByte(x \div 256, 16)
        /\ v \div 256 = XorByte(y \div 256, 16)
        /\ u % 256 = XorByte(x % 256, 33)
        /\ v % 256 = XorByte(y % 256, 33)
    BY PolynomialBytes
  <1>2. 16 \in Octet /\ 33 \in Octet
    BY OctetIs
  <1>3. /\ x \div 256 \in Octet /\ y \div 256 \in Octet
        /\ x % 256 \in Octet /\ y % 256 \in Octet
    BY HalfWord
  <1>4. ASSUME NEW a \in Octet, NEW b \in Octet, NEW c \in Octet,
               NEW k \in BytePowers
        PROVE  XorByte(a, c) % k = XorByte(b, c) % k <=> a % k = b % k
    <2>1. XorByte(a, c) = XorByte(c, a) /\ XorByte(b, c) = XorByte(c, b)
      BY ByteNeutral
    <2>2. QED  BY <2>1, ByteCancels, ByteKeepsLow
  <1>5. \A k \in BytePowers : (u % 256) % k = (v % 256) % k
                                <=> (x % 256) % k = (y % 256) % k
    BY <1>1, <1>2, <1>3, <1>4
  <1>6. \A k \in BytePowers : (u \div 256) % k = (v \div 256) % k
                                <=> (x \div 256) % k = (y \div 256) % k
    BY <1>1, <1>2, <1>3, <1>4
  <1> HIDE DEF u, v
  <1>7. CASE m \in BytePowers
    <2>1. u % m = v % m <=> x % m = y % m
      BY <1>1, <1>5, <1>7, WordLow
    <2>2. QED  BY <2>1 DEF u, v
  <1>8. ASSUME NEW k \in BytePowers, m = 256 * k
        PROVE  u % m = v % m <=> x % m = y % m
    <2>1. 256 \in BytePowers /\ \A w \in Octet : w % 256 = w
      BY DEF BytePowers, Octet
    <2>2. u % 256 = v % 256 <=> x % 256 = y % 256
      BY <1>1, <1>3, <1>5, <2>1, HalfWord
    <2>3. QED  BY <1>1, <1>6, <1>8, <2>2, SameWordRemainder
  <1>9. QED  BY <1>7, <1>8, WordPowerIs DEF u, v

\* Two words that agree above a cut do so after it.
LEMMA PolynomialHigh ==
  ASSUME NEW x \in Word, NEW y \in Word, NEW m \in WordPowers,
         x \div m = y \div m
  PROVE  XorPolynomial(x) \div m = XorPolynomial(y) \div m
  <1> DEFINE u == XorPolynomial(x)
             v == XorPolynomial(y)
  <1>1. /\ u \in Word /\ v \in Word
        /\ u \div 256 = XorByte(x \div 256, 16)
        /\ v \div 256 = XorByte(y \div 256, 16)
        /\ u % 256 = XorByte(x % 256, 33)
        /\ v % 256 = XorByte(y % 256, 33)
    BY PolynomialBytes
  <1>2. 16 \in Octet /\ 33 \in Octet
    BY OctetIs
  <1>3. /\ x \div 256 \in Octet /\ y \div 256 \in Octet
        /\ x % 256 \in Octet /\ y % 256 \in Octet
    BY HalfWord
  <1>4. ASSUME NEW a \in Octet, NEW b \in Octet, NEW c \in Octet,
               NEW k \in BytePowers, a \div k = b \div k
        PROVE  XorByte(a, c) \div k = XorByte(b, c) \div k
    <2>1. XorByte(a, c) = XorByte(c, a) /\ XorByte(b, c) = XorByte(c, b)
      BY ByteNeutral
    <2>2. QED  BY <1>4, <2>1, ByteKeepsHigh
  <1>5. \A k \in BytePowers : (x % 256) \div k = (y % 256) \div k
                                => (u % 256) \div k = (v % 256) \div k
    BY <1>1, <1>2, <1>3, <1>4
  <1>6. \A k \in BytePowers : (x \div 256) \div k = (y \div 256) \div k
                                => (u \div 256) \div k = (v \div 256) \div k
    BY <1>1, <1>2, <1>3, <1>4
  <1> HIDE DEF u, v
  <1>7. ASSUME m \in BytePowers PROVE u \div m = v \div m
    <2>1. x \div 256 = y \div 256 /\ (x % 256) \div m = (y % 256) \div m
      BY <1>7, SameWordQuotient
    <2>2. u \div 256 = v \div 256
      BY <1>1, <2>1
    <2>3. (u % 256) \div m = (v % 256) \div m
      BY <1>5, <1>7, <2>1
    <2>4. QED  BY <1>1, <1>7, <2>2, <2>3, SameWordQuotient
  <1>8. ASSUME NEW k \in BytePowers, m = 256 * k PROVE u \div m = v \div m
    <2>1. (x \div 256) \div k = (y \div 256) \div k
      BY <1>8, WordHigh
    <2>2. (u \div 256) \div k = (v \div 256) \div k
      BY <1>6, <2>1
    <2>3. QED  BY <1>1, <1>8, <2>2, WordHigh
  <1>9. QED  BY <1>7, <1>8, WordPowerIs DEF u, v


\* Doubling moves a cut one place up.
LEMMA DoubledRemainder ==
  ASSUME NEW c \in Word, NEW m \in WordPowers, m # 65536
  PROVE  ((2 * c) % 65536) % (2 * m) = 2 * (c % m)
  <1>0. c \in Int /\ 0 <= c /\ c <= 65535
    BY WordIs
  <1>1. CASE m = 1
    BY <1>0, <1>1
  <1>2. CASE m = 2
    BY <1>0, <1>2
  <1>3. CASE m = 4
    BY <1>0, <1>3
  <1>4. CASE m = 8
    BY <1>0, <1>4
  <1>5. CASE m = 16
    BY <1>0, <1>5
  <1>6. CASE m = 32
    BY <1>0, <1>6
  <1>7. CASE m = 64
    BY <1>0, <1>7
  <1>8. CASE m = 128
    BY <1>0, <1>8
  <1>9. CASE m = 256
    BY <1>0, <1>9
  <1>10. CASE m = 512
    BY <1>0, <1>10
  <1>11. CASE m = 1024
    BY <1>0, <1>11
  <1>12. CASE m = 2048
    BY <1>0, <1>12
  <1>13. CASE m = 4096
    BY <1>0, <1>13
  <1>14. CASE m = 8192
    BY <1>0, <1>14
  <1>15. CASE m = 16384
    BY <1>0, <1>15
  <1>16. CASE m = 32768
    BY <1>0, <1>16
  <1>17. QED
    BY <1>1, <1>2, <1>3, <1>4, <1>5, <1>6, <1>7, <1>8, <1>9, <1>10, <1>11,
       <1>12, <1>13, <1>14, <1>15, <1>16
    DEF WordPowers

\* The top bit lies above every cut.
LEMMA TopQuotient ==
  ASSUME NEW c \in Int, NEW m \in WordPowers, m # 65536
  PROVE  /\ c >= 32768 <=> c \div m >= 32768 \div m
         /\ (c - 32768) \div m = (c \div m) - (32768 \div m)
         /\ (2 * c) \div (2 * m) = c \div m
  <1>1. CASE m = 1
    BY <1>1
  <1>2. CASE m = 2
    BY <1>2
  <1>3. CASE m = 4
    BY <1>3
  <1>4. CASE m = 8
    BY <1>4
  <1>5. CASE m = 16
    BY <1>5
  <1>6. CASE m = 32
    BY <1>6
  <1>7. CASE m = 64
    BY <1>7
  <1>8. CASE m = 128
    BY <1>8
  <1>9. CASE m = 256
    BY <1>9
  <1>10. CASE m = 512
    BY <1>10
  <1>11. CASE m = 1024
    BY <1>11
  <1>12. CASE m = 2048
    BY <1>12
  <1>13. CASE m = 4096
    BY <1>13
  <1>14. CASE m = 8192
    BY <1>14
  <1>15. CASE m = 16384
    BY <1>15
  <1>16. CASE m = 32768
    BY <1>16
  <1>17. QED
    BY <1>1, <1>2, <1>3, <1>4, <1>5, <1>6, <1>7, <1>8, <1>9, <1>10, <1>11,
       <1>12, <1>13, <1>14, <1>15, <1>16
    DEF WordPowers

\* Doubling drops the top bit and leaves the lowest one clear.
LEMMA Doubled ==
  ASSUME NEW c \in Word
  PROVE  /\ c >= 32768 => (2 * c) % 65536 = 2 * (c - 32768)
         /\ c < 32768 => (2 * c) % 65536 = 2 * c
         /\ (2 * c) % 65536 \in Word
         /\ ((2 * c) % 65536) % 2 = 0
  <1>1. c \in Int /\ 0 <= c /\ c <= 65535
    BY WordIs
  <1>2. c >= 32768 => (2 * c) % 65536 = 2 * (c - 32768)
    BY <1>1
  <1>3. c < 32768 => (2 * c) % 65536 = 2 * c
    BY <1>1
  <1>4. (2 * c) % 65536 \in Word
    BY <1>1, <1>2, <1>3, WordIs
  <1>5. ((2 * c) % 65536) % 2 = 0
    BY <1>1
  <1>6. QED  BY <1>2, <1>3, <1>4, <1>5

\* Words that agree above a cut agree above the next one when doubled.
LEMMA DoubledQuotient ==
  ASSUME NEW c \in Word, NEW d \in Word, NEW m \in WordPowers, m # 65536,
         c \div m = d \div m
  PROVE  /\ c >= 32768 <=> d >= 32768
         /\ ((2 * c) % 65536) \div (2 * m) = ((2 * d) % 65536) \div (2 * m)
  <1>1. c \in Int /\ d \in Int
    BY WordIs
  <1>2. c >= 32768 <=> d >= 32768
    BY <1>1, TopQuotient
  <1>3. CASE c >= 32768
    <2>1. /\ (2 * c) % 65536 = 2 * (c - 32768)
          /\ (2 * d) % 65536 = 2 * (d - 32768)
      BY <1>2, <1>3, Doubled
    <2>2. c - 32768 \in Int /\ d - 32768 \in Int
      BY <1>1
    <2>3. /\ (2 * (c - 32768)) \div (2 * m) = (c - 32768) \div m
          /\ (2 * (d - 32768)) \div (2 * m) = (d - 32768) \div m
      BY <2>2, TopQuotient
    <2>4. (c - 32768) \div m = (d - 32768) \div m
      BY <1>1, TopQuotient
    <2>5. QED  BY <1>2, <2>1, <2>3, <2>4
  <1>4. CASE ~(c >= 32768)
    <2>1. (2 * c) % 65536 = 2 * c /\ (2 * d) % 65536 = 2 * d
      BY <1>1, <1>2, <1>4, Doubled
    <2>2. /\ (2 * c) \div (2 * m) = c \div m
          /\ (2 * d) \div (2 * m) = d \div m
      BY <1>1, TopQuotient
    <2>3. QED  BY <1>2, <2>1, <2>2
  <1>5. QED  BY <1>3, <1>4

\* A CRC moved up by one bit, and its top bit.
Twice(c) == (2 * c) % 65536
Top(c) == c >= 32768

\* One pass of the loop over the bits.
LEMMA ShiftIs ==
  ASSUME NEW c \in Word
  PROVE  /\ Twice(c) \in Word
         /\ CrcShift(c) = IF Top(c) THEN XorPolynomial(Twice(c)) ELSE Twice(c)
         /\ CrcShift(c) \in Word
  <1>1. c \in Int
    BY WordIs
  <1>2. (2 * c) % 65536 \in Word
    BY Doubled
  <1>3. c >= 32768 \/ c < 32768
    BY <1>1
  <1>4. c < 32768 => (2 * c) % 65536 = 2 * c
    BY Doubled
  <1>5. CrcShift(c) = IF Top(c) THEN XorPolynomial(Twice(c)) ELSE Twice(c)
    BY <1>3, <1>4 DEF CrcShift, Top, Twice
  <1>6. QED  BY <1>2, <1>5, PolynomialBytes DEF Twice

\* The polynomial sets the lowest bit ...
LEMMA PolynomialOdd ==
  ASSUME NEW x \in Word, x % 2 = 0
  PROVE  XorPolynomial(x) % 2 = 1
  <1>1. 0 \in Word /\ 0 \in Octet /\ 16 \in Octet /\ 33 \in Octet
    BY WordIs, OctetIs
  <1>2. XorByte(0, 33) = 33 /\ XorByte(0, 16) = 16
    BY <1>1, ByteNeutral
  <1>3. 0 \div 256 = 0 /\ 0 % 256 = 0
    OBVIOUS
  <1>4. XorPolynomial(0) = 4129
    BY <1>2, <1>3 DEF XorPolynomial
  <1>5. XorPolynomial(x) % 2 = XorPolynomial(0) % 2
    <2>1. 2 \in WordPowers /\ 0 % 2 = 0
      BY DEF WordPowers
    <2>2. QED  BY <1>1, <2>1, PolynomialLow
  <1>6. 4129 % 2 = 1
    OBVIOUS
  <1>7. QED  BY <1>4, <1>5, <1>6

\* The lowest bit that comes out is the top bit that went in.
LEMMA ShiftLowBit ==
  ASSUME NEW c \in Word
  PROVE  CrcShift(c) % 2 = (IF Top(c) THEN 1 ELSE 0)
  <1>1. Twice(c) \in Word /\ Twice(c) % 2 = 0
    BY Doubled DEF Twice
  <1>2. QED  BY <1>1, ShiftIs, PolynomialOdd

\* Twice a cut is a cut.
LEMMA HalvePowers ==
  ASSUME NEW m \in WordPowers, m # 65536
  PROVE  m \in Nat /\ 2 * m \in WordPowers
  BY DEF WordPowers

\* The lowest bit lies below every cut but the first.
LEMMA LowBit ==
  ASSUME NEW u \in Int, NEW m \in WordPowers, m # 65536
  PROVE  (u % (2 * m)) % 2 = u % 2
  <1>1. CASE m = 1
    BY <1>1
  <1>2. CASE m = 2
    BY <1>2
  <1>3. CASE m = 4
    BY <1>3
  <1>4. CASE m = 8
    BY <1>4
  <1>5. CASE m = 16
    BY <1>5
  <1>6. CASE m = 32
    BY <1>6
  <1>7. CASE m = 64
    BY <1>7
  <1>8. CASE m = 128
    BY <1>8
  <1>9. CASE m = 256
    BY <1>9
  <1>10. CASE m = 512
    BY <1>10
  <1>11. CASE m = 1024
    BY <1>11
  <1>12. CASE m = 2048
    BY <1>12
  <1>13. CASE m = 4096
    BY <1>13
  <1>14. CASE m = 8192
    BY <1>14
  <1>15. CASE m = 16384
    BY <1>15
  <1>16. CASE m = 32768
    BY <1>16
  <1>17. QED
    BY <1>1, <1>2, <1>3, <1>4, <1>5, <1>6, <1>7, <1>8, <1>9, <1>10, <1>11,
       <1>12, <1>13, <1>14, <1>15, <1>16
    DEF WordPowers

\* A remainder is an integer.
LEMMA WordRemainder ==
  ASSUME NEW c \in Word, NEW m \in WordPowers
  PROVE  c % m \in Int
  <1>1. c \in Int
    BY WordIs
  <1>2. m \in Int /\ m > 0
    BY DEF WordPowers
  <1>3. QED  BY <1>1, <1>2

\* A pass of the loop can be undone, from the lowest bits on ...
LEMMA ShiftBackward ==
  ASSUME NEW c \in Word, NEW d \in Word, NEW m \in WordPowers, m # 65536,
         CrcShift(c) % (2 * m) = CrcShift(d) % (2 * m)
  PROVE  (Top(c) <=> Top(d)) /\ c % m = d % m
  <1>1. /\ CrcShift(c) \in Word /\ CrcShift(d) \in Word
        /\ Twice(c) \in Word /\ Twice(d) \in Word
    BY ShiftIs
  <1>2. CrcShift(c) \in Int /\ CrcShift(d) \in Int
    BY <1>1, WordIs
  <1>3. CrcShift(c) % 2 = CrcShift(d) % 2
    BY <1>2, LowBit
  <1>4. Top(c) <=> Top(d)
    BY <1>3, ShiftLowBit
  <1>5. 2 * m \in WordPowers
    BY HalvePowers
  <1>6. Twice(c) % (2 * m) = Twice(d) % (2 * m)
    BY <1>1, <1>4, <1>5, ShiftIs, PolynomialLow
  <1>7. Twice(c) % (2 * m) = 2 * (c % m) /\ Twice(d) % (2 * m) = 2 * (d % m)
    BY DoubledRemainder DEF Twice
  <1>8. c % m \in Int /\ d % m \in Int
    BY WordRemainder
  <1>9. c % m = d % m
    BY <1>6, <1>7, <1>8
  <1>10. QED  BY <1>4, <1>9

\* ... and done again, when the top bits are the same.
LEMMA ShiftForward ==
  ASSUME NEW c \in Word, NEW d \in Word, NEW m \in WordPowers, m # 65536,
         Top(c) <=> Top(d), c % m = d % m
  PROVE  CrcShift(c) % (2 * m) = CrcShift(d) % (2 * m)
  <1>1. Twice(c) \in Word /\ Twice(d) \in Word
    BY ShiftIs
  <1>2. 2 * m \in WordPowers
    BY HalvePowers
  <1>3. Twice(c) % (2 * m) = Twice(d) % (2 * m)
    BY DoubledRemainder DEF Twice
  <1>4. XorPolynomial(Twice(c)) % (2 * m) = XorPolynomial(Twice(d)) % (2 * m)
    BY <1>1, <1>2, <1>3, PolynomialLow
  <1>5. QED  BY <1>3, <1>4, ShiftIs

\* CRCs that agree above a cut agree above the next one after a pass.
LEMMA ShiftUpward ==
  ASSUME NEW c \in Word, NEW d \in Word, NEW m \in WordPowers, m # 65536,
         c \div m = d \div m
  PROVE  /\ Top(c) <=> Top(d)
         /\ CrcShift(c) \div (2 * m) = CrcShift(d) \div (2 * m)
  <1>1. Twice(c) \in Word /\ Twice(d) \in Word
    BY ShiftIs
  <1>2. 2 * m \in WordPowers
    BY HalvePowers
  <1>3. Top(c) <=> Top(d)
    BY DoubledQuotient DEF Top
  <1>4. Twice(c) \div (2 * m) = Twice(d) \div (2 * m)
    BY DoubledQuotient DEF Twice
  <1>5. XorPolynomial(Twice(c)) \div (2 * m)
          = XorPolynomial(Twice(d)) \div (2 * m)
    BY <1>1, <1>2, <1>4, PolynomialHigh
  <1>6. QED  BY <1>3, <1>4, <1>5, ShiftIs

\* A pass of the loop can be undone altogether.
LEMMA ShiftInjective ==
  ASSUME NEW c \in Word, NEW d \in Word, CrcShift(c) = CrcShift(d)
  PROVE  c = d
  <1>1. (Top(c) <=> Top(d)) /\ c % 32768 = d % 32768
    <2>1. 32768 \in WordPowers /\ 32768 # 65536
      BY DEF WordPowers
    <2>2. CrcShift(c) % (2 * 32768) = CrcShift(d) % (2 * 32768)
      OBVIOUS
    <2>3. QED  BY <2>1, <2>2, ShiftBackward
  <1>2. /\ c \in Int /\ 0 <= c /\ c <= 65535
        /\ d \in Int /\ 0 <= d /\ d <= 65535
    BY WordIs
  <1>3. QED  BY <1>1, <1>2 DEF Top
-----------------------------------------------------------------------------
(***************************************************************************)
(* The loop over the bits of a byte: CrcShifts.                            *)
(***************************************************************************)
\* The CRC before and after each of the eight passes.
Run(c) ==
  LET crc1 == CrcShift(c)
      crc2 == CrcShift(crc1)
      crc3 == CrcShift(crc2)
      crc4 == CrcShift(crc3)
      crc5 == CrcShift(crc4)
      crc6 == CrcShift(crc5)
      crc7 == CrcShift(crc6)
      crc8 == CrcShift(crc7)
  IN [n \in 0 .. 8 |->
        CASE n = 0 -> c    [] n = 1 -> crc1 [] n = 2 -> crc2
          [] n = 3 -> crc3 [] n = 4 -> crc4 [] n = 5 -> crc5
          [] n = 6 -> crc6 [] n = 7 -> crc7 [] n = 8 -> crc8]

\* The powers of two, by their exponents.
Pow == [j \in 0 .. 16 |->
          CASE j = 0 -> 1      [] j = 1 -> 2      [] j = 2 -> 4
            [] j = 3 -> 8      [] j = 4 -> 16     [] j = 5 -> 32
            [] j = 6 -> 64     [] j = 7 -> 128    [] j = 8 -> 256
            [] j = 9 -> 512    [] j = 10 -> 1024  [] j = 11 -> 2048
            [] j = 12 -> 4096  [] j = 13 -> 8192  [] j = 14 -> 16384
            [] j = 15 -> 32768 [] j = 16 -> 65536]

\* The powers of two, one by one ...
LEMMA PowIs ==
  /\ Pow[0] = 1 /\ Pow[1] = 2 /\ Pow[2] = 4 /\ Pow[3] = 8
  /\ Pow[4] = 16 /\ Pow[5] = 32 /\ Pow[6] = 64 /\ Pow[7] = 128
  /\ Pow[8] = 256 /\ Pow[9] = 512 /\ Pow[10] = 1024 /\ Pow[11] = 2048
  /\ Pow[12] = 4096 /\ Pow[13] = 8192 /\ Pow[14] = 16384
  /\ Pow[15] = 32768 /\ Pow[16] = 65536
  BY DEF Pow

\* ... and each from the one before.
LEMMA PowStep ==
  /\ \A j \in 0 .. 15 : /\ Pow[j] \in WordPowers /\ Pow[j] # 65536
                        /\ Pow[j + 1] = 2 * Pow[j]
  /\ \A j \in 0 .. 8 : Pow[j] \in BytePowers /\ Pow[j + 8] = 256 * Pow[j]
  <1>1. ASSUME NEW j \in 0 .. 15
        PROVE  Pow[j] \in WordPowers /\ Pow[j] # 65536 /\ Pow[j + 1] = 2 * Pow[j]
    BY PowIs DEF WordPowers
  <1>2. ASSUME NEW j \in 0 .. 8
        PROVE  Pow[j] \in BytePowers /\ Pow[j + 8] = 256 * Pow[j]
    BY PowIs DEF BytePowers
  <1>3. QED  BY <1>1, <1>2

\* The eight passes are the loop.
LEMMA RunIs ==
  ASSUME NEW c
  PROVE  /\ Run(c)[0] = c
         /\ \A n \in 0 .. 7 : Run(c)[n + 1] = CrcShift(Run(c)[n])
         /\ Run(c)[8] = CrcShifts(c)
  <1> DEFINE crc1 == CrcShift(c)
             crc2 == CrcShift(crc1)
             crc3 == CrcShift(crc2)
             crc4 == CrcShift(crc3)
             crc5 == CrcShift(crc4)
             crc6 == CrcShift(crc5)
             crc7 == CrcShift(crc6)
             crc8 == CrcShift(crc7)
  <1>1. CrcShifts(c) = crc8
    BY DEF CrcShifts
  <1>2. Run(c) = [n \in 0 .. 8 |->
        CASE n = 0 -> c    [] n = 1 -> crc1 [] n = 2 -> crc2
          [] n = 3 -> crc3 [] n = 4 -> crc4 [] n = 5 -> crc5
          [] n = 6 -> crc6 [] n = 7 -> crc7 [] n = 8 -> crc8]
    BY DEF Run
  <1>3. /\ crc1 = CrcShift(c) /\ crc2 = CrcShift(crc1)
        /\ crc3 = CrcShift(crc2) /\ crc4 = CrcShift(crc3)
        /\ crc5 = CrcShift(crc4) /\ crc6 = CrcShift(crc5)
        /\ crc7 = CrcShift(crc6) /\ crc8 = CrcShift(crc7)
    OBVIOUS
  <1> HIDE DEF crc1, crc2, crc3, crc4, crc5, crc6, crc7, crc8
  <1>4. /\ Run(c)[0] = c /\ Run(c)[1] = crc1 /\ Run(c)[2] = crc2
        /\ Run(c)[3] = crc3 /\ Run(c)[4] = crc4 /\ Run(c)[5] = crc5
        /\ Run(c)[6] = crc6 /\ Run(c)[7] = crc7 /\ Run(c)[8] = crc8
    BY <1>2
  <1> HIDE DEF Run
  <1>5. ASSUME NEW n \in 0 .. 7
        PROVE  Run(c)[n + 1] = CrcShift(Run(c)[n])
    <2>1. n = 0 \/ n = 1 \/ n = 2 \/ n = 3 \/ n = 4 \/ n = 5 \/ n = 6 \/ n = 7
      OBVIOUS
    <2>2. QED  BY <1>3, <1>4, <2>1
  <1>6. QED  BY <1>1, <1>4, <1>5

\* The CRC stays a word.
LEMMA RunType ==
  ASSUME NEW c \in Word
  PROVE  \A n \in 0 .. 8 : Run(c)[n] \in Word
  <1> DEFINE S == {n \in Nat : n <= 8 => Run(c)[n] \in Word}
  <1>1. 0 \in S
    BY RunIs
  <1>2. \A n \in S : n \in Nat /\ n < 8 => n + 1 \in S
    <2>1. ASSUME NEW n \in S, n < 8 PROVE n + 1 \in S
      <3>1. n \in 0 .. 7 /\ Run(c)[n] \in Word
        BY <2>1
      <3>2. Run(c)[n + 1] \in Word
        BY <3>1, RunIs, ShiftIs
      <3>3. QED  BY <3>1, <3>2
    <2>2. QED  BY <2>1
  <1> HIDE DEF S
  <1>3. 0 .. 8 \subseteq S
    BY <1>1, <1>2, UpToInduction
  <1>4. QED  BY <1>3 DEF S

\* Backward: what comes out decides the top bits that went in, the last ones
\* first, and as many low bits fewer.
LEMMA BackRun ==
  ASSUME NEW c \in Word, NEW d \in Word, NEW j \in 0 .. 16,
         Run(c)[8] % Pow[j] = Run(d)[8] % Pow[j]
  PROVE  \A t \in 0 .. 8 : t <= j =>
           /\ Run(c)[8 - t] % Pow[j - t] = Run(d)[8 - t] % Pow[j - t]
           /\ t >= 1 => (Top(Run(c)[8 - t]) <=> Top(Run(d)[8 - t]))
  <1> DEFINE P(t) ==
        /\ Run(c)[8 - t] % Pow[j - t] = Run(d)[8 - t] % Pow[j - t]
        /\ t >= 1 => (Top(Run(c)[8 - t]) <=> Top(Run(d)[8 - t]))
  <1> DEFINE S == {t \in Nat : t <= 8 /\ t <= j => P(t)}
  <1>1. 0 \in S
    <2>1. 8 - 0 = 8 /\ j - 0 = j
      OBVIOUS
    <2>2. P(0)
      BY <2>1
    <2>3. QED  BY <2>2
  <1>2. \A t \in S : t \in Nat /\ t < 8 => t + 1 \in S
    <2>1. ASSUME NEW t \in S, t < 8, t + 1 <= j PROVE P(t + 1)
      <3>1. /\ t \in Nat
            /\ Run(c)[8 - t] % Pow[j - t] = Run(d)[8 - t] % Pow[j - t]
        BY <2>1
      <3> DEFINE n == 8 - (t + 1)
                 i == j - (t + 1)
      <3>2. n \in 0 .. 7 /\ n \in 0 .. 8 /\ n + 1 = 8 - t
        BY <2>1, <3>1
      <3>3. i \in 0 .. 15 /\ i + 1 = j - t
        BY <2>1, <3>1
      <3> HIDE DEF n, i
      <3>4. /\ Run(c)[8 - t] = CrcShift(Run(c)[n])
            /\ Run(d)[8 - t] = CrcShift(Run(d)[n])
        BY <3>2, RunIs
      <3>5. /\ Pow[j - t] = 2 * Pow[i] /\ Pow[i] \in WordPowers
            /\ Pow[i] # 65536
        BY <3>3, PowStep
      <3>6. Run(c)[n] \in Word /\ Run(d)[n] \in Word
        BY <3>2, RunType
      <3>7. /\ Top(Run(c)[n]) <=> Top(Run(d)[n])
            /\ Run(c)[n] % Pow[i] = Run(d)[n] % Pow[i]
        BY <3>1, <3>4, <3>5, <3>6, ShiftBackward
      <3>8. QED  BY <3>7 DEF n, i
    <2> HIDE DEF P
    <2>2. QED  BY <2>1
  <1> HIDE DEF S
  <1>3. 0 .. 8 \subseteq S
    BY <1>1, <1>2, UpToInduction
  <1> HIDE DEF P
  <1>4. \A t \in 0 .. 8 : t <= j => P(t)
    BY <1>3 DEF S
  <1>5. QED  BY <1>4 DEF P

\* Forward: equal top bits and equal low bits leave more equal low bits.
LEMMA ForwardRun ==
  ASSUME NEW c \in Word, NEW d \in Word, c % 256 = d % 256,
         \A n \in 0 .. 7 : Top(Run(c)[n]) <=> Top(Run(d)[n])
  PROVE  Run(c)[8] = Run(d)[8]
  <1> DEFINE S == {n \in Nat : n <= 8 =>
                     Run(c)[n] % Pow[n + 8] = Run(d)[n] % Pow[n + 8]}
  <1>1. 0 \in S
    BY RunIs, PowIs
  <1>2. \A n \in S : n \in Nat /\ n < 8 => n + 1 \in S
    <2>1. ASSUME NEW n \in S, n < 8
          PROVE  Run(c)[n + 1] % Pow[n + 9] = Run(d)[n + 1] % Pow[n + 9]
      <3>1. /\ n \in 0 .. 7 /\ n \in 0 .. 8 /\ n + 8 \in 0 .. 15
            /\ (n + 8) + 1 = n + 9
        BY <2>1
      <3>2. Run(c)[n] % Pow[n + 8] = Run(d)[n] % Pow[n + 8]
        BY <2>1
      <3>3. /\ Pow[n + 9] = 2 * Pow[n + 8] /\ Pow[n + 8] \in WordPowers
            /\ Pow[n + 8] # 65536
        BY <3>1, PowStep
      <3>4. /\ Run(c)[n] \in Word /\ Run(d)[n] \in Word
            /\ Run(c)[n + 1] = CrcShift(Run(c)[n])
            /\ Run(d)[n + 1] = CrcShift(Run(d)[n])
        BY <3>1, RunType, RunIs
      <3>5. Top(Run(c)[n]) <=> Top(Run(d)[n])
        BY <3>1
      <3>6. QED  BY <3>2, <3>3, <3>4, <3>5, ShiftForward
    <2>2. ASSUME NEW n \in S, n < 8 PROVE n + 1 \in S
      <3>1. n \in Nat /\ (n + 1) + 8 = n + 9 /\ n + 1 \in Nat
        BY <2>2
      <3>2. QED  BY <2>1, <2>2, <3>1
    <2>3. QED  BY <2>2
  <1> HIDE DEF S
  <1>3. 0 .. 8 \subseteq S
    BY <1>1, <1>2, UpToInduction
  <1>4. Run(c)[8] % Pow[8 + 8] = Run(d)[8] % Pow[8 + 8]
    BY <1>3 DEF S
  <1>5. Run(c)[8] % 65536 = Run(d)[8] % 65536
    <2>1. 8 + 8 = 16
      OBVIOUS
    <2>2. QED  BY <1>4, <2>1, PowIs
  <1>6. Run(c)[8] \in Word /\ Run(d)[8] \in Word
    BY RunType
  <1>7. \A w \in Word : w % 65536 = w
    BY WordIs
  <1>8. QED  BY <1>5, <1>6, <1>7

\* Upward: equal high bits shift out as equal top bits.
LEMMA UpRun ==
  ASSUME NEW c \in Word, NEW d \in Word, NEW j \in 0 .. 16,
         c \div Pow[j] = d \div Pow[j]
  PROVE  \A n \in 0 .. 7 : n + j <= 15 => (Top(Run(c)[n]) <=> Top(Run(d)[n]))
  <1> DEFINE S == {n \in Nat : n <= 8 /\ n + j <= 16 =>
                     Run(c)[n] \div Pow[n + j] = Run(d)[n] \div Pow[n + j]}
  <1>1. 0 \in S
    <2>1. 0 + j = j
      OBVIOUS
    <2>2. QED  BY <2>1, RunIs
  <1>2. ASSUME NEW n \in S, n <= 7, n + j <= 15
        PROVE  /\ Top(Run(c)[n]) <=> Top(Run(d)[n])
               /\ Run(c)[n + 1] \div Pow[(n + j) + 1]
                    = Run(d)[n + 1] \div Pow[(n + j) + 1]
    <2>1. n \in 0 .. 7 /\ n \in 0 .. 8 /\ n + j \in 0 .. 15
      BY <1>2
    <2>2. Run(c)[n] \div Pow[n + j] = Run(d)[n] \div Pow[n + j]
      BY <1>2
    <2>3. /\ Pow[(n + j) + 1] = 2 * Pow[n + j] /\ Pow[n + j] \in WordPowers
          /\ Pow[n + j] # 65536
      BY <2>1, PowStep
    <2>4. /\ Run(c)[n] \in Word /\ Run(d)[n] \in Word
          /\ Run(c)[n + 1] = CrcShift(Run(c)[n])
          /\ Run(d)[n + 1] = CrcShift(Run(d)[n])
      BY <2>1, RunType, RunIs
    <2>5. QED  BY <2>2, <2>3, <2>4, ShiftUpward
  <1>3. \A n \in S : n \in Nat /\ n < 8 => n + 1 \in S
    <2>1. ASSUME NEW n \in S, n < 8 PROVE n + 1 \in S
      <3>1. n \in Nat /\ (n + 1) + j = (n + j) + 1 /\ n + 1 \in Nat
        BY <2>1
      <3>2. QED  BY <1>2, <2>1, <3>1
    <2>2. QED  BY <2>1
  <1>4. 0 .. 8 \subseteq S
    <2> HIDE DEF S
    <2>1. QED  BY <1>1, <1>3, UpToInduction
  <1> HIDE DEF S
  <1>5. QED  BY <1>2, <1>4

\* The loop over the bits can be undone.
LEMMA RunInjective ==
  ASSUME NEW c \in Word, NEW d \in Word, Run(c)[8] = Run(d)[8]
  PROVE  c = d
  <1>1. 8 \in 0 .. 8 /\ 8 - 8 = 0
    OBVIOUS
  <1> DEFINE S == {t \in Nat : t <= 8 => Run(c)[8 - t] = Run(d)[8 - t]}
  <1>3. 0 \in S
    OBVIOUS
  <1>4. \A t \in S : t \in Nat /\ t < 8 => t + 1 \in S
    <2>1. ASSUME NEW t \in S, t < 8
          PROVE  Run(c)[8 - (t + 1)] = Run(d)[8 - (t + 1)]
      <3> DEFINE n == 8 - (t + 1)
      <3>1. n \in 0 .. 7 /\ n \in 0 .. 8 /\ n + 1 = 8 - t
        BY <2>1
      <3>2. Run(c)[8 - t] = Run(d)[8 - t]
        BY <2>1
      <3> HIDE DEF n
      <3>3. /\ Run(c)[8 - t] = CrcShift(Run(c)[n])
            /\ Run(d)[8 - t] = CrcShift(Run(d)[n])
            /\ Run(c)[n] \in Word /\ Run(d)[n] \in Word
        BY <3>1, RunIs, RunType
      <3>4. Run(c)[n] = Run(d)[n]
        BY <3>2, <3>3, ShiftInjective
      <3>5. QED  BY <3>4 DEF n
    <2>2. QED  BY <2>1
  <1> HIDE DEF S
  <1>5. 0 .. 8 \subseteq S
    BY <1>3, <1>4, UpToInduction
  <1>6. Run(c)[8 - 8] = Run(d)[8 - 8]
    BY <1>5 DEF S
  <1>7. QED  BY <1>1, <1>6, RunIs
-----------------------------------------------------------------------------
(***************************************************************************)
(* The loop over the bytes, and the errors it cannot miss.                 *)
(***************************************************************************)
\* A byte goes into the high byte of the CRC.
LEMMA CrcInputIs ==
  ASSUME NEW c \in Word, NEW b \in Octet
  PROVE  /\ CrcInput(c, b) \in Word
         /\ CrcInput(c, b) \div 256 = XorByte(c \div 256, b)
         /\ CrcInput(c, b) % 256 = c % 256
  <1>1. c \div 256 \in Octet /\ c % 256 \in Octet
    BY HalfWord
  <1>2. XorByte(c \div 256, b) \in Octet
    BY <1>1, XorByteNibbles
  <1>3. QED  BY <1>1, <1>2, JoinedBytes DEF CrcInput

\* One byte more: the input, and the eight passes.
LEMMA CrcByteIs ==
  ASSUME NEW c \in Word, NEW b \in Octet
  PROVE  /\ CrcByte(b)[c] = Run(CrcInput(c, b))[8]
         /\ CrcByte(b)[c] \in Word
  <1>1. CrcByte(b)[c] = CrcShifts(CrcInput(c, b))
    BY DEF CrcByte
  <1>2. CrcInput(c, b) \in Word
    BY CrcInputIs
  <1>3. 8 \in 0 .. 8
    OBVIOUS
  <1>4. QED  BY <1>1, <1>2, <1>3, RunIs, RunType

\* One byte more: from the CRC and either the byte or the CRC before it, the
\* other can be told.
LEMMA CrcByteInjective ==
  ASSUME NEW c \in Word, NEW d \in Word, NEW a \in Octet, NEW b \in Octet,
         CrcByte(a)[c] = CrcByte(b)[d]
  PROVE  /\ CrcInput(c, a) = CrcInput(d, b)
         /\ c = d => a = b
         /\ a = b => c = d
  <1>1. CrcInput(c, a) = CrcInput(d, b)
    <2>1. CrcInput(c, a) \in Word /\ CrcInput(d, b) \in Word
      BY CrcInputIs
    <2>2. Run(CrcInput(c, a))[8] = Run(CrcInput(d, b))[8]
      BY CrcByteIs
    <2>3. QED  BY <2>1, <2>2, RunInjective
  <1>2. /\ XorByte(c \div 256, a) = XorByte(d \div 256, b)
        /\ c % 256 = d % 256
    BY <1>1, CrcInputIs
  <1>3. c \div 256 \in Octet /\ d \div 256 \in Octet
    BY HalfWord
  <1>4. c = d => a = b
    BY <1>2, <1>3, ByteInjective
  <1>5. a = b => c = d
    <2>1. ASSUME a = b PROVE c \div 256 = d \div 256
      BY <1>2, <1>3, <2>1, ByteInjective
    <2>2. /\ c = 256 * (c \div 256) + (c % 256)
          /\ d = 256 * (d \div 256) + (d % 256)
      BY HalfWord
    <2>3. QED  BY <1>2, <2>1, <2>2
  <1>6. QED  BY <1>1, <1>4, <1>5

\* The cut k of a byte is the cut 8 + k of a word.
LEMMA SumPowers ==
  ASSUME NEW k \in 0 .. 8
  PROVE  /\ Pow[k] \in BytePowers /\ Pow[k] \in WordPowers
         /\ Pow[k + 8] = 256 * Pow[k]
         /\ k + 8 \in 0 .. 16 /\ k \in 0 .. 16
  <1>1. Pow[k] \in BytePowers /\ Pow[k + 8] = 256 * Pow[k]
    BY PowStep
  <1>2. Pow[k] \in WordPowers
    <2>1. k \in 0 .. 15
      OBVIOUS
    <2>2. QED  BY <2>1, PowStep
  <1>3. QED  BY <1>1, <1>2

(***************************************************************************)
(* Three bytes in a row that differ in at most 16 bits in a row: the last  *)
(* 8 - k of the first, all of the second, the first k of the third; and    *)
(* the CRC after them is the same.                                         *)
(***************************************************************************)
UnnoticedBurst(c, k, a1, a2, a3, b1, b2, b3) ==
  /\ a1 \div Pow[k] = b1 \div Pow[k] /\ a3 % Pow[k] = b3 % Pow[k]
  /\ CrcByte(a3)[CrcByte(a2)[CrcByte(a1)[c]]]
       = CrcByte(b3)[CrcByte(b2)[CrcByte(b1)[c]]]

\* A burst over three bytes changes the CRC after them.
LEMMA BurstChangesCrc ==
  ASSUME NEW c \in Word, NEW k \in 0 .. 8,
         NEW a1 \in Octet, NEW a2 \in Octet, NEW a3 \in Octet,
         NEW b1 \in Octet, NEW b2 \in Octet, NEW b3 \in Octet,
         UnnoticedBurst(c, k, a1, a2, a3, b1, b2, b3)
  PROVE  a1 = b1 /\ a2 = b2 /\ a3 = b3
  <1> DEFINE p1 == CrcByte(a1)[c]
             q1 == CrcByte(b1)[c]
             p2 == CrcByte(a2)[p1]
             q2 == CrcByte(b2)[q1]
             x1 == CrcInput(c, a1)
             y1 == CrcInput(c, b1)
             x2 == CrcInput(p1, a2)
             y2 == CrcInput(q1, b2)
  <1>1. p1 \in Word /\ q1 \in Word
    BY CrcByteIs
  <1>2. p2 \in Word /\ q2 \in Word
    BY <1>1, CrcByteIs
  <1>3. x1 \in Word /\ y1 \in Word /\ x2 \in Word /\ y2 \in Word
    BY <1>1, CrcInputIs
  <1>4. p1 = Run(x1)[8] /\ q1 = Run(y1)[8] /\ p2 = Run(x2)[8] /\ q2 = Run(y2)[8]
    BY <1>1, CrcByteIs
  <1>5. /\ x1 \div 256 = XorByte(c \div 256, a1) /\ x1 % 256 = c % 256
        /\ y1 \div 256 = XorByte(c \div 256, b1) /\ y1 % 256 = c % 256
    BY CrcInputIs
  <1>6. x2 % 256 = p1 % 256 /\ y2 % 256 = q1 % 256
    BY <1>1, CrcInputIs
  <1>7. CrcByte(a3)[p2] = CrcByte(b3)[q2]
    BY DEF UnnoticedBurst
  <1>8. /\ x1 = y1 => a1 = b1
        /\ p1 = q1 /\ x2 = y2 => a2 = b2
        /\ p1 = q1 => x1 = y1
    <2>1. p1 = q1 => x1 = y1
      BY CrcByteInjective
    <2>2. ASSUME x1 = y1 PROVE a1 = b1
      <3>1. c \div 256 \in Octet
        BY HalfWord
      <3>2. QED  BY <1>5, <2>2, <3>1, ByteInjective
    <2>3. ASSUME p1 = q1, x2 = y2 PROVE a2 = b2
      <3>1. p1 \div 256 \in Octet
        BY <1>1, HalfWord
      <3>2. /\ x2 \div 256 = XorByte(p1 \div 256, a2)
            /\ y2 \div 256 = XorByte(q1 \div 256, b2)
        <4> HIDE DEF p1, q1
        <4>1. QED  BY <1>1, CrcInputIs
      <3>3. XorByte(p1 \div 256, a2) = XorByte(p1 \div 256, b2)
        BY <2>3, <3>2, Zenon
      <3>4. QED  BY <3>1, <3>3, ByteInjective
    <2>4. QED  BY <2>1, <2>2, <2>3
  <1> HIDE DEF p1, q1, p2, q2, x1, y1, x2, y2
  <1> DEFINE m == Pow[k]
  <1>9. /\ m \in BytePowers /\ m \in WordPowers /\ Pow[k + 8] = 256 * m
        /\ k + 8 \in 0 .. 16 /\ k \in 0 .. 16
    BY SumPowers
  <1>10. a1 \div m = b1 \div m /\ a3 % m = b3 % m
    BY DEF UnnoticedBurst
  \* The CRCs after the second byte agree in the low k + 8 bits.
  <1>11. p2 % Pow[k + 8] = q2 % Pow[k + 8]
    <2>1. CrcInput(p2, a3) = CrcInput(q2, b3)
      BY <1>2, <1>7, CrcByteInjective
    <2>2. /\ XorByte(p2 \div 256, a3) = XorByte(q2 \div 256, b3)
          /\ p2 % 256 = q2 % 256
      BY <1>2, <2>1, CrcInputIs
    <2>3. p2 \div 256 \in Octet /\ q2 \div 256 \in Octet
      BY <1>2, HalfWord
    <2> HIDE DEF m
    <2>4. XorByte(p2 \div 256, a3) % m = XorByte(q2 \div 256, b3) % m
      BY <2>2
    <2>5. (p2 \div 256) % m = (q2 \div 256) % m
      BY <1>9, <1>10, <2>3, <2>4, ByteCancels
    <2>6. QED  BY <1>2, <1>9, <2>2, <2>5, SameWordRemainder
  \* So all top bits of the second byte agree, and what they leave.
  <1>12. /\ \A n \in 0 .. 7 : Top(Run(x2)[n]) <=> Top(Run(y2)[n])
         /\ x2 % m = y2 % m
    <2> DEFINE j == k + 8
    <2>0. /\ j \in 0 .. 16 /\ j - 8 = k /\ 8 - 8 = 0 /\ 8 \in 0 .. 8
          /\ \A n \in 0 .. 7 : 8 - n <= j
          /\ 8 <= j
      OBVIOUS
    <2>00. Run(x2)[8] % Pow[j] = Run(y2)[8] % Pow[j]
      BY <1>4, <1>11
    <2> HIDE DEF j
    <2>1. \A t \in 0 .. 8 : t <= j =>
            /\ Run(x2)[8 - t] % Pow[j - t] = Run(y2)[8 - t] % Pow[j - t]
            /\ t >= 1 => (Top(Run(x2)[8 - t]) <=> Top(Run(y2)[8 - t]))
      BY <1>3, <2>0, <2>00, BackRun
    <2>2. Run(x2)[8 - 8] % Pow[j - 8] = Run(y2)[8 - 8] % Pow[j - 8]
      BY <2>0, <2>1
    <2>3. Run(x2)[0] % Pow[k] = Run(y2)[0] % Pow[k]
      BY <2>0, <2>2
    <2>4. x2 % m = y2 % m
      BY <2>3, RunIs
    <2>5. ASSUME NEW n \in 0 .. 7
          PROVE  Top(Run(x2)[n]) <=> Top(Run(y2)[n])
      <3>1. /\ 8 - n \in 0 .. 8 /\ 8 - n <= j /\ 8 - n >= 1
            /\ 8 - (8 - n) = n
        BY <2>0
      <3>2. QED  BY <2>1, <3>1
    <2>6. QED  BY <2>4, <2>5
  \* The CRCs after the first byte agree in the low k bits.
  <1>13. p1 % Pow[k] = q1 % Pow[k]
    <2> HIDE DEF m
    <2>1. p1 % m = (p1 % 256) % m /\ q1 % m = (q1 % 256) % m
      BY <1>1, <1>9, WordLow
    <2>2. x2 % m = (x2 % 256) % m /\ y2 % m = (y2 % 256) % m
      BY <1>3, <1>9, WordLow
    <2>3. p1 % m = q1 % m
      BY <1>6, <1>12, <2>1, <2>2
    <2>4. QED  BY <2>3 DEF m
  \* Its last k top bits agree for that reason, the first 8 - k ones because
  \* the bytes do.
  <1>14. \A n \in 0 .. 7 : Top(Run(x1)[n]) <=> Top(Run(y1)[n])
    <2>1. \A t \in 0 .. 8 : t <= k =>
            (t >= 1 => (Top(Run(x1)[8 - t]) <=> Top(Run(y1)[8 - t])))
      BY <1>3, <1>4, <1>9, <1>13, BackRun
    <2>2. x1 \div Pow[k + 8] = y1 \div Pow[k + 8]
      <3> HIDE DEF m
      <3>1. c \div 256 \in Octet
        BY HalfWord
      <3>2. XorByte(c \div 256, a1) \div m = XorByte(c \div 256, b1) \div m
        BY <1>9, <1>10, <3>1, ByteKeepsHigh
      <3>3. /\ x1 \div (256 * m) = (x1 \div 256) \div m
            /\ y1 \div (256 * m) = (y1 \div 256) \div m
        BY <1>3, <1>9, WordHigh
      <3>4. QED  BY <1>5, <1>9, <3>2, <3>3
    <2>3. \A n \in 0 .. 7 : n + (k + 8) <= 15 =>
            (Top(Run(x1)[n]) <=> Top(Run(y1)[n]))
      BY <1>3, <1>9, <2>2, UpRun
    <2>4. ASSUME NEW n \in 0 .. 7
          PROVE  Top(Run(x1)[n]) <=> Top(Run(y1)[n])
      <3>1. CASE n + (k + 8) <= 15
        BY <2>3, <3>1
      <3>2. CASE ~(n + (k + 8) <= 15)
        <4>1. /\ 8 - n \in 0 .. 8 /\ 8 - n <= k /\ 8 - n >= 1
              /\ 8 - (8 - n) = n
          BY <3>2
        <4>2. QED  BY <2>1, <4>1
      <3>3. QED  BY <3>1, <3>2
    <2>5. QED  BY <2>4
  <1>15. p1 = q1 /\ x1 = y1
    <2>1. x1 % 256 = y1 % 256
      BY <1>5
    <2>2. p1 = q1
      BY <1>3, <1>4, <1>14, <2>1, ForwardRun
    <2>3. QED  BY <1>8, <2>2
  <1>16. p2 = q2 /\ x2 = y2
    <2>1. x2 % 256 = y2 % 256
      BY <1>6, <1>15
    <2>2. p2 = q2
      BY <1>3, <1>4, <1>12, <2>1, ForwardRun
    <2>3. x2 = y2
      BY <1>3, <1>4, <2>2, RunInjective
    <2>4. QED  BY <2>2, <2>3
  <1>17. a3 = b3
    BY <1>2, <1>7, <1>16, CrcByteInjective
  <1>18. QED  BY <1>8, <1>15, <1>16, <1>17

(***************************************************************************)
(* The loop over the bytes.                                                *)
(***************************************************************************)
\* The CRC of each prefix, from the one before.
LEMMA CrcUpToIs ==
  ASSUME NEW s \in Seq(Octet)
  PROVE  /\ CrcUpTo(s)[0] = 65535
         /\ \A n \in 1 .. Len(s) :
              CrcUpTo(s)[n] = CrcByte(s[n])[CrcUpTo(s)[n - 1]]
         /\ \A n \in 0 .. Len(s) : CrcUpTo(s)[n] \in Word
  <1> DEFINE Loop(n, crc) == IF n = 0 THEN 65535 ELSE CrcByte(s[n])[crc]
             Part(f, m) == f = [n \in 0 .. m |-> Loop(n, f[n - 1])]
             S == {m \in Nat : \E f : Part(f, m)}
             N == Len(s)
  <1>1. N \in Nat
    OBVIOUS
  <1>2. 0 \in S
    <2>1. Part([n \in 0 .. 0 |-> 65535], 0)
      OBVIOUS
    <2> HIDE DEF Part
    <2>2. QED  BY <2>1
  <1>3. \A m \in S : m \in Nat /\ m < N => m + 1 \in S
    <2>1. ASSUME NEW m \in Nat, NEW f, Part(f, m) PROVE m + 1 \in S
      <3> DEFINE g == [n \in 0 .. (m + 1) |->
                         IF n <= m THEN f[n] ELSE CrcByte(s[n])[f[m]]]
      <3>1. ASSUME NEW n \in 0 .. (m + 1) PROVE g[n] = Loop(n, g[n - 1])
        <4>1. CASE n = 0
          BY <2>1, <4>1
        <4>2. CASE n \in 1 .. m
          BY <2>1, <4>2
        <4>3. CASE n = m + 1
          BY <2>1, <4>3
        <4>4. QED  BY <4>1, <4>2, <4>3
      <3>2. g = [n \in 0 .. (m + 1) |-> Loop(n, g[n - 1])]
        <4> HIDE DEF Loop
        <4>1. QED  BY <3>1
      <3>3. Part(g, m + 1) /\ m + 1 \in Nat
        BY <3>2
      <3> HIDE DEF Part, g
      <3>4. QED  BY <3>3
    <2> HIDE DEF Part
    <2>2. \A m \in S : m \in Nat /\ \E f : Part(f, m)
      OBVIOUS
    <2> HIDE DEF S
    <2>3. QED  BY <2>1, <2>2
  <1>4. \E f : Part(f, N)
    <2> HIDE DEF S, N
    <2>1. 0 .. N \subseteq S
      BY <1>1, <1>2, <1>3, UpToInduction
    <2>2. N \in S
      BY <1>1, <2>1
    <2>3. QED  BY <2>2 DEF S
  <1>5. Part(CrcUpTo(s), N)
    <2>1. CrcUpTo(s) = CHOOSE f : Part(f, N)
      BY SMTT(30) DEF CrcUpTo
    <2> HIDE DEF Part
    <2>2. QED  BY ONLY <1>4, <2>1
  <1> DEFINE u == CrcUpTo(s)
  <1>6. u[0] = 65535 /\ \A n \in 1 .. N : u[n] = CrcByte(s[n])[u[n - 1]]
    BY <1>1, <1>5
  <1> HIDE DEF u
  <1> DEFINE T == {n \in Nat : n <= N => u[n] \in Word}
  <1>7. 0 \in T
    BY <1>6, WordIs
  <1>8. \A n \in T : n \in Nat /\ n < N => n + 1 \in T
    <2>1. ASSUME NEW n \in T, n < N PROVE u[n + 1] \in Word
      <3>1. /\ n \in Nat /\ n + 1 \in 1 .. N /\ (n + 1) - 1 = n
            /\ u[n] \in Word /\ s[n + 1] \in Octet
        BY <1>1, <2>1
      <3>2. u[n + 1] = CrcByte(s[n + 1])[u[n]]
        BY <1>6, <3>1
      <3>3. QED  BY <3>1, <3>2, CrcByteIs
    <2>2. QED  BY <2>1
  <1>9. \A n \in 0 .. N : u[n] \in Word
    <2> HIDE DEF T, N
    <2>1. 0 .. N \subseteq T
      BY <1>1, <1>7, <1>8, UpToInduction
    <2>2. QED  BY <2>1 DEF T
  <1>10. QED  BY <1>6, <1>9 DEF u

\* The CRC is that of the longest prefix, and it is a word.
LEMMA CrcIs ==
  ASSUME NEW s \in Seq(Octet)
  PROVE  CalculateCrc16(s) = CrcUpTo(s)[Len(s)] /\ CalculateCrc16(s) \in Word
  BY CrcUpToIs DEF CalculateCrc16

(***************************************************************************)
(* An error burst of at most 16 bits anywhere in a sequence of bytes       *)
(* changes its CRC.                                                        *)
(***************************************************************************)
\* No burst of 16 bits escapes the CRC: two sequences of bytes that differ in
\* at most three bytes in a row, in the first of them below bit k and in the
\* last from bit k on, have the same CRC only if they are equal.  This is
\* calculate_crc16, for messages of every length.
THEOREM BurstIsNoticed ==
  ASSUME NEW s \in Seq(Octet), NEW t \in Seq(Octet), Len(s) = Len(t),
         NEW i \in Nat, 1 <= i, i + 2 <= Len(s), NEW k \in 0 .. 8,
         \A j \in 1 .. Len(s) : j < i \/ j > i + 2 => s[j] = t[j],
         s[i] \div Pow[k] = t[i] \div Pow[k],
         s[i + 2] % Pow[k] = t[i + 2] % Pow[k],
         CalculateCrc16(s) = CalculateCrc16(t)
  PROVE  s = t
  <1> DEFINE u == CrcUpTo(s)
             v == CrcUpTo(t)
             N == Len(s)
  <1>1. /\ N \in Nat /\ N = Len(t)
        /\ \A n \in 1 .. N : s[n] \in Octet /\ t[n] \in Octet
    OBVIOUS
  <1>2. /\ u[0] = 65535 /\ v[0] = 65535
        /\ \A n \in 1 .. N : /\ u[n] = CrcByte(s[n])[u[n - 1]]
                             /\ v[n] = CrcByte(t[n])[v[n - 1]]
        /\ \A n \in 0 .. N : u[n] \in Word /\ v[n] \in Word
    BY <1>1, CrcUpToIs
  <1>3. u[N] = v[N]
    BY <1>1, CrcIs
  <1> HIDE DEF u, v, N
  <1>4. \A n \in 1 .. N : n < i \/ n > i + 2 => s[n] = t[n]
    BY DEF N
  \* The same CRC before the burst ...
  <1>5. u[i - 1] = v[i - 1]
    <2> DEFINE S == {n \in Nat : n <= i - 1 => u[n] = v[n]}
    <2>1. 0 \in S
      BY <1>2
    <2>2. \A n \in S : n \in Nat /\ n < i - 1 => n + 1 \in S
      <3>1. ASSUME NEW n \in S, n < i - 1 PROVE u[n + 1] = v[n + 1]
        <4>1. /\ n \in Nat /\ n + 1 \in 1 .. N /\ (n + 1) - 1 = n
              /\ n + 1 < i /\ u[n] = v[n]
          BY <1>1, <3>1 DEF N
        <4>2. s[n + 1] = t[n + 1]
          BY <1>4, <4>1
        <4>3. QED  BY <1>2, <4>1, <4>2
      <3>2. QED  BY <3>1
    <2>3. i - 1 \in Nat
      OBVIOUS
    <2> HIDE DEF S
    <2>4. 0 .. (i - 1) \subseteq S
      BY <2>1, <2>2, <2>3, UpToInduction
    <2>5. QED  BY <2>3, <2>4 DEF S
  \* ... and after it, because equal bytes never make different CRCs equal.
  <1>6. u[i + 2] = v[i + 2]
    <2> DEFINE M == N - (i + 2)
               S == {n \in Nat : n <= M => u[N - n] = v[N - n]}
    <2>1. M \in Nat
      BY <1>1 DEF N
    <2>2. 0 \in S
      BY <1>1, <1>3
    <2>3. \A n \in S : n \in Nat /\ n < M => n + 1 \in S
      <3>1. ASSUME NEW n \in S, n < M PROVE u[N - (n + 1)] = v[N - (n + 1)]
        <4> DEFINE p == N - n
        <4>1. /\ p \in 1 .. N /\ p - 1 = N - (n + 1) /\ p - 1 \in 0 .. N
              /\ p > i + 2 /\ u[p] = v[p]
          BY <1>1, <3>1
        <4> HIDE DEF p
        <4>2. s[p] = t[p] /\ s[p] \in Octet /\ t[p] \in Octet
          BY <1>1, <1>4, <4>1
        <4>3. CrcByte(s[p])[u[p - 1]] = CrcByte(t[p])[v[p - 1]]
          BY <1>2, <4>1
        <4>4. u[p - 1] = v[p - 1]
          BY <1>2, <4>1, <4>2, <4>3, CrcByteInjective
        <4>5. QED  BY <4>1, <4>4
      <3>2. QED  BY <3>1
    <2> HIDE DEF S
    <2>4. 0 .. M \subseteq S
      <3> HIDE DEF M
      <3>1. QED  BY <2>1, <2>2, <2>3, UpToInduction
    <2>5. M \in 0 .. M /\ N - M = i + 2
      BY <1>1, <2>1
    <2>6. QED
      <3> HIDE DEF M
      <3>1. QED  BY <2>1, <2>4, <2>5 DEF S
  <1>7. s[i] = t[i] /\ s[i + 1] = t[i + 1] /\ s[i + 2] = t[i + 2]
    <2>1. /\ i \in 1 .. N /\ i + 1 \in 1 .. N /\ i + 2 \in 1 .. N
          /\ (i + 1) - 1 = i /\ (i + 2) - 1 = i + 1 /\ i - 1 \in 0 .. N
      BY <1>1 DEF N
    <2>2. /\ u[i + 2] =
               CrcByte(s[i + 2])[CrcByte(s[i + 1])[CrcByte(s[i])[u[i - 1]]]]
          /\ v[i + 2] =
               CrcByte(t[i + 2])[CrcByte(t[i + 1])[CrcByte(t[i])[u[i - 1]]]]
      BY <1>2, <1>5, <2>1
    <2> DEFINE c == u[i - 1]
               a1 == s[i]    a2 == s[i + 1]    a3 == s[i + 2]
               b1 == t[i]    b2 == t[i + 1]    b3 == t[i + 2]
    <2>3. /\ c \in Word /\ a1 \in Octet /\ a2 \in Octet /\ a3 \in Octet
          /\ b1 \in Octet /\ b2 \in Octet /\ b3 \in Octet
      BY <1>1, <1>2, <2>1
    <2>4. UnnoticedBurst(c, k, a1, a2, a3, b1, b2, b3)
      BY <1>6, <2>2 DEF UnnoticedBurst
    <2> HIDE DEF c, a1, a2, a3, b1, b2, b3
    <2>5. a1 = b1 /\ a2 = b2 /\ a3 = b3
      BY <2>3, <2>4, BurstChangesCrc
    <2>6. QED  BY <2>5 DEF a1, a2, a3, b1, b2, b3
  <1>8. \A n \in 1 .. N : s[n] = t[n]
    <2>1. \A n \in 1 .. N :
            n < i \/ n > i + 2 \/ n = i \/ n = i + 1 \/ n = i + 2
      OBVIOUS
    <2>2. QED  BY <1>4, <1>7, <2>1
  <1>9. QED  BY <1>1, <1>8 DEF N
-----------------------------------------------------------------------------
(***************************************************************************)
(* encode and decode.                                                      *)
(***************************************************************************)
\* write_uint16_le takes a word apart ...
LEMMA LittleEndian ==
  ASSUME NEW w \in Word
  PROVE  /\ w % 256 \in Octet /\ w \div 256 \in Octet
         /\ (w % 256) + 256 * (w \div 256) = w
  <1>1. w = 256 * (w \div 256) + (w % 256)
    BY HalfWord
  <1>2. w % 256 \in Octet /\ w \div 256 \in Octet
    BY HalfWord
  <1>3. w % 256 \in Int /\ w \div 256 \in Int
    BY <1>2, OctetIs
  <1>4. QED  BY <1>1, <1>2, <1>3

\* ... and read_uint16_le puts it together.
LEMMA BigEndian ==
  ASSUME NEW p \in Octet, NEW r \in Octet
  PROVE  /\ r + 256 * p \in Word
         /\ (r + 256 * p) % 256 = r /\ (r + 256 * p) \div 256 = p
  <1>1. p \in Int /\ r \in Int
    BY OctetIs
  <1>2. r + 256 * p = p * 256 + r
    BY <1>1
  <1>3. QED  BY <1>2, JoinedBytes

\* Two bytes behind a sequence, in the order of the wire.
LEMMA CrcField ==
  ASSUME NEW s \in Seq(Octet), NEW a \in Octet, NEW b \in Octet
  PROVE  LET p == s \o <<a, b>> IN
         /\ p \in Seq(Octet) /\ Len(p) = Len(s) + 2
         /\ \A i \in 1 .. Len(s) : p[i] = s[i]
         /\ p[Len(s) + 1] = a /\ p[Len(s) + 2] = b
         /\ SubSeq(p, 1, Len(s)) = s
  OBVIOUS

\* A sequence of bytes with its CRC behind it.
LEMMA WithCrcIs ==
  ASSUME NEW s \in Seq(Octet)
  PROVE  LET p == WithCrc(s) IN
         /\ p \in Seq(Octet) /\ Len(p) = Len(s) + 2
         /\ \A i \in 1 .. Len(s) : p[i] = s[i]
         /\ SubSeq(p, 1, Len(s)) = s
         /\ ReadUint16LittleEndian(p, Len(s)) = CalculateCrc16(s)
  <1> DEFINE crc == CalculateCrc16(s)
             lo == crc % 256
             hi == crc \div 256
             p == WithCrc(s)
  <1>1. lo \in Octet /\ hi \in Octet /\ lo + 256 * hi = crc
    BY CrcIs, LittleEndian
  <1>2. p = s \o <<lo, hi>>
    BY DEF WithCrc, Uint16LittleEndian
  <1> HIDE DEF crc, lo, hi, p
  <1>3. /\ p \in Seq(Octet) /\ Len(p) = Len(s) + 2
        /\ \A i \in 1 .. Len(s) : p[i] = s[i]
        /\ p[Len(s) + 1] = lo /\ p[Len(s) + 2] = hi
        /\ SubSeq(p, 1, Len(s)) = s
    BY <1>1, <1>2, CrcField
  <1>4. ReadUint16LittleEndian(p, Len(s)) = crc
    BY <1>1, <1>3 DEF ReadUint16LittleEndian
  <1>5. QED  BY <1>3, <1>4 DEF p, crc

\* What one sequence behind another holds.
LEMMA Joined ==
  ASSUME NEW S, NEW s \in Seq(S), NEW t \in Seq(S)
  PROVE  /\ s \o t \in Seq(S) /\ Len(s \o t) = Len(s) + Len(t)
         /\ \A i \in 1 .. Len(s) : (s \o t)[i] = s[i]
         /\ \A i \in 1 .. Len(t) : (s \o t)[Len(s) + i] = t[i]
  OBVIOUS

\* Three bytes behind a sequence.
LEMMA ThreeBytes ==
  ASSUME NEW s \in Seq(Octet), NEW a \in Octet, NEW b \in Octet,
         NEW c \in Octet
  PROVE  LET p == s \o <<a, b, c>> IN
         /\ p \in Seq(Octet) /\ Len(p) = Len(s) + 3
         /\ \A i \in 1 .. Len(s) : p[i] = s[i]
         /\ p[Len(s) + 1] = a /\ p[Len(s) + 2] = b /\ p[Len(s) + 3] = c
  OBVIOUS

\* The ten bytes of the header, from the pieces encode writes.
LEMMA HeaderBytes ==
  ASSUME NEW a1 \in Octet, NEW a2 \in Octet, NEW a3 \in Octet,
         NEW a4 \in Octet, NEW a5 \in Octet, NEW a6 \in Octet,
         NEW a7 \in Octet, NEW a8 \in Octet, NEW a9 \in Octet,
         NEW a10 \in Octet
  PROVE  LET h == <<a1, a2>> \o <<a3, a4, a5>> \o <<a6, a7>> \o <<a8, a9>>
                    \o <<a10>> IN
         /\ h \in Seq(Octet) /\ Len(h) = 10
         /\ h[1] = a1 /\ h[2] = a2 /\ h[3] = a3 /\ h[4] = a4 /\ h[5] = a5
         /\ h[6] = a6 /\ h[7] = a7 /\ h[8] = a8 /\ h[9] = a9 /\ h[10] = a10
  <1> DEFINE h1 == <<a1, a2>>        h2 == h1 \o <<a3, a4, a5>>
             h3 == h2 \o <<a6, a7>>  h4 == h3 \o <<a8, a9>>
             h5 == h4 \o <<a10>>
  <1>1. /\ h1 \in Seq(Octet) /\ Len(h1) = 2
        /\ h1[1] = a1 /\ h1[2] = a2
    OBVIOUS
  <1>2. h2 = h1 \o <<a3, a4, a5>> /\ h3 = h2 \o <<a6, a7>>
    OBVIOUS
  <1>3. h4 = h3 \o <<a8, a9>> /\ h5 = h4 \o <<a10>>
    OBVIOUS
  <1> HIDE DEF h1, h2, h3, h4, h5
  <1>4. /\ h2 \in Seq(Octet) /\ Len(h2) = 5
        /\ h2[1] = a1 /\ h2[2] = a2 /\ h2[3] = a3 /\ h2[4] = a4 /\ h2[5] = a5
    <2>1. /\ h2 \in Seq(Octet) /\ Len(h2) = Len(h1) + 3
          /\ \A i \in 1 .. Len(h1) : h2[i] = h1[i]
          /\ h2[Len(h1) + 1] = a3 /\ h2[Len(h1) + 2] = a4
          /\ h2[Len(h1) + 3] = a5
      <3>1. h1 \in Seq(Octet)
        BY <1>1
      <3>2. QED  BY ONLY <1>2, <3>1, ThreeBytes, a3 \in Octet, a4 \in Octet,
                         a5 \in Octet
    <2>2. QED  BY ONLY <1>1, <2>1
  <1>5. /\ h3 \in Seq(Octet) /\ Len(h3) = 7
        /\ h3[1] = a1 /\ h3[2] = a2 /\ h3[3] = a3 /\ h3[4] = a4 /\ h3[5] = a5
        /\ h3[6] = a6 /\ h3[7] = a7
    <2>1. /\ h3 \in Seq(Octet) /\ Len(h3) = Len(h2) + 2
          /\ \A i \in 1 .. Len(h2) : h3[i] = h2[i]
          /\ h3[Len(h2) + 1] = a6 /\ h3[Len(h2) + 2] = a7
      BY <1>2, <1>4, CrcField
    <2>2. QED  BY ONLY <1>4, <2>1
  <1>6. /\ h4 \in Seq(Octet) /\ Len(h4) = 9
        /\ h4[1] = a1 /\ h4[2] = a2 /\ h4[3] = a3 /\ h4[4] = a4 /\ h4[5] = a5
        /\ h4[6] = a6 /\ h4[7] = a7 /\ h4[8] = a8 /\ h4[9] = a9
    <2>1. /\ h4 \in Seq(Octet) /\ Len(h4) = Len(h3) + 2
          /\ \A i \in 1 .. Len(h3) : h4[i] = h3[i]
          /\ h4[Len(h3) + 1] = a8 /\ h4[Len(h3) + 2] = a9
      <3>1. h3 \in Seq(Octet)
        BY <1>5
      <3>2. QED  BY ONLY <1>3, <3>1, CrcField, a8 \in Octet, a9 \in Octet
    <2>2. QED  BY ONLY <1>5, <2>1
  <1>7. /\ h5 \in Seq(Octet) /\ Len(h5) = 10
        /\ h5[1] = a1 /\ h5[2] = a2 /\ h5[3] = a3 /\ h5[4] = a4 /\ h5[5] = a5
        /\ h5[6] = a6 /\ h5[7] = a7 /\ h5[8] = a8 /\ h5[9] = a9
        /\ h5[10] = a10
    BY <1>3, <1>6
  <1>8. QED  BY <1>7 DEF h1, h2, h3, h4, h5

\* What the CRC covers, byte by byte.
LEMMA HeaderAndPayloadIs ==
  ASSUME NEW m \in ProtocolMessage, Len(m.payload) <= MAX_PAYLOAD_SIZE
  PROVE  LET s == HeaderAndPayload(m) IN
         /\ s \in Seq(Octet) /\ Len(s) = 10 + Len(m.payload)
         /\ s[1] = 82 /\ s[2] = 67 /\ s[3] = 1 /\ s[4] = m.type
         /\ s[5] = m.flags
         /\ s[6] = m.sequence_number % 256
         /\ s[7] = m.sequence_number \div 256
         /\ s[8] = m.message_id % 256 /\ s[9] = m.message_id \div 256
         /\ s[10] = Len(m.payload)
         /\ \A i \in 1 .. Len(m.payload) : s[10 + i] = m.payload[i]
  <1> DEFINE a4 == m.type  a5 == m.flags
             a6 == m.sequence_number % 256  a7 == m.sequence_number \div 256
             a8 == m.message_id % 256       a9 == m.message_id \div 256
             p == m.payload  a10 == Len(p)
             h == <<82, 67>> \o <<1, a4, a5>> \o <<a6, a7>> \o <<a8, a9>>
                    \o <<a10>>
             s == HeaderAndPayload(m)
  <1>1. /\ a4 \in Octet /\ a5 \in Octet /\ a6 \in Octet /\ a7 \in Octet
        /\ a8 \in Octet /\ a9 \in Octet /\ p \in Seq(Octet)
    BY LittleEndian DEF ProtocolMessage
  <1>2. a10 \in Octet
    <2>1. a10 \in Nat /\ a10 <= 64
      BY <1>1 DEF MAX_PAYLOAD_SIZE
    <2> HIDE DEF a10
    <2>2. QED  BY <2>1, OctetIs
  <1>3. s = h \o p
    BY DEF HeaderAndPayload, MAGIC, PROTOCOL_VERSION, Uint16LittleEndian
  <1>4. a10 = Len(p)
    OBVIOUS
  <1>5. 82 \in Octet /\ 67 \in Octet /\ 1 \in Octet
    BY OctetIs
  <1> HIDE DEF a4, a5, a6, a7, a8, a9, p, a10
  <1>6. /\ h \in Seq(Octet) /\ Len(h) = 10
        /\ h[1] = 82 /\ h[2] = 67 /\ h[3] = 1 /\ h[4] = a4 /\ h[5] = a5
        /\ h[6] = a6 /\ h[7] = a7 /\ h[8] = a8 /\ h[9] = a9 /\ h[10] = a10
    BY <1>1, <1>2, <1>5, HeaderBytes
  <1> HIDE DEF h, s
  <1>7. /\ s \in Seq(Octet) /\ Len(s) = 10 + Len(p)
        /\ \A i \in 1 .. 10 : s[i] = h[i]
        /\ \A i \in 1 .. Len(p) : s[10 + i] = p[i]
    <2>1. /\ s \in Seq(Octet) /\ Len(s) = Len(h) + Len(p)
          /\ \A i \in 1 .. Len(h) : s[i] = h[i]
          /\ \A i \in 1 .. Len(p) : s[Len(h) + i] = p[i]
      <3>1. h \in Seq(Octet) /\ p \in Seq(Octet)
        BY <1>1, <1>6
      <3>2. /\ h \o p \in Seq(Octet) /\ Len(h \o p) = Len(h) + Len(p)
            /\ \A i \in 1 .. Len(h) : (h \o p)[i] = h[i]
            /\ \A i \in 1 .. Len(p) : (h \o p)[Len(h) + i] = p[i]
        BY ONLY <3>1, Joined
      <3>3. QED  BY ONLY <1>3, <3>2
    <2>2. QED  BY <1>6, <2>1
  <1>8. /\ s[1] = 82 /\ s[2] = 67 /\ s[3] = 1 /\ s[4] = a4 /\ s[5] = a5
        /\ s[6] = a6 /\ s[7] = a7 /\ s[8] = a8 /\ s[9] = a9
        /\ s[10] = Len(p)
    BY <1>4, <1>6, <1>7
  <1>9. QED  BY <1>7, <1>8 DEF a4, a5, a6, a7, a8, a9, p, s

\* What encode accepts, and what it writes.
LEMMA EncodeIs ==
  ASSUME NEW m \in ProtocolMessage, EncodeResultOf(m, MAX_PACKET_SIZE) = "Ok"
  PROVE  /\ IsValidMessageType(m.type) /\ AreValidFlags(m.flags)
         /\ Len(m.payload) <= MAX_PAYLOAD_SIZE
         /\ Encode(m, MAX_PACKET_SIZE) = WithCrc(HeaderAndPayload(m))
  <1>1. Encode(m, MAX_PACKET_SIZE) = WithCrc(HeaderAndPayload(m))
    BY DEF Encode
  <1>2. Len(m.payload) \in Nat
    BY DEF ProtocolMessage
  <1>3. QED  BY <1>1, <1>2 DEF EncodeResultOf, MAX_PAYLOAD_SIZE

\* What is enough for encode to accept.
LEMMA EncodeOk ==
  ASSUME NEW m \in ProtocolMessage, IsValidMessageType(m.type),
         AreValidFlags(m.flags), Len(m.payload) <= MAX_PAYLOAD_SIZE
  PROVE  EncodeResultOf(m, MAX_PACKET_SIZE) = "Ok"
  <1>1. Len(m.payload) \in Nat
    BY DEF ProtocolMessage
  <1>2. QED  BY <1>1 DEF EncodeResultOf, EncodedSize, MAX_PACKET_SIZE,
                         MAX_PAYLOAD_SIZE, HEADER_SIZE, CRC_SIZE

\* The packet that encode writes, field by field.
LEMMA EncodedBytes ==
  ASSUME NEW m \in ProtocolMessage, EncodeResultOf(m, MAX_PACKET_SIZE) = "Ok"
  PROVE  LET p == Encode(m, MAX_PACKET_SIZE)
             n == 10 + Len(m.payload) IN
         /\ n \in Nat /\ p \in Seq(Octet) /\ Len(p) = n + 2
         /\ SubSeq(p, 1, n) = HeaderAndPayload(m)
         /\ ReadUint16LittleEndian(p, n) = CalculateCrc16(HeaderAndPayload(m))
         /\ p[1] = 82 /\ p[2] = 67 /\ p[3] = 1 /\ p[4] = m.type
         /\ p[5] = m.flags
         /\ ReadUint16LittleEndian(p, 5) = m.sequence_number
         /\ ReadUint16LittleEndian(p, 7) = m.message_id
         /\ p[10] = Len(m.payload)
         /\ SubSeq(p, 11, n) = m.payload
  <1> DEFINE s == HeaderAndPayload(m)
             n == 10 + Len(m.payload)
             p == Encode(m, MAX_PACKET_SIZE)
             y == m.payload
  <1>1. Len(y) \in Nat /\ n \in Nat /\ y \in Seq(Octet)
    BY DEF ProtocolMessage
  <1>2. Len(m.payload) <= MAX_PAYLOAD_SIZE /\ p = WithCrc(s)
    BY EncodeIs
  <1>3. /\ s \in Seq(Octet) /\ Len(s) = n
        /\ s[1] = 82 /\ s[2] = 67 /\ s[3] = 1 /\ s[4] = m.type
        /\ s[5] = m.flags
        /\ s[6] = m.sequence_number % 256
        /\ s[7] = m.sequence_number \div 256
        /\ s[8] = m.message_id % 256 /\ s[9] = m.message_id \div 256
        /\ s[10] = Len(y)
        /\ \A i \in 1 .. Len(y) : s[10 + i] = y[i]
    BY <1>2, HeaderAndPayloadIs
  <1>4. n = 10 + Len(y)
    OBVIOUS
  <1> HIDE DEF s, n, p, y
  <1>5. /\ p \in Seq(Octet) /\ Len(p) = n + 2
        /\ \A i \in 1 .. n : p[i] = s[i]
        /\ SubSeq(p, 1, n) = s
        /\ ReadUint16LittleEndian(p, n) = CalculateCrc16(s)
    BY <1>2, <1>3, WithCrcIs
  <1>6. \A i \in 1 .. 10 : i \in 1 .. n
    BY <1>1, <1>4
  <1>7. /\ p[1] = 82 /\ p[2] = 67 /\ p[3] = 1 /\ p[4] = m.type
        /\ p[5] = m.flags /\ p[10] = Len(y)
    BY <1>3, <1>5, <1>6
  <1>8. /\ p[6] = m.sequence_number % 256
        /\ p[7] = m.sequence_number \div 256
        /\ p[8] = m.message_id % 256 /\ p[9] = m.message_id \div 256
    BY <1>3, <1>5, <1>6
  <1>9. /\ ReadUint16LittleEndian(p, 5) = m.sequence_number
        /\ ReadUint16LittleEndian(p, 7) = m.message_id
    <2>1. m.sequence_number \in Word /\ m.message_id \in Word
      BY DEF ProtocolMessage
    <2>2. 5 + 1 = 6 /\ 5 + 2 = 7 /\ 7 + 1 = 8 /\ 7 + 2 = 9
      OBVIOUS
    <2>3. /\ ReadUint16LittleEndian(p, 5) = p[6] + 256 * p[7]
          /\ ReadUint16LittleEndian(p, 7) = p[8] + 256 * p[9]
      BY <2>2 DEF ReadUint16LittleEndian
    <2>4. QED  BY <1>8, <2>1, <2>3, LittleEndian
  <1>10. SubSeq(p, 11, n) = y
    <2>1. \A i \in 1 .. Len(y) : p[10 + i] = y[i]
      BY <1>1, <1>3, <1>4, <1>5
    <2>2. QED  BY <1>1, <1>4, <1>5, <2>1
  <1>11. QED  BY <1>1, <1>5, <1>7, <1>9, <1>10 DEF s, n, p, y

\* A sequence of two is its two members.
LEMMA PairIs ==
  ASSUME NEW q \in Seq(Octet), Len(q) = 2
  PROVE  q = <<q[1], q[2]>>
  <1> DEFINE r == <<q[1], q[2]>>
  <1>1. q[1] \in Octet /\ q[2] \in Octet
    OBVIOUS
  <1>2. r \in Seq(Octet) /\ Len(r) = 2 /\ r[1] = q[1] /\ r[2] = q[2]
    BY <1>1
  <1> HIDE DEF r
  <1>3. \A i \in 1 .. 2 : q[i] = r[i]
    BY <1>2
  <1>4. q = r
    BY <1>2, <1>3
  <1>5. QED  BY <1>4 DEF r

\* The first two bytes of a packet.
LEMMA FirstTwo ==
  ASSUME NEW p \in Seq(Octet), Len(p) >= 2
  PROVE  SubSeq(p, 1, 2) = <<p[1], p[2]>>
  <1>1. /\ SubSeq(p, 1, 2) \in Seq(Octet) /\ Len(SubSeq(p, 1, 2)) = 2
        /\ SubSeq(p, 1, 2)[1] = p[1] /\ SubSeq(p, 1, 2)[2] = p[2]
    OBVIOUS
  <1>2. SubSeq(p, 1, 2) = <<SubSeq(p, 1, 2)[1], SubSeq(p, 1, 2)[2]>>
    BY <1>1, PairIs
  <1>3. QED  BY <1>1, <1>2

\* What decode found when it accepts.
LEMMA AcceptedPacket ==
  ASSUME NEW p, DecodeResultOf(p) = "Ok"
  PROVE  /\ Len(p) >= 12 /\ SubSeq(p, 1, 2) = <<82, 67>> /\ p[3] = 1
         /\ IsValidMessageType(p[4]) /\ AreValidFlags(p[5])
         /\ ~(p[10] > 64) /\ Len(p) = 10 + p[10] + 2
         /\ ReadUint16LittleEndian(p, 10 + p[10])
              = CalculateCrc16(SubSeq(p, 1, 10 + p[10]))
  <1>1. /\ ~(Len(p) < MIN_PACKET_SIZE) /\ SubSeq(p, 1, 2) = MAGIC
        /\ p[3] = PROTOCOL_VERSION
        /\ IsValidMessageType(p[4]) /\ AreValidFlags(p[5])
        /\ ~(p[10] > MAX_PAYLOAD_SIZE) /\ HasDeclaredLength(p)
        /\ ReadUint16LittleEndian(p, HEADER_SIZE + p[10])
              = CalculateCrc16(SubSeq(p, 1, HEADER_SIZE + p[10]))
    BY DEF DecodeResultOf
  <1>2. QED  BY <1>1 DEF MIN_PACKET_SIZE, MAGIC, PROTOCOL_VERSION, HEADER_SIZE,
                         CRC_SIZE, MAX_PAYLOAD_SIZE, HasDeclaredLength,
                         EncodedSize

\* What encode writes, decode accepts and gives back, field by field.
THEOREM RoundTrip ==
  ASSUME NEW m \in ProtocolMessage, EncodeResultOf(m, MAX_PACKET_SIZE) = "Ok",
         NEW other
  PROVE  /\ DecodeResultOf(Encode(m, MAX_PACKET_SIZE)) = "Ok"
         /\ Decode(Encode(m, MAX_PACKET_SIZE), other) = m
  <1> DEFINE s == HeaderAndPayload(m)
             n == 10 + Len(m.payload)
             p == Encode(m, MAX_PACKET_SIZE)
             y == m.payload
  <1>1. /\ n \in Nat /\ p \in Seq(Octet) /\ Len(p) = n + 2
        /\ SubSeq(p, 1, n) = s
        /\ ReadUint16LittleEndian(p, n) = CalculateCrc16(s)
        /\ p[1] = 82 /\ p[2] = 67 /\ p[3] = 1 /\ p[4] = m.type
        /\ p[5] = m.flags
        /\ ReadUint16LittleEndian(p, 5) = m.sequence_number
        /\ ReadUint16LittleEndian(p, 7) = m.message_id
        /\ p[10] = Len(y)
        /\ SubSeq(p, 11, n) = y
    BY EncodedBytes
  <1>2. /\ IsValidMessageType(m.type) /\ AreValidFlags(m.flags)
        /\ Len(y) <= 64 /\ Len(y) \in Nat
    BY EncodeIs DEF MAX_PAYLOAD_SIZE, ProtocolMessage
  <1>3. n = 10 + Len(y)
    OBVIOUS
  <1>4. m = [type |-> m.type, flags |-> m.flags,
             sequence_number |-> m.sequence_number,
             message_id |-> m.message_id, payload |-> y]
    BY DEF ProtocolMessage
  <1> HIDE DEF s, n, p, y
  <1>5. SubSeq(p, 1, 2) = <<82, 67>>
    <2>1. Len(p) >= 2
      BY <1>1, <1>2, <1>3
    <2>2. SubSeq(p, 1, 2) = <<p[1], p[2]>>
      BY <1>1, <2>1, FirstTwo
    <2>3. QED  BY ONLY <1>1, <2>2
  <1>6. DecodeResultOf(p) = "Ok"
    <2>1. ~(Len(p) < 12) /\ ~(p[10] > 64) /\ 10 + p[10] = n
          /\ Len(p) = 10 + p[10] + 2
      BY <1>1, <1>2, <1>3
    <2>2. /\ ~(Len(p) < MIN_PACKET_SIZE) /\ SubSeq(p, 1, 2) = MAGIC
          /\ p[3] = PROTOCOL_VERSION
          /\ IsValidMessageType(p[4]) /\ AreValidFlags(p[5])
          /\ ~(p[10] > MAX_PAYLOAD_SIZE) /\ HasDeclaredLength(p)
          /\ HEADER_SIZE + p[10] = n
      BY <1>1, <1>2, <1>5, <2>1
      DEF MIN_PACKET_SIZE, MAGIC, PROTOCOL_VERSION, HEADER_SIZE,
          CRC_SIZE, MAX_PAYLOAD_SIZE, HasDeclaredLength, EncodedSize
    <2>3. ReadUint16LittleEndian(p, HEADER_SIZE + p[10])
              = CalculateCrc16(SubSeq(p, 1, HEADER_SIZE + p[10]))
      BY <1>1, <2>2
    <2>4. QED  BY <2>2, <2>3 DEF DecodeResultOf
  <1>7. Decode(p, other) = m
    <2>1. HEADER_SIZE + 1 = 11 /\ HEADER_SIZE + p[10] = n
      BY <1>1, <1>3 DEF HEADER_SIZE
    <2>2. Decode(p, other) =
            [type |-> p[4], flags |-> p[5],
             sequence_number |-> ReadUint16LittleEndian(p, 5),
             message_id |-> ReadUint16LittleEndian(p, 7),
             payload |-> SubSeq(p, 11, n)]
      BY <1>6, <2>1 DEF Decode
    <2>3. QED  BY <1>1, <1>4, <2>2
  <1>8. QED  BY <1>6, <1>7 DEF p

\* What decode accepts, encode writes.
THEOREM OnlyEncodings ==
  ASSUME NEW p \in Seq(Octet), DecodeResultOf(p) = "Ok", NEW other
  PROVE  /\ Decode(p, other) \in ProtocolMessage
         /\ EncodeResultOf(Decode(p, other), MAX_PACKET_SIZE) = "Ok"
         /\ Encode(Decode(p, other), MAX_PACKET_SIZE) = p
  <1> DEFINE m == Decode(p, other)
             L == p[10]
             n == 10 + L
             s == SubSeq(p, 1, n)
             y == SubSeq(p, 11, n)
  <1>1. /\ Len(p) >= 12 /\ SubSeq(p, 1, 2) = <<82, 67>> /\ p[3] = 1
        /\ IsValidMessageType(p[4]) /\ AreValidFlags(p[5])
        /\ ~(L > 64) /\ Len(p) = n + 2
        /\ ReadUint16LittleEndian(p, n) = CalculateCrc16(s)
    BY AcceptedPacket
  <1>2. \A i \in 1 .. Len(p) : p[i] \in Octet
    OBVIOUS
  <1>3. /\ p[4] \in Octet /\ p[5] \in Octet /\ p[6] \in Octet /\ p[7] \in Octet
        /\ p[8] \in Octet /\ p[9] \in Octet /\ L \in Octet
    BY <1>1, <1>2
  <1>4. L \in Nat /\ L <= 64
    BY <1>1, <1>3, OctetIs
  <1>5. p[1] = 82 /\ p[2] = 67
    <2>1. Len(p) >= 2
      BY <1>1
    <2>2. SubSeq(p, 1, 2) = <<p[1], p[2]>>
      BY <1>1, <2>1, FirstTwo
    <2>3. QED  BY ONLY <1>1, <2>2
  <1>6. m = [type |-> p[4], flags |-> p[5],
             sequence_number |-> ReadUint16LittleEndian(p, 5),
             message_id |-> ReadUint16LittleEndian(p, 7), payload |-> y]
    <2>1. HEADER_SIZE + 1 = 11 /\ HEADER_SIZE + p[10] = n
      BY DEF HEADER_SIZE
    <2>2. QED  BY <2>1 DEF Decode
  <1>7. n = 10 + L
    OBVIOUS
  <1> HIDE DEF L, n
  <1>8. /\ y \in Seq(Octet) /\ Len(y) = L
        /\ \A i \in 1 .. L : y[i] = p[10 + i]
        /\ s \in Seq(Octet) /\ Len(s) = n
        /\ \A i \in 1 .. n : s[i] = p[i]
    BY <1>1, <1>4, <1>7
  <1>9. /\ ReadUint16LittleEndian(p, 5) = p[6] + 256 * p[7]
        /\ ReadUint16LittleEndian(p, 7) = p[8] + 256 * p[9]
        /\ ReadUint16LittleEndian(p, n) = p[n + 1] + 256 * p[n + 2]
    <2>1. 5 + 1 = 6 /\ 5 + 2 = 7 /\ 7 + 1 = 8 /\ 7 + 2 = 9
      OBVIOUS
    <2>2. QED  BY <2>1 DEF ReadUint16LittleEndian
  <1> HIDE DEF m, s, y
  <1>10. /\ m.type = p[4] /\ m.flags = p[5] /\ m.payload = y
         /\ m.sequence_number = p[6] + 256 * p[7]
         /\ m.message_id = p[8] + 256 * p[9]
    BY <1>6, <1>9
  <1>11. /\ m.sequence_number \in Word /\ m.message_id \in Word
         /\ m.sequence_number % 256 = p[6]
         /\ m.sequence_number \div 256 = p[7]
         /\ m.message_id % 256 = p[8] /\ m.message_id \div 256 = p[9]
    BY <1>3, <1>10, BigEndian
  <1>12. m \in ProtocolMessage
    BY <1>3, <1>6, <1>8, <1>10, <1>11 DEF ProtocolMessage
  <1>13. Len(m.payload) <= MAX_PAYLOAD_SIZE
    BY <1>4, <1>8, <1>10 DEF MAX_PAYLOAD_SIZE
  <1>14. EncodeResultOf(m, MAX_PACKET_SIZE) = "Ok"
    BY <1>1, <1>10, <1>12, <1>13, EncodeOk
  <1> DEFINE t == HeaderAndPayload(m)
  <1>15. /\ t \in Seq(Octet) /\ Len(t) = n
         /\ t[1] = 82 /\ t[2] = 67 /\ t[3] = 1 /\ t[4] = p[4] /\ t[5] = p[5]
         /\ t[6] = p[6] /\ t[7] = p[7] /\ t[8] = p[8] /\ t[9] = p[9]
         /\ t[10] = L
         /\ \A i \in 1 .. L : t[10 + i] = y[i]
    <2>1. /\ t \in Seq(Octet) /\ Len(t) = 10 + Len(m.payload)
          /\ t[1] = 82 /\ t[2] = 67 /\ t[3] = 1 /\ t[4] = m.type
          /\ t[5] = m.flags
          /\ t[6] = m.sequence_number % 256
          /\ t[7] = m.sequence_number \div 256
          /\ t[8] = m.message_id % 256 /\ t[9] = m.message_id \div 256
          /\ t[10] = Len(m.payload)
          /\ \A i \in 1 .. Len(m.payload) : t[10 + i] = m.payload[i]
      BY <1>12, <1>13, HeaderAndPayloadIs
    <2> HIDE DEF t
    <2>2. QED  BY <1>7, <1>8, <1>10, <1>11, <2>1
  <1> HIDE DEF t
  <1>16. t = s
    <2>1. \A i \in 1 .. n : t[i] = s[i]
      <3>1. ASSUME NEW i \in 1 .. n PROVE t[i] = p[i]
        <4>1. CASE i <= 10
          <5>1. \/ i = 1 \/ i = 2 \/ i = 3 \/ i = 4 \/ i = 5 \/ i = 6 \/ i = 7
                \/ i = 8 \/ i = 9 \/ i = 10
            BY <4>1
          <5>2. p[10] = L
            BY DEF L
          <5>3. QED  BY <1>1, <1>5, <1>15, <5>1, <5>2
        <4>2. CASE i > 10
          <5>1. i - 10 \in 1 .. L /\ 10 + (i - 10) = i
            BY <1>4, <1>7, <4>2
          <5>2. QED  BY <1>8, <1>15, <5>1
        <4>3. QED  BY <4>1, <4>2
      <3>2. QED  BY <1>8, <3>1
    <2>2. QED  BY <1>4, <1>7, <1>8, <1>15, <2>1
  <1>17. WithCrc(s) = p
    <2> DEFINE lo == p[n + 1]
               hi == p[n + 2]
    <2>1. lo \in Octet /\ hi \in Octet
      BY <1>1, <1>2, <1>4, <1>7
    <2>2. CalculateCrc16(s) = lo + 256 * hi
      BY <1>1, <1>9
    <2>3. CalculateCrc16(s) % 256 = lo /\ CalculateCrc16(s) \div 256 = hi
      BY <2>1, <2>2, BigEndian
    <2>4. WithCrc(s) = s \o <<lo, hi>>
      BY <2>3 DEF WithCrc, Uint16LittleEndian
    <2> HIDE DEF lo, hi
    <2>5. /\ WithCrc(s) \in Seq(Octet) /\ Len(WithCrc(s)) = n + 2
          /\ \A i \in 1 .. n : WithCrc(s)[i] = s[i]
          /\ WithCrc(s)[n + 1] = lo /\ WithCrc(s)[n + 2] = hi
      BY <1>8, <2>1, <2>4, CrcField
    <2>6. \A i \in 1 .. (n + 2) : WithCrc(s)[i] = p[i]
      <3>1. \A i \in 1 .. (n + 2) : i \in 1 .. n \/ i = n + 1 \/ i = n + 2
        BY <1>4, <1>7
      <3>2. QED  BY <1>8, <2>5, <3>1 DEF lo, hi
    <2>7. QED  BY <1>1, <1>4, <1>7, <2>5, <2>6
  <1>18. Encode(m, MAX_PACKET_SIZE) = WithCrc(t)
    BY <1>12, <1>14, EncodeIs DEF t
  <1>19. Encode(m, MAX_PACKET_SIZE) = p
    BY <1>16, <1>17, <1>18
  <1>20. QED  BY <1>12, <1>14, <1>19 DEF m

(***************************************************************************)
(* Identifiers in registers: what prepareId spreads over four registers    *)
(* readMessage puts together again, for every identifier of 11 and 29 bits *)
(***************************************************************************)
-----------------------------------------------------------------------------
(***************************************************************************)
(* The registers of the MCP2515.                                           *)
(***************************************************************************)
\* A frame as the gateway hands it over: its identifier has the width of its
\* format.
Frames ==
  {frame \in [identifier : Nat, extended_identifier : BOOLEAN,
              data : Seq(0 .. 255)] :
     frame.identifier <= IF frame.extended_identifier
                         THEN CAN_EFF_MASK ELSE CAN_SFF_MASK}

\* An 11-bit identifier lies in SIDH and the upper three bits of SIDL, and
\* EXIDE is clear.
LEMMA StandardRoundTrip ==
  ASSUME NEW id \in Nat, id <= 2047
  PROVE  /\ StandardRegisters(id) \in Registers
         /\ ~IsExtended(StandardRegisters(id))
         /\ ReadId(StandardRegisters(id)) = id
  <1>1. id % 65536 = id /\ (id \div 8) % 256 = id \div 8
    BY SMTT(30)
  <1>2. ((id % 8) * 32) \div 32 = id % 8 /\ (((id % 8) * 32) \div 8) % 2 = 0
    BY SMTT(30)
  <1>3. (id \div 8) * 8 + (id % 8) = id
    BY SMTT(30)
  <1>4. (id % 8) * 32 \in 0 .. 255 /\ (id \div 8) \in 0 .. 255
    BY SMTT(30)
  <1>5. QED
    BY <1>1, <1>2, <1>3, <1>4, SMTT(30)
    DEF StandardRegisters, IsExtended, ReadId, Registers

\* SIDL carries three fields, and reading them finds what was put there.
LEMMA PackedSidl ==
  ASSUME NEW low \in 0 .. 3, NEW mid \in 0 .. 7,
         NEW sidl, sidl = low + mid * 32 + 8
  PROVE  /\ sidl \in 0 .. 255
         /\ sidl \div 32 = mid
         /\ sidl % 4 = low
         /\ (sidl \div 8) % 2 = 1
  BY SMTT(30)

\* The upper thirteen bits are the fields of SIDH and SIDL.
LEMMA UpperBits ==
  ASSUME NEW upper \in 0 .. 8191
  PROVE  /\ (upper \div 32) \in 0 .. 255
         /\ (upper \div 32) % 256 = upper \div 32
         /\ (upper \div 4) % 8 \in 0 .. 7
         /\ upper % 4 \in 0 .. 3
         /\ ((upper \div 32) * 8 + ((upper \div 4) % 8)) * 4 + (upper % 4)
              = upper
  BY SMTT(30)

\* The lower sixteen bits are EID8 and EID0.
LEMMA LowerBits ==
  ASSUME NEW id \in Nat, id < 8192 * 65536
  PROVE  /\ (id \div 65536) \in 0 .. 8191
         /\ (id \div 256) % 256 \in 0 .. 255
         /\ id % 256 \in 0 .. 255
         /\ ((id \div 65536) * 256 + ((id \div 256) % 256)) * 256 + (id % 256)
              = id
  BY SMTT(30)

\* A 29-bit identifier is cut into five fields, two of which share SIDL with
\* EXIDE; reading joins them in the same order.
LEMMA ExtendedRoundTrip ==
  ASSUME NEW id \in Nat, id < 8192 * 65536
  PROVE  /\ ExtendedRegisters(id) \in Registers
         /\ IsExtended(ExtendedRegisters(id))
         /\ ReadId(ExtendedRegisters(id)) = id
  <1> DEFINE upper == id \div 65536
             low == upper % 4
             mid == (upper \div 4) % 8
             high == upper \div 32
             sidl == low + mid * 32 + 8
             eid8 == (id \div 256) % 256
             eid0 == id % 256
             regs == [SIDH |-> high, SIDL |-> sidl,
                      EID8 |-> eid8, EID0 |-> eid0]
  <1>1. /\ upper \in 0 .. 8191
        /\ eid8 \in 0 .. 255
        /\ eid0 \in 0 .. 255
        /\ (upper * 256 + eid8) * 256 + eid0 = id
    BY LowerBits, SMTT(30)
  <1> HIDE DEF upper, eid8, eid0
  <1>2. /\ high \in 0 .. 255
        /\ high % 256 = high
        /\ mid \in 0 .. 7
        /\ low \in 0 .. 3
        /\ (high * 8 + mid) * 4 + low = upper
    BY <1>1, UpperBits
  <1>3. ExtendedRegisters(id) = regs
    BY <1>2 DEF ExtendedRegisters, upper, eid8, eid0
  <1> HIDE DEF low, mid, high
  <1>4. /\ sidl \in 0 .. 255
        /\ sidl \div 32 = mid
        /\ sidl % 4 = low
        /\ (sidl \div 8) % 2 = 1
    BY <1>2, PackedSidl
  <1> HIDE DEF sidl
  <1>5. regs \in Registers
    BY <1>1, <1>2, <1>4 DEF Registers
  <1>6. IsExtended(regs)
    BY <1>4 DEF IsExtended
  <1>7. ReadId(regs) = (upper * 256 + eid8) * 256 + eid0
    BY <1>2, <1>4, <1>6 DEF ReadId
  <1>8. QED
    BY <1>1, <1>3, <1>5, <1>6, <1>7

\* Every frame of either format that the gateway can hand over is read back
\* from the registers as it was: sendMessage and readMessage agree on the
\* identifier, on its format and on the data.
THEOREM RegistersKeepFrames ==
  ASSUME NEW frame \in Frames
  PROVE  /\ LoadedBuffer(ToCanFrame(frame)).id \in Registers
         /\ ReadMessage(LoadedBuffer(ToCanFrame(frame))) = frame
  <1> DEFINE canFrame == ToCanFrame(frame)
             buffer == LoadedBuffer(canFrame)
             id == frame.identifier
             ext == frame.extended_identifier
  <1>1. /\ id \in Nat
        /\ ext \in BOOLEAN
        /\ frame.data \in Seq(0 .. 255)
        /\ frame = [identifier |-> id, extended_identifier |-> ext,
                    data |-> frame.data]
        /\ id <= IF ext THEN CAN_EFF_MASK ELSE CAN_SFF_MASK
    BY DEF Frames
  <1>2. canFrame.eff = ext /\ canFrame.id = id /\ canFrame.data = frame.data
    BY DEF ToCanFrame
  <1>3. MaskedId(canFrame)
          = id % (1 + IF ext THEN CAN_EFF_MASK ELSE CAN_SFF_MASK)
    BY <1>2 DEF MaskedId
  <1>4. /\ buffer.id = PrepareId(ext, MaskedId(canFrame))
        /\ buffer.dlc = Len(frame.data)
        /\ buffer.data = frame.data
    BY <1>2 DEF LoadedBuffer
  <1> HIDE DEF id, ext, canFrame, buffer
  <1>5. id \in Nat
    BY <1>1
  <1>6. /\ buffer.id \in Registers
        /\ (IsExtended(buffer.id) <=> ext)
        /\ ReadId(buffer.id) = id
    <2>1. CASE ext
      <3>1. id <= CAN_EFF_MASK /\ MaskedId(canFrame) = id % (1 + CAN_EFF_MASK)
        BY <1>1, <1>3, <2>1
      <3>2. id < 8192 * 65536 /\ MaskedId(canFrame) = id
        BY <1>5, <3>1, SMTT(30) DEF CAN_EFF_MASK
      <3>3. buffer.id = ExtendedRegisters(id)
        BY <1>4, <2>1, <3>2 DEF PrepareId
      <3>4. /\ buffer.id \in Registers
            /\ IsExtended(buffer.id)
            /\ ReadId(buffer.id) = id
        BY <1>5, <3>2, <3>3, ExtendedRoundTrip
      <3>5. QED
        BY <2>1, <3>4
    <2>2. CASE ~ext
      <3>1. id <= CAN_SFF_MASK /\ MaskedId(canFrame) = id % (1 + CAN_SFF_MASK)
        BY <1>1, <1>3, <2>2
      <3>2. id <= 2047 /\ MaskedId(canFrame) = id
        BY <1>5, <3>1, SMTT(30) DEF CAN_SFF_MASK
      <3>3. buffer.id = StandardRegisters(id)
        BY <1>4, <2>2, <3>2 DEF PrepareId
      <3>4. /\ buffer.id \in Registers
            /\ ~IsExtended(buffer.id)
            /\ ReadId(buffer.id) = id
        BY <1>5, <3>2, <3>3, StandardRoundTrip
      <3>5. QED
        BY <2>2, <3>4
    <2>3. QED
      BY <1>1, <2>1, <2>2
  <1>7. SubSeq(buffer.data, 1, buffer.dlc) = frame.data
    BY <1>1, <1>4
  <1>8. IsExtended(buffer.id) = ext
    BY <1>1, <1>6 DEF IsExtended
  <1>9. ReadMessage(buffer) = [identifier |-> id, extended_identifier |-> ext,
                               data |-> frame.data]
    BY <1>6, <1>7, <1>8 DEF ReadMessage
  <1>10. QED
    BY <1>1, <1>6, <1>9 DEF buffer, canFrame

(***************************************************************************)
(* Parity: whether the number of ones is odd.                              *)
(***************************************************************************)
Bit == {0, 1}

NibbleParity(a) ==
  ((a % 2) + ((a \div 2) % 2) + ((a \div 4) % 2) + ((a \div 8) % 2)) % 2
Parity(b) == (NibbleParity(b \div 16) + NibbleParity(b % 16)) % 2
WordParity(w) == (Parity(w \div 256) + Parity(w % 256)) % 2

\* Exclusive or of bits is their sum modulo two.
LEMMA XorBitIs ==
  \A a, b \in Int : XorBit(a, b) = ((a % 2) + (b % 2)) % 2
  BY DEF XorBit

\* Parities are bits.
LEMMA ParityIsBit ==
  /\ \A a \in Nibble : NibbleParity(a) \in Bit
  /\ \A b \in Octet : Parity(b) \in Bit
  /\ \A w \in Word : WordParity(w) \in Bit
  <1>1. \A n \in Int : n % 2 \in Bit
    BY DEF Bit
  <1>2. ASSUME NEW a \in Nibble PROVE NibbleParity(a) \in Bit
    <2>1. a \in Int
      BY DEF Nibble
    <2>2. (a % 2) + ((a \div 2) % 2) + ((a \div 4) % 2) + ((a \div 8) % 2) \in Int
      BY <2>1
    <2>3. QED  BY <1>1, <2>2 DEF NibbleParity
  <1>3. ASSUME NEW b \in Octet PROVE Parity(b) \in Bit
    <2>1. NibbleParity(b \div 16) \in Bit /\ NibbleParity(b % 16) \in Bit
      BY <1>2, HalfOctet
    <2>2. NibbleParity(b \div 16) + NibbleParity(b % 16) \in Int
      BY <2>1 DEF Bit
    <2>3. QED  BY <1>1, <2>2 DEF Parity
  <1>4. ASSUME NEW w \in Word PROVE WordParity(w) \in Bit
    <2>1. Parity(w \div 256) \in Bit /\ Parity(w % 256) \in Bit
      BY <1>3, HalfWord
    <2>2. Parity(w \div 256) + Parity(w % 256) \in Int
      BY <2>1 DEF Bit
    <2>3. QED  BY <1>1, <2>2 DEF WordParity
  <1>5. QED  BY <1>2, <1>3, <1>4

\* The parity of an exclusive or is the sum of the parities: of nibbles ...
LEMMA NibbleXorParity ==
  ASSUME NEW a \in Nibble, NEW b \in Nibble
  PROVE  NibbleParity(XorNibble[a][b]) = (NibbleParity(a) + NibbleParity(b)) % 2
  <1> DEFINE x == XorNibble[a][b]
  <1>1. /\ x \in Nibble
        /\ (x \div 8) % 2 = XorBit(a \div 8, b \div 8)
        /\ (x \div 4) % 2 = XorBit(a \div 4, b \div 4)
        /\ (x \div 2) % 2 = XorBit(a \div 2, b \div 2)
        /\ x % 2 = XorBit(a, b)
    BY XorNibbleBits
  <1>2. a \in Int /\ b \in Int
    BY DEF Nibble
  <1> HIDE DEF x
  <1> DEFINE a0 == a % 2
             a1 == (a \div 2) % 2
             a2 == (a \div 4) % 2
             a3 == (a \div 8) % 2
             b0 == b % 2
             b1 == (b \div 2) % 2
             b2 == (b \div 4) % 2
             b3 == (b \div 8) % 2
  <1>3. /\ a0 \in Bit /\ a1 \in Bit /\ a2 \in Bit /\ a3 \in Bit
        /\ b0 \in Bit /\ b1 \in Bit /\ b2 \in Bit /\ b3 \in Bit
    BY <1>2 DEF Bit
  <1>4. /\ x % 2 = (a0 + b0) % 2 /\ (x \div 2) % 2 = (a1 + b1) % 2
        /\ (x \div 4) % 2 = (a2 + b2) % 2 /\ (x \div 8) % 2 = (a3 + b3) % 2
    <2>1. /\ a \div 2 \in Int /\ a \div 4 \in Int /\ a \div 8 \in Int
          /\ b \div 2 \in Int /\ b \div 4 \in Int /\ b \div 8 \in Int
      BY <1>2
    <2>2. QED  BY <1>1, <1>2, <2>1, XorBitIs
  <1>5. /\ NibbleParity(a) = (a0 + a1 + a2 + a3) % 2
        /\ NibbleParity(b) = (b0 + b1 + b2 + b3) % 2
        /\ NibbleParity(x) = (((a0 + b0) % 2) + ((a1 + b1) % 2) + ((a2 + b2) % 2)
                               + ((a3 + b3) % 2)) % 2
    BY <1>4 DEF NibbleParity
  <1> HIDE DEF a0, a1, a2, a3, b0, b1, b2, b3
  <1>6. QED  BY <1>3, <1>5 DEF Bit, x

\* ... and of bytes.
LEMMA XorParity ==
  ASSUME NEW a \in Octet, NEW b \in Octet
  PROVE  Parity(XorByte(a, b)) = (Parity(a) + Parity(b)) % 2
  <1> DEFINE ah == NibbleParity(a \div 16)
             al == NibbleParity(a % 16)
             bh == NibbleParity(b \div 16)
             bl == NibbleParity(b % 16)
  <1>1. /\ a \div 16 \in Nibble /\ a % 16 \in Nibble
        /\ b \div 16 \in Nibble /\ b % 16 \in Nibble
    BY HalfOctet
  <1>2. ah \in Bit /\ al \in Bit /\ bh \in Bit /\ bl \in Bit
    BY <1>1, ParityIsBit
  <1>3. /\ NibbleParity(XorByte(a, b) \div 16) = (ah + bh) % 2
        /\ NibbleParity(XorByte(a, b) % 16) = (al + bl) % 2
    BY <1>1, XorByteNibbles, NibbleXorParity
  <1>4. /\ Parity(XorByte(a, b)) = (((ah + bh) % 2) + ((al + bl) % 2)) % 2
        /\ Parity(a) = (ah + al) % 2 /\ Parity(b) = (bh + bl) % 2
    BY <1>3 DEF Parity
  <1> HIDE DEF ah, al, bh, bl
  <1>5. QED  BY <1>2, <1>4 DEF Bit

\* A nibble that is doubled loses its top bit and gains a new one.
LEMMA NibbleDoubledParity ==
  ASSUME NEW n \in Nibble, NEW b \in Bit
  PROVE  /\ ((2 * n) % 16) + b \in Nibble
         /\ n \div 8 \in Bit
         /\ NibbleParity(((2 * n) % 16) + b) = (NibbleParity(n) + n \div 8 + b) % 2
  <1>1. \/ n = 0 \/ n = 1 \/ n = 2 \/ n = 3 \/ n = 4 \/ n = 5 \/ n = 6 \/ n = 7
        \/ n = 8 \/ n = 9 \/ n = 10 \/ n = 11 \/ n = 12 \/ n = 13 \/ n = 14
        \/ n = 15
    BY DEF Nibble
  <1>2. b = 0 \/ b = 1
    BY DEF Bit
  <1>3. ((2 * n) % 16) + b \in Nibble /\ n \div 8 \in Bit
    BY <1>1, <1>2 DEF Nibble, Bit
  <1>4. NibbleParity(((2 * n) % 16) + b) = (NibbleParity(n) + n \div 8 + b) % 2
    BY <1>1, <1>2 DEF NibbleParity
  <1>5. QED  BY <1>3, <1>4

\* So does a byte ...
LEMMA ByteDoubledParity ==
  ASSUME NEW a \in Octet, NEW b \in Bit
  PROVE  /\ ((2 * a) % 256) + b \in Octet
         /\ a \div 128 \in Bit
         /\ Parity(((2 * a) % 256) + b) = (Parity(a) + a \div 128 + b) % 2
  <1> DEFINE h == a \div 16
             l == a % 16
             x == ((2 * a) % 256) + b
  <1>1. h \in Nibble /\ l \in Nibble /\ a \in Int
    BY HalfOctet, OctetIs
  <1>2. x \div 16 = ((2 * h) % 16) + (l \div 8) /\ x % 16 = ((2 * l) % 16) + b
    BY <1>1 DEF Nibble, Bit
  <1>3. a \div 128 = h \div 8
    BY <1>1
  <1>4. x \in Octet
    <2>1. x \in Int /\ 0 <= x /\ x <= 255
      BY <1>1 DEF Bit
    <2>2. QED  BY <2>1, OctetIs
  <1>5. /\ Parity(a) = (NibbleParity(h) + NibbleParity(l)) % 2
        /\ Parity(x) = (NibbleParity(((2 * h) % 16) + (l \div 8))
                         + NibbleParity(((2 * l) % 16) + b)) % 2
    BY <1>2 DEF Parity
  <1> HIDE DEF h, l, x
  <1>6. /\ l \div 8 \in Bit /\ h \div 8 \in Bit
        /\ NibbleParity(((2 * h) % 16) + (l \div 8))
             = (NibbleParity(h) + h \div 8 + l \div 8) % 2
        /\ NibbleParity(((2 * l) % 16) + b) = (NibbleParity(l) + l \div 8 + b) % 2
    BY <1>1, NibbleDoubledParity
  <1>7. NibbleParity(h) \in Bit /\ NibbleParity(l) \in Bit
    BY <1>1, ParityIsBit
  <1>8. Parity(x) = (Parity(a) + a \div 128 + b) % 2
    BY ONLY <1>3, <1>5, <1>6, <1>7, b \in Bit DEF Bit
  <1>9. QED  BY <1>3, <1>4, <1>6, <1>8 DEF x

\* ... and a word.
LEMMA DoubledParity ==
  ASSUME NEW c \in Word
  PROVE  WordParity(Twice(c)) = (WordParity(c) + (IF Top(c) THEN 1 ELSE 0)) % 2
  <1> DEFINE h == c \div 256
             l == c % 256
             p == ((2 * h) % 256) + (l \div 128)
             r == ((2 * l) % 256) + 0
  <1>1. /\ h \in Octet /\ l \in Octet /\ c = 256 * h + l
    BY HalfWord
  <1>2. h \in Int /\ l \in Int /\ 0 <= h /\ h <= 255 /\ 0 <= l /\ l <= 255
    BY <1>1, OctetIs
  <1>3. 0 \in Bit
    BY DEF Bit
  <1>4. /\ l \div 128 \in Bit
        /\ r \in Octet /\ Parity(r) = (Parity(l) + (l \div 128) + 0) % 2
    BY <1>1, <1>3, ByteDoubledParity
  <1>5. /\ h \div 128 \in Bit
        /\ p \in Octet
        /\ Parity(p) = (Parity(h) + (h \div 128) + (l \div 128)) % 2
    BY <1>1, <1>4, ByteDoubledParity
  <1>6. Twice(c) = p * 256 + r
    <2>1. \/ h >= 128 /\ (2 * h) % 256 = 2 * h - 256
          \/ h < 128 /\ (2 * h) % 256 = 2 * h
      BY <1>2
    <2>2. \/ l >= 128 /\ (2 * l) % 256 = 2 * l - 256 /\ l \div 128 = 1
          \/ l < 128 /\ (2 * l) % 256 = 2 * l /\ l \div 128 = 0
      BY <1>2
    <2>3. /\ c >= 32768 => Twice(c) = 2 * (c - 32768)
          /\ c < 32768 => Twice(c) = 2 * c
      BY Doubled DEF Twice
    <2>4. \/ h >= 128 /\ c >= 32768
          \/ h < 128 /\ c < 32768
      BY <1>1, <1>2
    <2> HIDE DEF h, l
    <2>5. QED  BY <1>1, <1>2, <2>1, <2>2, <2>3, <2>4
  <1>7. h \div 128 = (IF Top(c) THEN 1 ELSE 0)
    <2>1. \/ h >= 128 /\ h \div 128 = 1
          \/ h < 128 /\ h \div 128 = 0
      BY <1>2
    <2>2. c \in Int
      BY WordIs
    <2> HIDE DEF h, l
    <2>3. c >= 32768 <=> h >= 128
      BY <1>1, <1>2
    <2>4. QED  BY <1>2, <2>1, <2>2, <2>3 DEF Top
  <1>8. WordParity(c) = (Parity(h) + Parity(l)) % 2
    BY DEF WordParity
  <1> HIDE DEF h, l, p, r
  <1>9. WordParity(Twice(c)) = (Parity(p) + Parity(r)) % 2
    BY <1>4, <1>5, <1>6, JoinedBytes DEF WordParity
  <1>10. Parity(h) \in Bit /\ Parity(l) \in Bit
    BY <1>1, ParityIsBit
  <1>11. QED
    BY ONLY <1>4, <1>5, <1>7, <1>8, <1>9, <1>10 DEF Bit

\* The polynomial without its top bit is odd ...
LEMMA PolynomialParity ==
  ASSUME NEW x \in Word
  PROVE  WordParity(XorPolynomial(x)) = (WordParity(x) + 1) % 2
  <1> DEFINE h == x \div 256
             l == x % 256
  <1>1. h \in Octet /\ l \in Octet /\ 16 \in Octet /\ 33 \in Octet
    BY HalfWord, OctetIs
  <1>2. Parity(16) = 1 /\ Parity(33) = 0
    BY DEF Parity, NibbleParity
  <1>3. /\ Parity(XorByte(h, 16)) = (Parity(h) + 1) % 2
        /\ Parity(XorByte(l, 33)) = (Parity(l) + 0) % 2
    BY <1>1, <1>2, XorParity
  <1>4. WordParity(XorPolynomial(x))
          = (Parity(XorByte(h, 16)) + Parity(XorByte(l, 33))) % 2
    BY PolynomialBytes DEF WordParity
  <1>5. WordParity(x) = (Parity(h) + Parity(l)) % 2
    BY DEF WordParity
  <1>6. Parity(h) \in Bit /\ Parity(l) \in Bit
    BY <1>1, ParityIsBit
  <1> HIDE DEF h, l
  <1>7. QED  BY <1>3, <1>4, <1>5, <1>6 DEF Bit

\* ... so a pass keeps the parity: a one that is shifted out brings three in.
LEMMA ShiftParity ==
  ASSUME NEW c \in Word
  PROVE  WordParity(CrcShift(c)) = WordParity(c)
  <1>1. Twice(c) \in Word /\ WordParity(c) \in Bit
    BY ShiftIs, ParityIsBit
  <1>2. CASE Top(c)
    <2>1. WordParity(Twice(c)) = (WordParity(c) + 1) % 2
      BY <1>2, DoubledParity
    <2>2. WordParity(CrcShift(c)) = (WordParity(Twice(c)) + 1) % 2
      BY <1>1, <1>2, ShiftIs, PolynomialParity
    <2>3. QED  BY <1>1, <2>1, <2>2 DEF Bit
  <1>3. CASE ~Top(c)
    <2>1. WordParity(Twice(c)) = (WordParity(c) + 0) % 2
      BY <1>3, DoubledParity
    <2>2. CrcShift(c) = Twice(c)
      BY <1>3, ShiftIs
    <2>3. QED  BY <1>1, <2>1, <2>2 DEF Bit
  <1>4. QED  BY <1>2, <1>3

\* The CRC's parity is that of the bits it has taken in.
LEMMA CrcByteParity ==
  ASSUME NEW c \in Word, NEW b \in Octet
  PROVE  WordParity(CrcByte(b)[c]) = (WordParity(c) + Parity(b)) % 2
  <1> DEFINE x == CrcInput(c, b)
  <1>1. /\ x \in Word /\ x \div 256 = XorByte(c \div 256, b)
        /\ x % 256 = c % 256
    BY CrcInputIs
  <1>2. CrcByte(b)[c] = Run(x)[8]
    BY CrcByteIs
  <1> HIDE DEF x
  <1>3. \A n \in 0 .. 7 :
          WordParity(Run(x)[n + 1]) = WordParity(Run(x)[n])
    <2>1. ASSUME NEW n \in 0 .. 7
          PROVE  WordParity(Run(x)[n + 1]) = WordParity(Run(x)[n])
      <3>1. Run(x)[n] \in Word
        BY <1>1, RunType
      <3>2. QED  BY <3>1, RunIs, ShiftParity
    <2>2. QED  BY <2>1
  <1>4. WordParity(Run(x)[8]) = WordParity(x)
    <2>1. /\ WordParity(Run(x)[0 + 1]) = WordParity(Run(x)[0])
          /\ WordParity(Run(x)[1 + 1]) = WordParity(Run(x)[1])
          /\ WordParity(Run(x)[2 + 1]) = WordParity(Run(x)[2])
          /\ WordParity(Run(x)[3 + 1]) = WordParity(Run(x)[3])
          /\ WordParity(Run(x)[4 + 1]) = WordParity(Run(x)[4])
          /\ WordParity(Run(x)[5 + 1]) = WordParity(Run(x)[5])
          /\ WordParity(Run(x)[6 + 1]) = WordParity(Run(x)[6])
          /\ WordParity(Run(x)[7 + 1]) = WordParity(Run(x)[7])
      BY <1>3
    <2>2. Run(x)[0] = x
      BY RunIs
    <2>3. QED  BY <2>1, <2>2
  <1>5. WordParity(x) = (Parity(XorByte(c \div 256, b)) + Parity(c % 256)) % 2
    BY <1>1 DEF WordParity
  <1>6. c \div 256 \in Octet /\ c % 256 \in Octet
    BY HalfWord
  <1>7. Parity(XorByte(c \div 256, b)) = (Parity(c \div 256) + Parity(b)) % 2
    BY <1>6, XorParity
  <1>8. /\ Parity(c \div 256) \in Bit /\ Parity(c % 256) \in Bit
        /\ Parity(b) \in Bit
    BY <1>6, ParityIsBit
  <1>9. WordParity(c) = (Parity(c \div 256) + Parity(c % 256)) % 2
    BY DEF WordParity
  <1>10. QED
    BY ONLY <1>2, <1>4, <1>5, <1>7, <1>8, <1>9 DEF Bit

\* The CRCs of two sequences differ in parity when the sequences do.
LEMMA CrcParity ==
  ASSUME NEW s \in Seq(Octet), NEW t \in Seq(Octet), Len(s) = Len(t),
         NEW f, f[0] = 0,
         \A n \in 1 .. Len(s) :
           f[n] = (f[n - 1] + Parity(s[n]) + Parity(t[n])) % 2
  PROVE  (WordParity(CalculateCrc16(s)) + WordParity(CalculateCrc16(t))) % 2
           = f[Len(s)]
  <1> DEFINE u == CrcUpTo(s)
             v == CrcUpTo(t)
             N == Len(s)
             W(n) == WordParity(u[n])
             Z(n) == WordParity(v[n])
             S == {n \in Nat : n <= N =>
                     /\ f[n] \in Bit /\ W(n) \in Bit /\ Z(n) \in Bit
                     /\ (W(n) + Z(n)) % 2 = f[n]}
  <1>1. /\ N \in Nat /\ N = Len(t)
        /\ \A n \in 1 .. N : s[n] \in Octet /\ t[n] \in Octet
    OBVIOUS
  <1>2. /\ u[0] = 65535 /\ v[0] = 65535
        /\ \A n \in 1 .. N : /\ u[n] = CrcByte(s[n])[u[n - 1]]
                             /\ v[n] = CrcByte(t[n])[v[n - 1]]
        /\ \A n \in 0 .. N : u[n] \in Word /\ v[n] \in Word
    BY <1>1, CrcUpToIs
  <1>3. \A n \in 1 .. N :
          f[n] = (f[n - 1] + Parity(s[n]) + Parity(t[n])) % 2
    OBVIOUS
  <1> HIDE DEF u, v, N
  <1>4. \A n \in 0 .. N : W(n) \in Bit /\ Z(n) \in Bit
    BY <1>2, ParityIsBit
  <1>5. 0 \in S
    <2>1. 0 \in 0 .. N
      BY <1>1
    <2>2. W(0) = Z(0)
      BY <1>2
    <2>3. W(0) \in Bit /\ Z(0) \in Bit
      BY <1>4, <2>1
    <2> HIDE DEF W, Z
    <2>4. (W(0) + Z(0)) % 2 = 0
      BY <2>2, <2>3 DEF Bit
    <2>5. QED  BY <2>3, <2>4 DEF Bit
  <1>6. \A n \in S : n \in Nat /\ n < N => n + 1 \in S
    <2>1. ASSUME NEW n \in S, n < N PROVE n + 1 \in S
      <3>1. n + 1 \in 1 .. N /\ n \in 0 .. N /\ n + 1 \in 0 .. N /\ (n + 1) - 1 = n
        BY <1>1, <2>1
      <3>2. W(n) \in Bit /\ Z(n) \in Bit /\ W(n + 1) \in Bit /\ Z(n + 1) \in Bit
        BY <1>4, <3>1
      <3>3. Parity(s[n + 1]) \in Bit /\ Parity(t[n + 1]) \in Bit
        BY <1>1, <3>1, ParityIsBit
      <3>4. /\ W(n + 1) = (W(n) + Parity(s[n + 1])) % 2
            /\ Z(n + 1) = (Z(n) + Parity(t[n + 1])) % 2
        <4>1. /\ u[n + 1] = CrcByte(s[n + 1])[u[n]] /\ u[n] \in Word
              /\ v[n + 1] = CrcByte(t[n + 1])[v[n]] /\ v[n] \in Word
              /\ s[n + 1] \in Octet /\ t[n + 1] \in Octet
          BY <1>1, <1>2, <3>1
        <4>2. QED  BY <4>1, CrcByteParity
      <3>5. f[n + 1] = (f[n] + Parity(s[n + 1]) + Parity(t[n + 1])) % 2
        BY <1>3, <3>1
      <3>6. f[n] \in Bit /\ (W(n) + Z(n)) % 2 = f[n]
        BY <1>1, <2>1
      <3> HIDE DEF W, Z
      <3>7. f[n + 1] \in Bit /\ (W(n + 1) + Z(n + 1)) % 2 = f[n + 1]
        BY ONLY <3>2, <3>3, <3>4, <3>5, <3>6 DEF Bit
      <3>8. n + 1 \in Nat
        BY <3>1
      <3>9. QED  BY <3>2, <3>7, <3>8
    <2>2. QED  BY <2>1
  <1> HIDE DEF S
  <1>7. N \in S
    <2>1. 0 .. N \subseteq S
      BY <1>1, <1>5, <1>6, UpToInduction
    <2>2. QED  BY <1>1, <2>1
  <1>8. (W(N) + Z(N)) % 2 = f[N]
    BY <1>1, <1>7 DEF S
  <1>9. QED  BY <1>1, <1>8, CrcIs DEF u, v, N

\* The parity of a word is that of its two bytes, in either order.
LEMMA ReadParity ==
  ASSUME NEW r \in Octet, NEW p \in Octet
  PROVE  WordParity(r + 256 * p) = (Parity(r) + Parity(p)) % 2
  <1>1. (r + 256 * p) % 256 = r /\ (r + 256 * p) \div 256 = p
    BY BigEndian
  <1>2. Parity(r) \in Bit /\ Parity(p) \in Bit
    BY ParityIsBit
  <1>3. QED  BY <1>1, <1>2 DEF WordParity, Bit

\* The parity of four bits put together ...
LEMMA FourBits ==
  ASSUME NEW a \in Bit, NEW b \in Bit, NEW c \in Bit, NEW d \in Bit
  PROVE  /\ 8 * a + 4 * b + 2 * c + d \in Nibble
         /\ NibbleParity(8 * a + 4 * b + 2 * c + d) = (a + b + c + d) % 2
  BY DEF Bit, Nibble, NibbleParity

\* ... and of eight.
LEMMA EightBits ==
  ASSUME NEW b \in [0 .. 7 -> Bit]
  PROVE  Parity(128 * b[0] + 64 * b[1] + 32 * b[2] + 16 * b[3]
                  + 8 * b[4] + 4 * b[5] + 2 * b[6] + b[7])
           = (b[0] + b[1] + b[2] + b[3] + b[4] + b[5] + b[6] + b[7]) % 2
  <1>1. /\ b[0] \in Bit /\ b[1] \in Bit /\ b[2] \in Bit /\ b[3] \in Bit
        /\ b[4] \in Bit /\ b[5] \in Bit /\ b[6] \in Bit /\ b[7] \in Bit
    OBVIOUS
  <1> DEFINE x == 8 * b[0] + 4 * b[1] + 2 * b[2] + b[3]
             y == 8 * b[4] + 4 * b[5] + 2 * b[6] + b[7]
  <1>2. x \in Nibble /\ NibbleParity(x) = (b[0] + b[1] + b[2] + b[3]) % 2
    BY <1>1, FourBits
  <1>3. y \in Nibble /\ NibbleParity(y) = (b[4] + b[5] + b[6] + b[7]) % 2
    BY <1>1, FourBits
  <1>4. 128 * b[0] + 64 * b[1] + 32 * b[2] + 16 * b[3]
          + 8 * b[4] + 4 * b[5] + 2 * b[6] + b[7] = 16 * x + y
    BY <1>1 DEF Bit
  <1> HIDE DEF x, y
  <1>5. (16 * x + y) \div 16 = x /\ (16 * x + y) % 16 = y
    BY <1>2, <1>3 DEF Nibble
  <1>6. Parity(16 * x + y)
          = (((b[0] + b[1] + b[2] + b[3]) % 2)
              + ((b[4] + b[5] + b[6] + b[7]) % 2)) % 2
    BY <1>2, <1>3, <1>5 DEF Parity
  <1>7. ((((b[0] + b[1] + b[2] + b[3]) % 2)
           + ((b[4] + b[5] + b[6] + b[7]) % 2)) % 2)
          = (b[0] + b[1] + b[2] + b[3] + b[4] + b[5] + b[6] + b[7]) % 2
    BY <1>1 DEF Bit
  <1>8. QED  BY <1>4, <1>6, <1>7

=============================================================================
