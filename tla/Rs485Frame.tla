----------------------------- MODULE Rs485Frame -----------------------------
(***************************************************************************)
(* What all nodes of the RS-485 bus agree on: a frame is an SOF, an        *)
(* address, a command, a length, a payload and a CRC-8 of all but the SOF. *)
(***************************************************************************)
EXTENDS Integers, Sequences

CONSTANTS
  Base,          \* values of a byte, 256
  Bits,          \* bits of a byte, 8
  Poly,          \* of crc8, without its leading bit, 0x31
  Sof,           \* RS485_SOF
  Code,          \* the command bytes
  XorByte(_, _)  \* the exclusive or of two bytes

Byte     == 0..(Base - 1)
Everyone == Base - 1    \* RS485_ADDR_BROADCAST

ASSUME Rs485FrameAssumption ==
  /\ Base \in Nat /\ Base >= 8 /\ Base % 2 = 0 /\ Bits \in Nat
  /\ Poly \in Byte /\ Poly % 2 = 1 /\ Sof \in Byte
  /\ \A name \in DOMAIN Code : Code[name] \in Byte
  /\ \A a, b \in DOMAIN Code : Code[a] = Code[b] => a = b

ASSUME XorAssumption ==
  \A a, b \in Byte :
    /\ XorByte(a, b) \in Byte /\ XorByte(a, b) = XorByte(b, a)
    /\ XorByte(a, 0) = a /\ XorByte(XorByte(a, b), b) = a
    /\ XorByte(a, b) % 2 = (a + b) % 2

\* A step of crc8: the bit that is shifted out decides about the polynomial.
Shifted(crc) == IF crc >= Base \div 2 THEN XorByte((2 * crc) % Base, Poly) ELSE 2 * crc

\* crc8 over a byte, by what it was before and the byte, exclusive or.
CrcOf ==
  LET after[k \in 0..Bits] ==
        IF k = 0 THEN [c \in Byte |-> c] ELSE [c \in Byte |-> Shifted(after[k - 1][c])]
  IN  after[Bits]

Crc(bytes) ==
  LET crc[k \in 0..Len(bytes)] == IF k = 0 THEN 0 ELSE CrcOf[XorByte(crc[k - 1], bytes[k])]
  IN  crc[Len(bytes)]

\* The bytes of a frame.
Bytes(f) ==
  LET covered == <<f.to, f.cmd, Len(f.payload)>> \o f.payload
  IN  <<Sof>> \o covered \o <<Crc(covered)>>

Aged(n, limit) == IF n < limit THEN n + 1 ELSE n

=============================================================================
