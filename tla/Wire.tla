-------------------------------- MODULE Wire --------------------------------
(***************************************************************************)
(* What the backends of src/src/platform make of a value on its way to the *)
(* camera and back: the scaling to the raw units of a control and, in the  *)
(* macOS backend, the little-endian bytes of a UVC request.                *)
(*                                                                         *)
(* A degree has 3600 raw units and a zoom ratio of one has 100; here one   *)
(* raw unit is Scale units of the caller, so that rounding matters.        *)
(***************************************************************************)
EXTENDS Control, Sequences

CONSTANTS
    Byte,    \* the values of a byte: 256
    Scale    \* the caller's units in one raw unit of a control

ASSUME ByteAssumption == Byte \in Nat /\ Byte > 1 /\ Byte % 2 = 0
ASSUME ScaleAssumption == Scale \in Nat /\ Scale > 0

----------------------------------------------------------------------------
\* Scaling.

\* Mutant: the fraction is cut off.
Raw_truncated(x) == IF x < 0 THEN -((-x) \div Scale) ELSE x \div Scale

\* std::llround of a scaled value: to the nearest, halves away from zero.
Raw(x) ==
    LET magnitude == (2 * Abs(x) + Scale) \div (2 * Scale)
    IN  IF x < 0 THEN -magnitude ELSE magnitude

FromRaw(raw) == raw * Scale

\* The value that a camera holds which was sent x.
Held(x) == FromRaw(Raw(x))

----------------------------------------------------------------------------
\* Bytes.  A cast to an unsigned type is the remainder.

Word == Byte * Byte
DoubleWord == Word * Word

WriteU16(value) == << (value % Word) % Byte, (value % Word) \div Byte >>

ReadU16(bytes) == bytes[1] + Byte * bytes[2]

\* Mutant: the two halves change places.
WriteI32_swapped(value) ==
    LET bits == value % DoubleWord
    IN  WriteU16(bits \div Word) \o WriteU16(bits % Word)

\* Two's complement, the lowest byte first.
WriteI32(value) ==
    LET bits == value % DoubleWord
    IN  WriteU16(bits % Word) \o WriteU16(bits \div Word)

ReadI32(bytes) ==
    LET bits == ReadU16(<<bytes[1], bytes[2]>>) + Word * ReadU16(<<bytes[3], bytes[4]>>)
    IN  IF 2 * bits < DoubleWord THEN bits ELSE bits - DoubleWord
=============================================================================
