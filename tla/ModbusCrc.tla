------------------------------ MODULE ModbusCrc ------------------------------
(***************************************************************************)
(* One iteration of crc16 of RS485_demo2, beside one byte of the           *)
(* bit-by-bit CRC-16 of Modbus that it must agree with.                    *)
(***************************************************************************)
EXTENDS Integers

CONSTANTS table_crc_hi, table_crc_lo   \* the two tables, indexed from 1

Octet == 0..255
Word16 == 0..(256 * 256 - 1)
Entries == 1..256

(* The ^ of ints of at most 16 bits: for each weight w, the bit of w is set *)
(* in the result when it is set in one of x and y.                          *)
XorBit(x, y, w) == w * ((x \div w + y \div w) % 2)
Nibble(x, y, w) ==
    XorBit(x, y, w) + XorBit(x, y, 2 * w) + XorBit(x, y, 4 * w) + XorBit(x, y, 8 * w)
Xor(x, y) == Nibble(x, y, 1) + Nibble(x, y, 16) + Nibble(x, y, 256) + Nibble(x, y, 4096)

(* Mutant: the lookup tables are swapped.                                   *)
MutLookup(crc, byte) ==
    LET i == Xor(crc.hi, byte) + 1
    IN  [hi |-> Xor(crc.lo, table_crc_lo[i]), lo |-> table_crc_hi[i]]

(* crc_hi and crc_lo are ints of at most 8 bits; crc_lo of the code is the  *)
(* high-order byte of the CRC-16, which the frame carries second.           *)
Lookup(crc, byte) ==
    LET i == Xor(crc.hi, byte) + 1
    IN  [hi |-> Xor(crc.lo, table_crc_hi[i]), lo |-> table_crc_lo[i]]

-----------------------------------------------------------------------------
(* The reference: for each bit shifted out, subtract the polynomial A001.   *)

ShiftOut(c) == IF c % 2 = 1 THEN Xor(c \div 2, 40961) ELSE c \div 2

Shift2(c) == ShiftOut(ShiftOut(c))
Shift4(c) == Shift2(Shift2(c))
Shift8(c) == Shift4(Shift4(c))

CrcReference(c, byte) == Shift8(Xor(c, byte))

(* What the tables are tables of: entry i holds the CRC-16 of the byte i    *)
(* alone, its low-order half in table_crc_hi.                               *)
ASSUME TablesAssumption ==
    /\ table_crc_hi \in [Entries -> Octet] /\ table_crc_lo \in [Entries -> Octet]
    /\ \A i \in Octet : table_crc_lo[i + 1] * 256 + table_crc_hi[i + 1] = Shift8(i)

=============================================================================
