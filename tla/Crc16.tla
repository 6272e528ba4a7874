------------------------------- MODULE Crc16 -------------------------------
(***************************************************************************)
(* Crc16: the table, the checksums that use it, and as reference the       *)
(* definition of a CRC: the remainder of a division of polynomials over    *)
(* GF(2), here the sets of their exponents.                                *)
(*                                                                         *)
(* A word of the code is the set of its bits that are 1, bit 0 being the   *)
(* lowest: `^' is SymDiff, `& 0x00FF' an intersection.                     *)
(***************************************************************************)
EXTENDS Naturals, Sequences, FiniteSetsExt

Byte == SUBSET (0 .. 7)
uint16_t == SUBSET (0 .. 15)

CRC_POLY_16 == {15, 13, 0}      \* 0xA001
CRC_START_16 == {}
CRC_START_MODBUS == 0 .. 15     \* 0xFFFF

\* w >> n
ShiftRight(w, n) == {k - n : k \in {b \in w : b >= n}}

\* Mutant: the polynomial is not reflected, 0x8005.
TableStep_NotReflected(s) ==
    [crc |-> IF 0 \in SymDiff(s.crc, s.c) THEN SymDiff(ShiftRight(s.crc, 1), {15, 2, 0})
                                          ELSE ShiftRight(s.crc, 1),
     c |-> ShiftRight(s.c, 1)]

\* the body of the loop over j in init_crc16_tab
TableStep(s) ==
    [crc |-> IF 0 \in SymDiff(s.crc, s.c) THEN SymDiff(ShiftRight(s.crc, 1), CRC_POLY_16)
                                          ELSE ShiftRight(s.crc, 1),
     c |-> ShiftRight(s.c, 1)]

\* the locals of init_crc16_tab for one i, after each round of that loop
TableRounds(i) ==
    LET after[j \in 0 .. 8] ==
            IF j = 0 THEN [crc |-> {}, c |-> i] ELSE TableStep(after[j - 1])
    IN  after

crc_tab16 == [i \in Byte |-> TableRounds(i)[8].crc]

\* update_crc_16(crc, c)
update_crc_16_byte(crc, c) ==
    SymDiff(ShiftRight(crc, 8), crc_tab16[SymDiff(crc, c) \cap (0 .. 7)])

\* crc after each round of the loop over the bytes of input_str
CrcRounds(crc, input_str) ==
    LET after[a \in 0 .. Len(input_str)] ==
            IF a = 0 THEN crc ELSE update_crc_16_byte(after[a - 1], input_str[a])
    IN  after

\* update_crc_16(crc, input_str, num_bytes)
update_crc_16(crc, input_str) == CrcRounds(crc, input_str)[Len(input_str)]

crc_16(input_str) == update_crc_16(CRC_START_16, input_str)
crc_modbus(input_str) == update_crc_16(CRC_START_MODBUS, input_str)

-----------------------------------------------------------------------------
(* The reference *)

\* x^16 + x^15 + x^2 + 1
Generator == {16, 15, 2, 0}

\* the long division of p, of a degree below n + 16, by Generator: the terms of
\* exponent n + 15 down to 16 are cancelled in turn
Division(p, n) ==
    LET after[i \in 0 .. n] ==
            IF i = 0 THEN p
            ELSE LET r == after[i - 1]
                     d == n + 16 - i
                 IN  IF d \in r THEN SymDiff(r, {e + d - 16 : e \in Generator}) ELSE r
    IN  after

Remainder(p, n) == Division(p, n)[n]

\* The bit that is sent first, the lowest of the first byte, has the highest
\* exponent; the lowest bit of a checksum stands for x^15.
Message(s) == UNION {{8 * (Len(s) - i) + 7 - k : k \in s[i]} : i \in 1 .. Len(s)}

\* The checksum of s that starts from init: init is added to the first 16 bits.
Checksum(init, s) ==
    LET n == 8 * Len(s)
        p == SymDiff({e + 16 : e \in Message(s)}, {n + 15 - k : k \in init})
    IN  {15 - e : e \in Remainder(p, n)}

=============================================================================
