------------------------------- MODULE Words -------------------------------
(***************************************************************************)
(* The machine words both CPU cores compute with, as integers of a width     *)
(* that is a parameter: a byte has ByteBits bits (8 in the machine), a word  *)
(* two bytes and a long four.  An opcode or extension word keeps its 16 bits *)
(* as a bit pattern; used as an operand it is cut to a word, used as a       *)
(* displacement it is its signed value.                                     *)
(***************************************************************************)
EXTENDS Opcode, Sequences, TLC

LOCAL INSTANCE Bitwise

CONSTANTS
  ByteBits,   \* even; 8 in the machine
  Ten,        \* the base of the decimal instructions; 10 in the machine
  Origin,     \* where the program is loaded
  Handler     \* the opcode at every other address: of the exception handlers

ASSUME WordsAssumption == ByteBits \in {2 * n : n \in 1 .. 4} /\ Ten \in 1 .. 2^(ByteBits \div 2)
                          /\ Origin \in Nat /\ Handler \in 0 .. 2^16 - 1

Bytes   == [B |-> 1, W |-> 2, L |-> 4]
Width   == [B |-> ByteBits, W |-> 2 * ByteBits, L |-> 4 * ByteBits]
Modulus == [B |-> 2^ByteBits, W |-> 2^(2 * ByteBits), L |-> 2^(4 * ByteBits)]
Sign    == [B |-> 2^(ByteBits - 1), W |-> 2^(2 * ByteBits - 1), L |-> 2^(4 * ByteBits - 1)]
Nibble  == 2^(ByteBits \div 2)

Wrap(x, size)     == x % Modulus[size]
Negative(x, size) == x >= Sign[size]
SignedOf(x, size) == IF Negative(x, size) THEN x - Modulus[size] ELSE x
Extend(x, size)   == Wrap(SignedOf(x, size), "L")
Odd(x)            == x % 2 = 1

\* The register value x with its low part of the given size replaced by y.
Merge(x, y, size) == (x - Wrap(x, size)) + y

BitAnd(x, y) == x & y
BitOr(x, y)  == x | y
BitXor(x, y) == x ^^ y
BitAt(x, n)  == (x \div 2^n) % 2 = 1
Num(b)       == IF b THEN 1 ELSE 0

\* 16-bit patterns of the instruction stream.
Displacement(pattern)   == IF pattern >= 2^15 THEN pattern - 2^16 ELSE pattern
ByteDisplacement(op)    == IF op % 256 >= 128 THEN (op % 256) - 256 ELSE op % 256
LongOf(high, low)       == Wrap(high, "W") * Modulus["W"] + Wrap(low, "W")

\* The opcode or extension word of a program at an even address.  Programs have a
\* memory of their own, which is never written.
CodeAt(program, a) ==
  LET i == (a - Origin) \div 2 IN IF i \in 0 .. Len(program) - 1 THEN program[i + 1] ELSE Handler

\* Where the bits of the status register's upper byte are.
MaskBit  == ByteBits
SuperBit == 2 * ByteBits - 3
TraceBit == 2 * ByteBits - 1

\* Memory holds bytes at the addresses that were written; every other address
\* reads as a value of its own.
Background(address) == (37 * (address % 1024) + 11) % Modulus["B"]
Address(a) == a % 2^(3 * ByteBits)
ByteAt(mem, a) == LET at == Address(a) IN IF at \in DOMAIN mem THEN mem[at] ELSE Background(at)

LoadFrom(mem, a, size) ==
  CASE size = "B" -> ByteAt(mem, a)
    [] size = "W" -> ByteAt(mem, a) * Modulus["B"] + ByteAt(mem, a + 1)
    [] size = "L" -> (ByteAt(mem, a) * Modulus["B"] + ByteAt(mem, a + 1)) * Modulus["W"]
                     + ByteAt(mem, a + 2) * Modulus["B"] + ByteAt(mem, a + 3)

StoreTo(mem, a, size, x) ==
  LET n == Bytes[size]
      cells == [i \in {Address(a + k) : k \in 0 .. n - 1} |->
                  (x \div 2^(ByteBits * (n - 1 - ((i - a) % 2^(3 * ByteBits))))) % Modulus["B"]]
  IN  cells @@ mem
=============================================================================
