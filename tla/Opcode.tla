------------------------------- MODULE Opcode -------------------------------
(***************************************************************************)
(* The fields of a 68000 opcode word, and the classes of effective addresses *)
(* in its low six bits (mode and register) that the decoders of both CPU     *)
(* cores tell apart.                                                        *)
(***************************************************************************)
EXTENDS Integers

Bits(op, low, high) == (op \div 2^low) % 2^(high - low + 1)
Bit(op, n) == Bits(op, n, n) = 1

Low(op)    == Bits(op, 0, 2)    \* the register of the effective address
Mode(op)   == Bits(op, 3, 5)
Ea(op)     == Bits(op, 0, 5)
SizeOf(op) == Bits(op, 6, 7)    \* 0 byte, 1 word, 2 long, 3 another instruction
High(op)   == Bits(op, 9, 11)   \* the other register

Sized == [i \in 0 .. 2 |-> <<"B", "W", "L">>[i + 1]]

Register   == 0 .. 15                        \* Dn and An
Every      == 0 .. 60
Data       == Every \ 8 .. 15
Alterable  == 0 .. 57
DataAlterable   == Alterable \ 8 .. 15
MemoryAlterable == 16 .. 57
Control    == (16 .. 23) \cup (40 .. 59)
=============================================================================
