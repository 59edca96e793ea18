----------------------------- MODULE MCLockstep -----------------------------
(***************************************************************************)
(* Machines for Lockstep with bytes of six bits: every opcode once, the      *)
(* instructions on registers at the corners of their operands, and programs  *)
(* with subroutines, loops, exceptions, a trace and interrupts.             *)
(***************************************************************************)
EXTENDS Lockstep

LOCAL INSTANCE SequencesExt

\* Address registers far from each other and from the two stacks.
Machine(program) ==
  [d |-> [i \in 0 .. 7 |-> (1234563 * (i + 1)) % Modulus["L"]],
   a |-> [i \in 0 .. 6 |-> 4096 * (i + 1) + 8], usp |-> 70000, ssp |-> 80000,
   T |-> FALSE, S |-> TRUE, mask |-> 0, X |-> TRUE, N |-> FALSE, Z |-> TRUE, V |-> FALSE,
   C |-> FALSE, mem |-> << >>, code |-> program, length |-> 1, levels |-> {}]
InUserMode(m) == [m EXCEPT !.S = FALSE]

\* Every opcode, in both modes and with each flag clear and set; the word that follows
\* is an index register, a list of registers or a number.
Sweep == {Machine(<<op, \h1002, 6, 8>>) : op \in 0 .. \hFFFF}
UserSweep ==
  {[InUserMode(Machine(<<op, \h980A, 4, 2>>))
      EXCEPT !.X = FALSE, !.N = TRUE, !.Z = FALSE, !.V = TRUE, !.C = TRUE] : op \in 0 .. \hFFFF}

\* Opcodes on D0 and D1: of the groups with a register in bits 9 to 11, and of the
\* instructions with one operand.
OnRegisters ==
  {4096 * group + 512 + 64 * mode : group \in {8, 9, 11, 12, 13}, mode \in 0 .. 7}
  \cup {\h4000 + 64 * row : row \in {0, 1, 2, 16, 17, 18, 24, 25, 26, 32, 33, 34, 35, 43}}
Corners == {0, 1, Sign["B"] - 1, Sign["B"], Modulus["B"] - 1, Sign["W"], Modulus["W"] - 1,
            Sign["L"] - 1, Sign["L"], Modulus["L"] - 1}
Operands ==
  {[Machine(<<op, 1>>) EXCEPT !.d[0] = x, !.d[1] = y, !.X = carry] :
     op \in OnRegisters, x \in Corners, y \in Corners, carry \in BOOLEAN}

\* Shifts and rotations of D0 by D1.
Shifts ==
  {[Machine(<<\hE220 + 256 * toLeft + 64 * size + 8 * kind>>)
      EXCEPT !.d[0] = x, !.d[1] = count, !.X = carry] :
     toLeft \in 0 .. 1, size \in 0 .. 2, kind \in 0 .. 3, x \in {1, Sign["W"], Modulus["L"] - 1},
     count \in {0, 1, 5, 6, 7, 11, 12, 13, 23, 24, 25, 26}, carry \in BOOLEAN}

\* Abcd, Sbcd and Nbcd on every decimal byte.
Decimals == {Nibble * high + low : high \in 0 .. Ten - 1, low \in 0 .. Ten - 1}
Decimal ==
  {[Machine(<<op>>) EXCEPT !.d[0] = x, !.d[1] = y, !.X = carry] :
     op \in {\hC300, \h8300, \h4800}, x \in Decimals, y \in Decimals, carry \in BOOLEAN}

\* The privileged instructions, and some that trap, in user mode.
Privileges ==
  {InUserMode(Machine(<<op, \h0300, \h4E71>>)) :
     op \in {\h007C, \h027C, \h0A7C, \h46C3, \h46FC, \h4E60, \h4E68, \h4E70, \h4E72, \h4E73,
             \h4E77, \h4AFC, \hA123, \hF123, \h44C3, \h40C3}}
-----------------------------------------------------------------------------
(* Programs *)

Subroutine ==
  <<\h7005, \h6106, \h5280, \h4E71, \h60FE,              \* moveq, bsr, addq, nop, bra
    \h4E56, \hFFF8, \h48E7, \hE080, \h5280, \h2D40, \hFFFC,   \* link, movem, addq, move
    \h4CDF, \h0107, \h4E5E, \h4E75>>                     \* movem, unlk, rts
Loop == <<\h7202, \hD388, \h9388, \h51C9, \hFFFA, \h60FE>>   \* moveq, addx, subx, dbf, bra
Handled == <<\h46FC, \h0000, \h4AFC, \hA000, \h4E72, \h0200, \h60FE, \h4E71,
             \h54AF, \h0002, \h4E73>>
Waiting == <<\h5280, \h2F00, \h4E72, \h0200, \h201F, \h60F4, \h4E71,
             \h48E7, \h8080, \h4280, \h41E8, \h0004, \h4CDF, \h0101, \h4E73>>
Plain   == <<\h5280, \h2F00, \h4841, \h201F, \h60F6, \h4E71, \h4E71,
             \h48E7, \h8080, \h4280, \h41E8, \h0004, \h4CDF, \h0101, \h4E73>>

\* The vectors in the set lead to the n-th word of the program.
Vectored(m, vectors, n) ==
  [m EXCEPT !.mem = FoldLeft(LAMBDA mem, v : StoreTo(mem, 4 * v, "L", Origin + 2 * (n - 1)),
                             << >>, SetToSeq(vectors))]

ProgramLength == 16    \* instructions of a program
Undisturbed ==
  {Machine(Subroutine), InUserMode(Machine(Subroutine)), Machine(Loop),
   Vectored(Machine(Handled), {4, 8, 10}, 9),
   [Vectored(Machine(Plain), {9}, 6) EXCEPT !.T = TRUE]}
Disturbed == {Vectored(m, 25 .. 31, 8) :
                m \in {Machine(Waiting), Machine(Plain), InUserMode(Machine(Plain))}}
Programs == {[m EXCEPT !.length = ProgramLength] : m \in Undisturbed}
            \cup {[m EXCEPT !.length = ProgramLength, !.levels = {2, 7}] : m \in Disturbed}

AllFamilies == {Sweep, UserSweep, Operands, Shifts, Decimal, Privileges, Programs}
=============================================================================
