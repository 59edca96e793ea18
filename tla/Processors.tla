---------------------------- MODULE Processors ----------------------------
(***************************************************************************)
(* The two processors of the repository over one machine: the m68k core of   *)
(* the emulated machine and the m68000 crate, which                         *)
(* tests/cpu_differential.rs uses as its oracle; and what is left open of a  *)
(* step on which the two are known to differ.                               *)
(***************************************************************************)
EXTENDS Words

Reference == INSTANCE M68000
Core      == INSTANCE M68k

\* The same machine, as each core holds it.

ReferenceOf(m) ==
  [d |-> m.d, a |-> m.a, usp |-> m.usp, ssp |-> m.ssp, pc |-> Origin, T |-> m.T, S |-> m.S,
   mask |-> m.mask, X |-> m.X, N |-> m.N, Z |-> m.Z, V |-> m.V, C |-> m.C, mem |-> m.mem,
   code |-> m.code, stop |-> FALSE, opcode |-> 0, pending |-> {}, err |-> 0, val |-> 0,
   src |-> 0, ea |-> Reference!NoEa]

CoreOf(m) ==
  [Core!NewCore EXCEPT
     !.dar = [i \in 0 .. 15 |-> IF i < 8 THEN m.d[i] ELSE IF i < 15 THEN m.a[i - 8]
                               ELSE IF m.S THEN m.ssp ELSE m.usp],
     !.sp = [s \in BOOLEAN |-> IF s THEN m.ssp ELSE m.usp], !.pc = Origin, !.ppc = Origin,
     !.T = m.T, !.S = m.S, !.mask = m.mask, !.X = m.X, !.N = m.N, !.Z = m.Z,
     !.v = IF m.V THEN Core!VSet ELSE 0, !.C = m.C, !.mem = m.mem, !.code = m.code]

\* The reference core leaves an instruction's exception to its next call; the m68k
\* core takes it in the same step.
RECURSIVE Settle(_)
Settle(r) ==
  LET served == {v \in r.pending : Reference!IsInterrupt(v) => v = 31 \/ v % 8 > r.mask}
  IN  IF served = {} THEN r ELSE Settle(Reference!Clean(Reference!ProcessPending(r)))

Flags == {"N", "Z", "V", "C"}
Everything == Flags \cup {"rest"}

\* The bytes a decimal instruction works on.
DecimalOperands(r, op) ==
  IF Reference!Decoder(op) = "Nbcd"
  THEN {Reference!Source([r EXCEPT !.pc = @ + 2], op, "B").val}
  ELSE LET e == Reference!XOperands(r, op, "B") IN {e.val, e.src}
IsDecimal(x) == x % Nibble < Ten /\ x \div Nibble < Ten

\* The quotient is the most negative word, or one above the longest long.
AtTheEdge(r, op) ==
  LET x == SignedOf(r.d[High(op)], "L")
      y == SignedOf(Reference!Source([r EXCEPT !.pc = @ + 2], op, "W").val, "W")
      q == Reference!Abs(x) \div Reference!Abs(y)
  IN  y # 0 /\ (((x < 0) # (y < 0) /\ q = Sign["W"]) \/ (x < 0 /\ y < 0 /\ q = Sign["L"]))

\* The address of a Jsr depends on the stack pointer.
ThroughStackPointer(op, word) ==
  (Mode(op) \in {2, 5, 6} /\ Low(op) = 7)
  \/ ((Mode(op) = 6 \/ Ea(op) = 59) /\ Bits(word, 12, 15) = 15)

\* What is not compared after the instruction op, with the extension word that
\* follows it: r and k are the cores before it, t is the reference core after it with
\* its own exception still pending.  The two cores are known to differ on
\*   - an address error, after which the m68k core goes on with the instruction;
\*   - an exception whose frame or return address they build differently;
\*   - an opcode that is no instruction, and a displacement byte of all ones;
\*   - Jsr through the stack pointer, a multiple move in the other direction;
\*   - the upper byte of the immediate of an instruction on the condition codes;
\*   - the quotient at the edge of its range, which one takes for an overflow;
\*   - the trace of an instruction that is privileged or traps;
\*   - flags the manual leaves undefined, and N and Z of a byte extended to a word.
Ignored(r, k, op, word, t) ==
  LET isa   == Reference!Decoder(op)
      traps == t.pending \ {9}
      fault == 3 \in traps \/ Core!Executed(Core!ServiceInterrupts(k)).run = "fault"
      rest  ==
        \/ \E vector \in traps : vector \in {5, 6, 7} \cup (32 .. 47)
        \/ isa = "Unknown" /\ op \div 4096 \notin {10, 15}
        \/ isa \in {"Bra", "Bcc", "Bsr"} /\ op % 256 = 255
        \/ isa = "Jsr" /\ ThroughStackPointer(op, word)
        \/ isa = "Movem" /\ <<Mode(op), Bit(op, 10)>> \in {<<3, FALSE>>, <<4, TRUE>>}
        \/ isa \in {"Oriccr", "Eoriccr"} /\ Wrap(word, "W") >= Modulus["B"]
        \/ isa = "Divs" /\ AtTheEdge(r, op)
        \/ r.T /\ (traps # {} \/ Reference!IsPrivileged(op))
        \/ isa \in {"Abcd", "Sbcd", "Nbcd"} /\ \E x \in DecimalOperands(r, op) : ~IsDecimal(x)
  IN  IF fault THEN Everything \cup {"fault"}
      ELSE IF rest THEN Everything
      ELSE CASE isa = "Chk" -> Flags
             [] isa \in {"Divu", "Divs"} /\ t.V -> {"N", "Z", "C"}
             [] isa = "Ext" /\ Bits(op, 6, 8) = 2 -> {"N", "Z"}
             [] isa \in {"Abcd", "Sbcd", "Nbcd"} -> {"N", "V"}
             [] OTHER -> {}

\* One instruction on both, and what the comparison leaves open.
Executed(r, k) ==
  LET t == Reference!Interpreter(r)
  IN  [reference |-> Settle(t), core |-> Core!Step(k),
       ignored |-> Ignored(r, k, CodeAt(r.code, r.pc), CodeAt(r.code, r.pc + 2), t)]

\* The interrupt before the instruction on both; they execute the first instruction of
\* the handler, too.
Preempted(r, k, level) ==
  LET served == Settle(Reference!Exception(r, 24 + level))
  IN  Executed(served, [k EXCEPT !.irq = level])
=============================================================================
