------------------------------- MODULE M68000 -------------------------------
(***************************************************************************)
(* The m68000 reference core: the dispatcher of interpreter_fast.rs and the  *)
(* exceptions of exception.rs, on the table of M68000Decoder.               *)
(***************************************************************************)
EXTENDS M68000Control, M68000Decoder, FiniteSetsExt

\* EXECUTE, the operation of every instruction, in parts: an instruction that a part
\* does not name belongs to the part above it.
ExecuteSubToUnlk(s, op, isa) ==
  CASE isa = "Sub" -> Sub(s, op) [] isa = "Suba" -> Suba(s, op)
    [] isa = "Subi" -> Subi(s, op) [] isa = "Subq" -> Subq(s, op)
    [] isa = "Subx" -> Subx(s, op) [] isa = "Swap" -> Swap(s, op)
    [] isa = "Tas" -> Tas(s, op) [] isa = "Trap" -> Trap(s, op)
    [] isa = "Trapv" -> Trapv(s) [] isa = "Tst" -> Tst(s, op)
    [] isa = "Unlk" -> Unlk(s, op)

ExecuteNotToStop(s, op, isa) ==
  CASE isa = "Not" -> Not(s, op) [] isa = "Or" -> Or(s, op) [] isa = "Ori" -> Ori(s, op)
    [] isa = "Oriccr" -> Oriccr(s) [] isa = "Orisr" -> Orisr(s)
    [] isa = "Pea" -> Pea(s, op) [] isa = "Reset" -> Reset(s) [] isa = "Rom" -> Rom(s, op)
    [] isa = "Ror" -> Ror(s, op) [] isa = "Roxm" -> Roxm(s, op)
    [] isa = "Roxr" -> Roxr(s, op) [] isa = "Rte" -> Rte(s) [] isa = "Rtr" -> Rtr(s)
    [] isa = "Rts" -> Rts(s) [] isa = "Sbcd" -> Sbcd(s, op) [] isa = "Scc" -> Scc(s, op)
    [] isa = "Stop" -> Stop(s)
    [] OTHER -> ExecuteSubToUnlk(s, op, isa)

ExecuteLeaToNop(s, op, isa) ==
  CASE isa = "Lea" -> Lea(s, op) [] isa = "Link" -> Link(s, op)
    [] isa = "Lsm" -> Lsm(s, op) [] isa = "Lsr" -> Lsr(s, op)
    [] isa = "Move" -> Move(s, op) [] isa = "Movea" -> Movea(s, op)
    [] isa = "Moveccr" -> Moveccr(s, op) [] isa = "Movefsr" -> Movefsr(s, op)
    [] isa = "Movesr" -> Movesr(s, op) [] isa = "Moveusp" -> Moveusp(s, op)
    [] isa = "Movem" -> Movem(s, op) [] isa = "Movep" -> Movep(s, op)
    [] isa = "Moveq" -> Moveq(s, op) [] isa = "Muls" -> Muls(s, op)
    [] isa = "Mulu" -> Mulu(s, op) [] isa = "Nbcd" -> Nbcd(s, op)
    [] isa = "Neg" -> Neg(s, op) [] isa = "Negx" -> Negx(s, op) [] isa = "Nop" -> s
    [] OTHER -> ExecuteNotToStop(s, op, isa)

ExecuteClrToJsr(s, op, isa) ==
  CASE isa = "Clr" -> Clr(s, op) [] isa = "Cmp" -> Cmp(s, op)
    [] isa = "Cmpa" -> Cmpa(s, op) [] isa = "Cmpi" -> Cmpi(s, op)
    [] isa = "Cmpm" -> Cmpm(s, op) [] isa = "Dbcc" -> Dbcc(s, op)
    [] isa = "Divs" -> Divs(s, op) [] isa = "Divu" -> Divu(s, op)
    [] isa = "Eor" -> Eor(s, op) [] isa = "Eori" -> Eori(s, op)
    [] isa = "Eoriccr" -> Eoriccr(s) [] isa = "Eorisr" -> Eorisr(s)
    [] isa = "Exg" -> Exg(s, op) [] isa = "Ext" -> Ext(s, op)
    [] isa = "Illegal" -> Illegal(s) [] isa = "Jmp" -> Jmp(s, op)
    [] isa = "Jsr" -> Jsr(s, op)
    [] OTHER -> ExecuteLeaToNop(s, op, isa)

ExecuteAbcdToChk(s, op, isa) ==
  CASE isa = "Abcd" -> Abcd(s, op) [] isa = "Add" -> Add(s, op)
    [] isa = "Adda" -> Adda(s, op) [] isa = "Addi" -> Addi(s, op)
    [] isa = "Addq" -> Addq(s, op) [] isa = "Addx" -> Addx(s, op)
    [] isa = "And" -> And(s, op) [] isa = "Andi" -> Andi(s, op)
    [] isa = "Andiccr" -> Andiccr(s) [] isa = "Andisr" -> Andisr(s)
    [] isa = "Asm" -> Asm(s, op) [] isa = "Asr" -> Asr(s, op) [] isa = "Bcc" -> Bcc(s, op)
    [] isa = "Bchg" -> Bchg(s, op) [] isa = "Bclr" -> Bclr(s, op)
    [] isa = "Bra" -> Bra(s, op) [] isa = "Bset" -> Bset(s, op)
    [] isa = "Bsr" -> Bsr(s, op) [] isa = "Btst" -> Btst(s, op)
    [] isa = "Chk" -> Chk(s, op)
    [] OTHER -> ExecuteClrToJsr(s, op, isa)

Execute(s, op) ==
  IF Decoder(op) = "Unknown" THEN Unknown(s, op) ELSE ExecuteAbcdToChk(s, op, Decoder(op))

\* Privileged instructions are not traced.
IsPrivileged(op) ==
  Decoder(op) \in {"Andisr", "Eorisr", "Movesr", "Moveusp", "Orisr", "Reset", "Rte", "Stop"}
-----------------------------------------------------------------------------
(* Exceptions *)

IsInterrupt(vector) == vector \in 25 .. 31

\* A lower number is served before a higher one.
Priority(vector) ==
  CASE vector = 3 -> 0 [] vector = 2 -> 1 [] vector = 9 -> 2
    [] vector \in (24 .. 31) \cup (64 .. 255) -> 3
    [] vector = 4 -> 4 [] vector = 8 -> 5 [] OTHER -> 255

Exception(s, vector) ==
  [s EXCEPT !.pending = @ \cup {vector},
            !.stop = @ /\ vector \notin {0, 9} /\ ~IsInterrupt(vector)]

ProcessException(s, vector) ==
  LET sr   == Sr(s)
      e    == [s EXCEPT !.T = FALSE, !.S = TRUE,
                        !.mask = IF IsInterrupt(vector) THEN vector % 8 ELSE @]
      p    == Push(Push(e, "L", e.pc), "W", sr)
      full == Push(Push(Push(p, "W", Wrap(s.opcode, "W")), "L", 0), "W", 0)
      f    == IF vector \in {2, 3} THEN full ELSE p
  IN  Try(f, [f EXCEPT !.pc = LoadFrom(f.mem, 4 * vector, "L")])

\* The pending exceptions are ordered by priority, then by their vectors: the highest of
\* the interrupts, and of others the lowest.
Before(v, w) ==
  IF IsInterrupt(v) /\ IsInterrupt(w) THEN v > w
  ELSE Priority(v) < Priority(w) \/ (Priority(v) = Priority(w) /\ v < w)

\* An interrupt that is masked stays; of the others the best one is served.
ProcessPending(s) ==
  LET served == {v \in s.pending : IsInterrupt(v) => v = 31 \/ v % 8 > s.mask}
      best == CHOOSE v \in served : \A w \in served \ {v} : Before(v, w)
      t    == ProcessException([s EXCEPT !.pending = @ \ {best}], best)
  IN  IF served = {} THEN s
      ELSE IF Ok(t) THEN t ELSE Exception([t EXCEPT !.err = 0], t.err)

Clean(s) == [s EXCEPT !.err = 0, !.val = 0, !.src = 0, !.ea = NoEa]

\* One call: the pending exceptions, then an instruction, whose own exception is
\* left pending.  After an error the program counter is back at the instruction.
Interpret(s) ==
  LET q  == ProcessPending(s)
      op == CodeAt(q.code, q.pc)
      f  == [q EXCEPT !.opcode = op, !.pc = Wrap(@ + 2, "L")]
      t  == Execute(f, op)
  IN  IF Odd(q.pc) THEN Exception(q, 3)
      ELSE IF ~Ok(t) THEN Exception([t EXCEPT !.pc = q.pc], t.err)
      ELSE IF q.T /\ ~IsPrivileged(op) THEN Exception(t, 9) ELSE t

\* A stopped core waits for an exception and serves it in a call of its own.
Interpreter(s) ==
  Clean(IF s.stop THEN (IF s.pending = {} THEN s ELSE ProcessPending([s EXCEPT !.stop = FALSE]))
        ELSE Interpret(s))
=============================================================================
