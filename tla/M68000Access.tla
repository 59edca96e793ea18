--------------------------- MODULE M68000Access ---------------------------
(***************************************************************************)
(* State, operands and memory of the m68000 reference core                   *)
(* (crates/m68000/src: addressing_modes.rs, memory_access.rs, utils.rs,     *)
(* status_register.rs).  A core is one record; an operation is an operator   *)
(* from a core to a core.  Two fields stand for what the code passes in      *)
(* local variables: ea, the addressing mode an operation works on, and val,  *)
(* the value the last access returned.  err is the Err of the result, 0 for  *)
(* Ok: an operation that meets an error leaves the rest undone (Try).        *)
(***************************************************************************)
EXTENDS Words

NoEa == [mode |-> 0, reg |-> 0, word |-> 0, pc |-> 0]

Ok(s)     == s.err = 0
Try(s, t) == IF Ok(s) THEN t ELSE s
Fail(s, vector) == Try(s, [s EXCEPT !.err = vector])

\* Address registers; the seventh is one of the two stack pointers.
AReg(s, r) == IF r < 7 THEN s.a[r] ELSE IF s.S THEN s.ssp ELSE s.usp
SetA(s, r, x) ==
  IF r < 7 THEN [s EXCEPT !.a[r] = Wrap(x, "L")]
  ELSE IF s.S THEN [s EXCEPT !.ssp = Wrap(x, "L")] ELSE [s EXCEPT !.usp = Wrap(x, "L")]
SetD(s, r, size, x) == [s EXCEPT !.d[r] = Merge(@, Wrap(x, size), size)]

\* The next word of the program; the program counter is even by now.
NextWord(s) == [s EXCEPT !.val = CodeAt(s.code, s.pc), !.pc = Wrap(@ + 2, "L")]

NextLong(s) ==
  LET high == NextWord(s)
      low  == NextWord(high)
  IN  [low EXCEPT !.val = LongOf(high.val, low.val)]

\* AddressingMode::from_memory; mode 7 is split by its register into 7 to 11.
FromMemory(s, mode, reg, size) ==
  LET kind == IF mode < 7 THEN mode ELSE mode + reg
      at   == [NoEa EXCEPT !.mode = kind, !.reg = reg, !.pc = s.pc]
      next == IF kind = 8 \/ (kind = 11 /\ size = "L") THEN NextLong(s) ELSE NextWord(s)
  IN  IF kind < 5 THEN [s EXCEPT !.ea = at]
      ELSE [next EXCEPT !.ea = [at EXCEPT !.word = next.val]]

IndexRegister(s, pattern) ==
  LET reg == Bits(pattern, 12, 14)
      x   == IF Bit(pattern, 15) THEN AReg(s, reg) ELSE s.d[reg]
  IN  IF Bit(pattern, 11) THEN x ELSE Extend(Wrap(x, "W"), "W")

Step(reg, size) == IF reg = 7 /\ size = "B" THEN 2 ELSE Bytes[size]

Ariwpo(s, reg, size) ==
  [SetA(s, reg, AReg(s, reg) + Step(reg, size)) EXCEPT !.val = AReg(s, reg)]

Ariwpr(s, reg, size) ==
  LET t == SetA(s, reg, AReg(s, reg) - Step(reg, size)) IN [t EXCEPT !.val = AReg(t, reg)]

InMemory == 12      \* the mode of an operand whose address is known

\* get_effective_address: the address is computed once, with its side effect.
Locate(s, size) ==
  LET ea == s.ea
      at(x) == [s EXCEPT !.val = Wrap(x, "L")]
      t == CASE ea.mode = 2  -> at(AReg(s, ea.reg))
             [] ea.mode = 3  -> Ariwpo(s, ea.reg, size)
             [] ea.mode = 4  -> Ariwpr(s, ea.reg, size)
             [] ea.mode = 5  -> at(AReg(s, ea.reg) + Displacement(ea.word))
             [] ea.mode = 6  -> at(AReg(s, ea.reg) + ByteDisplacement(ea.word)
                                   + IndexRegister(s, ea.word))
             [] ea.mode = 7  -> at(Displacement(ea.word))
             [] ea.mode = 9  -> at(ea.pc + Displacement(ea.word))
             [] ea.mode = 10 -> at(ea.pc + ByteDisplacement(ea.word) + IndexRegister(s, ea.word))
             [] OTHER        -> at(ea.word)
  IN  [t EXCEPT !.ea = [NoEa EXCEPT !.mode = InMemory, !.word = t.val]]

\* A word or long at an odd address is an address error.
Load(s, address, size) ==
  Try(s, IF size # "B" /\ Odd(address) THEN Fail(s, 3)
         ELSE [s EXCEPT !.val = LoadFrom(s.mem, address, size)])

Store(s, address, size, x) ==
  Try(s, IF size # "B" /\ Odd(address) THEN Fail(s, 3)
         ELSE [s EXCEPT !.mem = StoreTo(@, address, size, x)])

\* get_byte, get_word and get_long of the operand in ea.
Get(s, size) ==
  LET value(x) == [s EXCEPT !.val = Wrap(x, size)]
      t == Locate(s, size)
  IN  Try(s, CASE s.ea.mode = 0  -> value(s.d[s.ea.reg])
               [] s.ea.mode = 1  -> value(AReg(s, s.ea.reg))
               [] s.ea.mode = 11 -> value(s.ea.word)
               [] OTHER          -> Load(t, t.val, size))

\* set_byte, set_word and set_long.
Set(s, size, x) ==
  LET t == Locate(s, size)
  IN  Try(s, CASE s.ea.mode = 0 -> SetD(s, s.ea.reg, size, x)
               [] s.ea.mode = 1 -> SetA(s, s.ea.reg, Extend(x, size))
               [] OTHER         -> Store(t, t.val, size, x))

Pop(s, size) ==
  Try(s, LET t == Ariwpo(s, 7, size) IN Load(t, t.val, size))

Push(s, size, x) ==
  Try(s, LET t == Ariwpr(s, 7, size) IN Store(t, t.val, size, x))
-----------------------------------------------------------------------------
(* Additions and subtractions of utils.rs, in two steps, each of which can    *)
(* leave the range: signed ones overflow when exactly one does.              *)

CarryingAdd(x, y, carry, size) ==
  LET a == x + y
      b == Wrap(a, size) + carry
  IN  [res |-> Wrap(b, size), over |-> a >= Modulus[size] \/ b >= Modulus[size]]

SignedCarryingAdd(x, y, carry, size) ==
  LET a == SignedOf(x, size) + SignedOf(y, size)
      b == SignedOf(Wrap(a, size), size) + carry
      out(z) == z < -Sign[size] \/ z >= Sign[size]
  IN  out(a) # out(b)

BorrowingSub(x, y, borrow, size) ==
  LET a == x - y
      b == Wrap(a, size) - borrow
  IN  [res |-> Wrap(b, size), over |-> a < 0 \/ b < 0]

SignedBorrowingSub(x, y, borrow, size) ==
  LET a == SignedOf(x, size) - SignedOf(y, size)
      b == SignedOf(Wrap(a, size), size) - borrow
      out(z) == z < -Sign[size] \/ z >= Sign[size]
  IN  out(a) # out(b)
-----------------------------------------------------------------------------
(* The status register *)

Ccr(x) == [X |-> BitAt(x, 4), N |-> BitAt(x, 3), Z |-> BitAt(x, 2), V |-> BitAt(x, 1),
           C |-> BitAt(x, 0)]

SetCcr(s, x) ==
  LET f == Ccr(x) IN [s EXCEPT !.X = f.X, !.N = f.N, !.Z = f.Z, !.V = f.V, !.C = f.C]

SetSr(s, x) ==
  [SetCcr(s, x) EXCEPT !.T = BitAt(x, TraceBit), !.S = BitAt(x, SuperBit),
                       !.mask = (x \div 2^MaskBit) % 8]

Sr(s) == 2^TraceBit * Num(s.T) + 2^SuperBit * Num(s.S) + 2^MaskBit * s.mask
         + 16 * Num(s.X) + 8 * Num(s.N) + 4 * Num(s.Z) + 2 * Num(s.V) + Num(s.C)

Condition(s, cc) ==
  LET lt == s.N # s.V
  IN  <<TRUE, FALSE, ~s.C /\ ~s.Z, s.C \/ s.Z, ~s.C, s.C, ~s.Z, s.Z, ~s.V, s.V, ~s.N, s.N,
        ~lt, lt, ~lt /\ ~s.Z, lt \/ s.Z>>[cc + 1]
=============================================================================
