------------------------- MODULE M68kInstructions -------------------------
(***************************************************************************)
(* crates/m68k/src/core/instructions: the operations of the 68000 on a core  *)
(* of M68kAccess.  Several take their operands as values and leave the       *)
(* result in val; the dispatcher stores it.                                 *)
(***************************************************************************)
EXTENDS M68kAccess

\* Carry is computed from the sum in bytes and words, from the signs in longs.
SetAddFlags(k, src, dst, size) ==
  LET r == Wrap(src + dst, size)
      ns == Negative(src, size)  nd == Negative(dst, size)  nr == Negative(r, size)
      c == IF size = "L" THEN (ns /\ nd) \/ (~nr /\ (ns \/ nd)) ELSE src + dst >= Modulus[size]
  IN  [k EXCEPT !.val = r, !.N = nr, !.Z = r = 0, !.C = c, !.X = c,
                !.v = IF ns # nr /\ nd # nr THEN VSet ELSE 0]

SetSubFlags(k, src, dst, size) ==
  LET r == Wrap(dst - src, size)
      ns == Negative(src, size)  nd == Negative(dst, size)  nr == Negative(r, size)
      c == IF size = "L" THEN (ns /\ nr) \/ (~nd /\ (ns \/ nr)) ELSE src > dst
  IN  [k EXCEPT !.val = r, !.N = nr, !.Z = r = 0, !.C = c, !.X = c,
                !.v = IF ns # nd /\ nr # nd THEN VSet ELSE 0]

\* A comparison keeps X.
ExecCmp(k, size, src, dst) ==
  LET s == Wrap(src, size)
      d == Wrap(dst, size)
      r == Wrap(d - s, size)
      ns == Negative(s, size)  nd == Negative(d, size)  nr == Negative(r, size)
  IN  [k EXCEPT !.N = nr, !.Z = r = 0, !.C = s > d, !.v = IF ns # nd /\ nr # nd THEN VSet ELSE 0]

\* With the extend bit, Z is only ever cleared.
ExecAddx(k, size, src, dst) ==
  LET sum == src + dst + Num(k.X)
      r   == Wrap(sum, size)
      nr  == Negative(r, size)
      c   == sum >= Modulus[size]
  IN  [k EXCEPT !.val = r, !.N = nr, !.Z = @ /\ r = 0, !.C = c, !.X = c,
                !.v = IF Negative(src, size) # nr /\ Negative(dst, size) # nr THEN VSet ELSE 0]

WrongExecSubx(k, size, src, dst) ==
  LET r  == Wrap(dst - (src + Num(k.X)), size)
      nd == Negative(dst, size)
      b  == src > dst
  IN  [k EXCEPT !.val = r, !.N = Negative(r, size), !.Z = @ /\ r = 0, !.C = b, !.X = b,
                !.v = IF Negative(src, size) # nd /\ Negative(r, size) # nd THEN VSet ELSE 0]

ExecSubx(k, size, src, dst) ==
  LET sub == src + Num(k.X)
      r   == Wrap(dst - sub, size)
      nd  == Negative(dst, size)
      b   == sub > dst
  IN  [k EXCEPT !.val = r, !.N = Negative(r, size), !.Z = @ /\ r = 0, !.C = b, !.X = b,
                !.v = IF Negative(src, size) # nd /\ Negative(r, size) # nd THEN VSet ELSE 0]

\* A word is sign-extended to the whole address register.
Long(x, size) == IF size = "W" THEN Extend(x, "W") ELSE x
ExecAdda(k, size, src, reg) == SetAddr(k, reg, A(k, reg) + Long(src, size))
ExecSuba(k, size, src, reg) == SetAddr(k, reg, A(k, reg) - Long(src, size))
ExecCmpa(k, size, src, reg) == ExecCmp(k, "L", Long(src, size), A(k, reg))

\* Read, compute and write back one operand; Op takes the core with the value in val.
OnEa(k, ea, size, Op(_)) ==
  LET s == ReadResolved(ResolveEa(k, ea, size), size)
      r == Op(s)
  IN  WriteResolved(r, size, r.val)

\* The same for operations that stop at a fault, before and after the write; After
\* sets their flags.
OnEaChecked(k, ea, size, Op(_), After(_)) ==
  LET s == ReadResolved(ResolveEa(k, ea, size), size)
      r == Op(s)
      w == WriteResolved(r, size, r.val)
  IN  IF Faulted(s) THEN s ELSE IF Faulted(w) THEN w ELSE After(w)

Same(k) == k

ExecAddq(k, size, x, ea) ==
  LET add(s) == SetAddFlags(s, x, s.val, size)
  IN  IF Kind(ea) = 1 THEN SetAddr(k, ea % 8, A(k, ea % 8) + x) ELSE OnEa(k, ea, size, add)
ExecSubq(k, size, x, ea) ==
  LET sub(s) == SetSubFlags(s, x, s.val, size)
  IN  IF Kind(ea) = 1 THEN SetAddr(k, ea % 8, A(k, ea % 8) - x) ELSE OnEa(k, ea, size, sub)

ExecClr(k, size, ea) ==
  LET s == ResolveEa(k, ea, size)
      w == WriteResolved(s, size, 0)
  IN  IF Faulted(w) THEN w ELSE LogicFlags(w, 0, size)

ExecNeg(k, size, ea) ==
  LET neg(s)   == [s EXCEPT !.src = s.val, !.val = Wrap(-s.val, size)]
      flags(s) == SetSubFlags(s, s.src, 0, size)
  IN  OnEaChecked(k, ea, size, neg, flags)
ExecNegx(k, size, ea) ==
  LET negx(s) == ExecSubx(s, size, s.val, 0) IN OnEaChecked(k, ea, size, negx, Same)
ExecNot(k, size, ea) ==
  LET not(s)   == [s EXCEPT !.val = Modulus[size] - 1 - s.val]
      flags(s) == LogicFlags(s, s.val, size)
  IN  OnEaChecked(k, ea, size, not, flags)

ExecExt(k, size, reg) ==
  LET x == D(k, reg)
      r == IF size = "W" THEN Merge(x, Wrap(Extend(Wrap(x, "B"), "B"), "W"), "W")
           ELSE Extend(Wrap(x, "W"), "W")
  IN  LogicFlags(SetDar(k, reg, r), r, size)

ExecTst(k, size, ea) ==
  LET s == ReadEa(k, ea, size) IN IF Faulted(s) THEN s ELSE LogicFlags(s, s.val, size)

ExecChk(k, bound, reg) ==
  LET x == SignedOf(Wrap(D(k, reg), "W"), "W")
      f == [k EXCEPT !.N = x < 0, !.Z = FALSE, !.v = 0, !.C = FALSE]
  IN  IF x < 0 \/ x > SignedOf(Wrap(bound, "W"), "W") THEN ExceptionChk(f) ELSE f
-----------------------------------------------------------------------------
(* Logic: logical.rs *)

ExecAnd(k, size, x, y) ==
  LET r == BitAnd(Wrap(x, size), Wrap(y, size)) IN LogicFlags([k EXCEPT !.val = r], r, size)
ExecOr(k, size, x, y) ==
  LET r == BitOr(Wrap(x, size), Wrap(y, size)) IN LogicFlags([k EXCEPT !.val = r], r, size)
ExecEor(k, size, x, y) ==
  LET r == BitXor(Wrap(x, size), Wrap(y, size)) IN LogicFlags([k EXCEPT !.val = r], r, size)

ExecAndi(k, size, ea) ==
  LET i == ReadImmediate(k, size)
      and(s) == ExecAnd(s, size, i.val, s.val)
  IN  OnEa(i, ea, size, and)
ExecOri(k, size, ea) ==
  LET i == ReadImmediate(k, size)
      or(s)    == [s EXCEPT !.val = BitOr(i.val, @)]
      flags(s) == LogicFlags(s, s.val, size)
  IN  OnEaChecked(i, ea, size, or, flags)
ExecEori(k, size, ea) ==
  LET i == ReadImmediate(k, size)
      eor(s)   == [s EXCEPT !.val = BitXor(i.val, @)]
      flags(s) == LogicFlags(s, s.val, size)
  IN  OnEaChecked(i, ea, size, eor, flags)

\* The low byte of the next word on the condition codes.
Ccr(k) == GetSr(k) % Modulus["B"]
LowByte(k) == LET i == ReadImm16(k) IN [i EXCEPT !.val = Wrap(@, "B")]
ExecAndiCcr(k) == LET i == LowByte(k) IN SetCcr(i, BitAnd(Ccr(i), i.val))
ExecOriCcr(k)  == LET i == LowByte(k) IN SetCcr(i, BitOr(Ccr(i), i.val))
ExecEoriCcr(k) == LET i == LowByte(k) IN SetCcr(i, BitXor(Ccr(i), i.val))

\* On the status register, for the supervisor.
WrongPrivileged(k, then) == then

Privileged(k, then) == IF k.S THEN then ELSE TakeException(k, 8)
ExecAndiSr(k) ==
  LET i == ReadImmediate(k, "W") IN Privileged(k, SetSr(i, BitAnd(GetSr(i), i.val)))
ExecOriSr(k) ==
  LET i == ReadImmediate(k, "W") IN Privileged(k, SetSr(i, BitOr(GetSr(i), i.val)))
ExecEoriSr(k) ==
  LET i == ReadImmediate(k, "W") IN Privileged(k, SetSr(i, BitXor(GetSr(i), i.val)))
-----------------------------------------------------------------------------
(* Shifts and rotations: shift_rotate.rs.  X and C are the last bit out. *)

Shifted(k, r, size, c, x, v) ==
  [k EXCEPT !.val = r, !.N = Negative(r, size), !.Z = r = 0, !.C = c, !.X = x, !.v = v]

\* A shift by nothing clears V and C and leaves X.
Unshifted(k, value, size) == LogicFlags([k EXCEPT !.val = value], value, size)

Smaller(x, y) == IF x < y THEN x ELSE y

\* n doublings of value: the result, the last bit out and whether the sign changed.
RECURSIVE Double(_, _, _, _, _)
Double(value, n, size, last, overflow) ==
  LET next == Wrap(2 * value, size)
      top  == Negative(value, size)
  IN  IF n = 0 THEN [res |-> value, last |-> last, over |-> overflow]
      ELSE Double(next, n - 1, size, top, overflow \/ Negative(next, size) # top)

ExecAsl(k, size, count, value) ==
  LET n == count % 64
      f == Double(value, Smaller(n, Width[size]), size, FALSE, FALSE)
      c == n <= Width[size] /\ f.last
  IN  IF n = 0 THEN Unshifted(k, value, size)
      ELSE Shifted(k, f.res, size, c, c, IF f.over THEN VSet ELSE 0)

RECURSIVE HalveSigned(_, _, _)
HalveSigned(value, n, size) ==
  IF n = 0 THEN value
  ELSE HalveSigned((value \div 2) + (IF Negative(value, size) THEN Sign[size] ELSE 0), n - 1, size)

ExecAsr(k, size, count, value) ==
  LET n == Smaller(count % 64, Width[size])
      c == Odd(HalveSigned(value, n - 1, size))
  IN  IF n = 0 THEN Unshifted(k, value, size)
      ELSE Shifted(k, HalveSigned(value, n, size), size, c, c, 0)

ExecLsl(k, size, count, value) ==
  LET n == count % 64
      w == Width[size]
      c == IF n >= w THEN n = w /\ Odd(value) ELSE BitAt(value, w - n)
      r == IF n >= w THEN 0 ELSE (value % 2^(w - n)) * 2^n
  IN  IF n = 0 THEN Unshifted(k, value, size) ELSE Shifted(k, r, size, c, c, 0)

ExecLsr(k, size, count, value) ==
  LET n == count % 64
      w == Width[size]
      c == IF n >= w THEN n = w /\ Negative(value, size) ELSE BitAt(value, n - 1)
  IN  IF n = 0 THEN Unshifted(k, value, size)
      ELSE Shifted(k, IF n >= w THEN 0 ELSE value \div 2^n, size, c, c, 0)

\* A rotation by a multiple of the width goes all the way round, for its carry.
Turns(n, w) == IF n % w = 0 THEN w ELSE n % w

ExecRol(k, size, count, value) ==
  LET n == count % 64
      w == Width[size]
      t == Turns(n, w)
      r == (value % 2^(w - t)) * 2^t + value \div 2^(w - t)
  IN  IF n = 0 THEN Shifted(k, value, size, FALSE, k.X, 0) ELSE Shifted(k, r, size, Odd(r), k.X, 0)

ExecRor(k, size, count, value) ==
  LET n == count % 64
      w == Width[size]
      t == Turns(n, w)
      r == value \div 2^t + (value % 2^t) * 2^(w - t)
  IN  IF n = 0 THEN Shifted(k, value, size, FALSE, k.X, 0)
      ELSE Shifted(k, r, size, Negative(r, size), k.X, 0)

\* X is a bit of the ring: the count is taken modulo the width plus one.
ExecRoxl(k, size, count, value) ==
  LET w    == Width[size]
      n    == count % (w + 1)
      ring == value + Num(k.X) * Modulus[size]
      r    == (ring % 2^(w + 1 - n)) * 2^n + ring \div 2^(w + 1 - n)
      x    == r >= Modulus[size]
  IN  Shifted(k, Wrap(r, size), size, x, x, 0)

ExecRoxr(k, size, count, value) ==
  LET w    == Width[size]
      n    == count % (w + 1)
      ring == value + Num(k.X) * Modulus[size]
      r    == ring \div 2^n + (ring % 2^n) * 2^(w + 1 - n)
      x    == r >= Modulus[size]
  IN  Shifted(k, Wrap(r, size), size, x, x, 0)
-----------------------------------------------------------------------------
(* Decimal arithmetic: bcd.rs.  V is the sign of the result that was not one of *)
(* the sum of the low digits; the bits of v below the sign are kept, too.      *)

Complement(x) == Wrap(-1 - x, "W")

BcdAdd(k, src, dst) ==
  LET low   == (src % Nibble) + (dst % Nibble) + Num(k.X)
      sum   == (IF low >= Ten THEN low + (Nibble - Ten) ELSE low)
               + (src - (src % Nibble)) + (dst - (dst % Nibble))
      carry == sum > (Ten - 1) * (Nibble + 1)
      res   == IF carry THEN sum - Ten * Nibble ELSE sum
  IN  [k EXCEPT !.val = Wrap(res, "B"), !.X = carry, !.C = carry,
                !.N = BitAt(res, ByteBits - 1), !.Z = @ /\ Wrap(res, "B") = 0,
                !.v = BitAnd(Complement(low), res)]

\* Unsigned: below zero counts as above every limit.
BcdSub(k, src, dst) ==
  LET low   == (dst % Nibble) - (src % Nibble) - Num(k.X)
      diff  == (IF low < 0 \/ low >= Ten THEN low - (Nibble - Ten) ELSE low)
               + (dst - (dst % Nibble)) - (src - (src % Nibble))
      carry == diff < 0 \/ diff > (Ten - 1) * (Nibble + 1)
      res   == Wrap(IF carry THEN diff + Ten * Nibble ELSE diff, "B")
  IN  [k EXCEPT !.val = res, !.X = carry, !.C = carry, !.N = Negative(res, "B"),
                !.Z = @ /\ res = 0, !.v = BitAnd(Complement(low), res)]

\* The bytes below two addresses, the source first; the operation's result goes to
\* the second.
BcdMemory(k, src, dst, Op(_, _, _)) ==
  LET p == SetAddr(k, src, A(k, src) - AddrInc(src, "B"))
      q == SetAddr(p, dst, A(p, dst) - AddrInc(dst, "B"))
      x == Read(q, A(p, src), "B")
      y == Read(x, A(q, dst), "B")
      r == Op(y, x.val, y.val)
  IN  Write(r, A(q, dst), "B", r.val)

BcdRegister(k, src, dst, Op(_, _, _)) ==
  LET r == Op(k, Wrap(D(k, src), "B"), Wrap(D(k, dst), "B")) IN SetData(r, dst, "B", r.val)

ExecAbcd(k, src, dst, memory) ==
  IF memory THEN BcdMemory(k, src, dst, BcdAdd) ELSE BcdRegister(k, src, dst, BcdAdd)
ExecSbcd(k, src, dst, memory) ==
  IF memory THEN BcdMemory(k, src, dst, BcdSub) ELSE BcdRegister(k, src, dst, BcdSub)

\* A zero is left alone.
ExecNbcd(k, ea) ==
  LET e    == ReadResolved(ResolveEa(k, ea, "B"), "B")
      zero == Ten * Nibble - (Nibble - Ten)
      res  == Wrap(zero - e.val - Num(k.X), "B")
      low  == IF res % Nibble = Ten THEN Wrap((res - (res % Nibble)) + Nibble, "B") ELSE res
      none == [e EXCEPT !.N = Negative(res, "B"), !.v = 0, !.C = FALSE, !.X = FALSE]
      done == [e EXCEPT !.N = Negative(low, "B"), !.Z = @ /\ low = 0, !.C = TRUE, !.X = TRUE,
                        !.v = BitAnd(Complement(res), low)]
  IN  IF res = zero THEN none ELSE WriteResolved(done, "B", low)
-----------------------------------------------------------------------------
(* Multiplication and division: mul_div.rs *)

\* The flags of a product or a quotient.
ResultFlags(k, x, size) == [k EXCEPT !.N = Negative(x, size), !.Z = x = 0, !.v = 0, !.C = FALSE]

ExecMulu(k, ea, reg) ==
  LET s == ReadEa(k, ea, "W")
      r == s.val * Wrap(D(s, reg), "W")
  IN  IF Faulted(s) THEN s ELSE ResultFlags(SetDar(s, reg, r), r, "L")

ExecMuls(k, ea, reg) ==
  LET s == ReadEa(k, ea, "W")
      r == Wrap(SignedOf(s.val, "W") * SignedOf(Wrap(D(s, reg), "W"), "W"), "L")
  IN  IF Faulted(s) THEN s ELSE ResultFlags(SetDar(s, reg, r), r, "L")

\* A quotient too long for a word sets V and changes nothing else.
ExecDivu(k, ea, reg) ==
  LET s    == ReadEa(k, ea, "W")
      quot == D(s, reg) \div s.val
      rem  == D(s, reg) % s.val
  IN  IF Faulted(s) THEN s
      ELSE IF s.val = 0 THEN TakeException(s, 5)
      ELSE IF quot >= Modulus["W"] THEN [s EXCEPT !.v = VSet]
      ELSE ResultFlags(SetDar(s, reg, rem * Modulus["W"] + quot), quot, "W")

Magnitude(x) == IF x < 0 THEN -x ELSE x

\* Towards zero; the one quotient a long cannot hold is answered with 0.
ExecDivs(k, ea, reg) ==
  LET s    == ReadEa(k, ea, "W")
      src  == SignedOf(s.val, "W")
      dst  == SignedOf(D(s, reg), "L")
      size == Magnitude(dst) \div Magnitude(src)
      quot == IF (dst < 0) = (src < 0) THEN size ELSE -size
      rem  == dst - quot * src
      low  == Wrap(quot, "W")
  IN  IF Faulted(s) THEN s
      ELSE IF src = 0 THEN TakeException(s, 5)
      ELSE IF dst = -Sign["L"] /\ src = -1 THEN ResultFlags(SetDar(s, reg, 0), 0, "W")
      ELSE IF quot \notin -Sign["W"] .. Sign["W"] - 1 THEN [s EXCEPT !.v = VSet]
      ELSE ResultFlags(SetDar(s, reg, Wrap(rem, "W") * Modulus["W"] + low), low, "W")
-----------------------------------------------------------------------------
(* Bits: bit_manip.rs.  The whole register, or a byte. *)

BitSize(ea)   == IF IsRegister(ea) THEN "L" ELSE "B"
BitOf(n, ea)  == n % Width[BitSize(ea)]

\* Btst sets Z from not_z_flag, the bit itself.
ExecBtst(k, n, ea) ==
  LET s == ReadEa(k, ea, BitSize(ea)) IN [s EXCEPT !.Z = ~BitAt(s.val, BitOf(n, ea))]

\* The bit is set, cleared or turned round: with or without it, set says which.
ChangeBit(k, n, ea, set) ==
  LET size == BitSize(ea)
      bit  == BitOf(n, ea)
      s    == ReadResolved(ResolveEa(k, ea, size), size)
      old  == BitAt(s.val, bit)
      x    == s.val + 2^bit * (Num(set[old]) - Num(old))
  IN  WriteResolved([s EXCEPT !.Z = ~old], size, x)

ExecBset(k, n, ea) == ChangeBit(k, n, ea, [old \in BOOLEAN |-> TRUE])
ExecBclr(k, n, ea) == ChangeBit(k, n, ea, [old \in BOOLEAN |-> FALSE])
ExecBchg(k, n, ea) == ChangeBit(k, n, ea, [old \in BOOLEAN |-> ~old])

ExecTas(k, ea) ==
  LET s == ReadResolved(ResolveEa(k, ea, "B"), "B")
  IN  WriteResolved(LogicFlags(s, s.val, "B"), "B", BitOr(s.val, Sign["B"]))
-----------------------------------------------------------------------------
(* Data movement: data_movement.rs *)

\* The flags are set after a fault, too.
ExecMove(k, size, from, to) ==
  LET s == ReadEa(k, from, size) IN LogicFlags(WriteEa(s, to, size, s.val), s.val, size)

ExecMovea(k, size, from, reg) ==
  LET s == ReadEa(k, from, size) IN SetAddr(s, reg, Long(s.val, size))

ExecLea(k, ea, reg) == LET s == EaAddress(k, ea, "L") IN SetAddr(s, reg, s.val)
ExecPea(k, ea)      == LET s == EaAddress(k, ea, "L") IN Push(s, "L", s.val)

ExecExg(k, op) ==
  LET x == High(op) + (IF Bits(op, 3, 7) = 9 THEN 8 ELSE 0)
      y == Low(op) + (IF Bits(op, 3, 7) = 8 THEN 0 ELSE 8)
  IN  [k EXCEPT !.dar[x] = k.dar[y], !.dar[y] = k.dar[x]]

ExecLink(k, reg) ==
  LET p == Push(k, "L", A(k, reg))
      d == ReadImm16(SetAddr(p, reg, p.dar[15]))
  IN  SetDar(d, 15, d.dar[15] + Displacement(d.val))

ExecUnlk(k, reg) == LET s == Pull(SetDar(k, 15, A(k, reg)), "L") IN SetAddr(s, reg, s.val)

ExecSwap(k, reg) ==
  LET x == D(k, reg)
      y == Wrap(x, "W") * Modulus["W"] + x \div Modulus["W"]
  IN  LogicFlags(SetDar(k, reg, y), y, "L")

\* at holds the address; bit n of the list is register n, or 15 - n downwards.
RECURSIVE MovemOut(_, _, _, _, _, _)
MovemOut(k, at, list, n, size, down) ==
  LET here == IF down THEN Wrap(at - Bytes[size], "L") ELSE at
      w    == Write(k, here, size, k.dar[IF down THEN 15 - n ELSE n])
  IN  IF n = 16 THEN [k EXCEPT !.val = at]
      ELSE IF ~Bit(list, n) THEN MovemOut(k, at, list, n + 1, size, down)
      ELSE MovemOut(w, IF down THEN here ELSE Wrap(at + Bytes[size], "L"), list, n + 1, size, down)

RECURSIVE MovemIn(_, _, _, _, _, _)
MovemIn(k, at, list, n, size, down) ==
  LET here == IF down THEN Wrap(at - Bytes[size], "L") ELSE at
      r    == Read(k, here, size)
      s    == SetDar(r, IF down THEN 15 - n ELSE n, Long(r.val, size))
  IN  IF n = 16 THEN [k EXCEPT !.val = at]
      ELSE IF ~Bit(list, n) THEN MovemIn(k, at, list, n + 1, size, down)
      ELSE MovemIn(s, IF down THEN here ELSE Wrap(at + Bytes[size], "L"), list, n + 1, size, down)

ExecMovemToMem(k, size, ea, list) ==
  LET s    == EaAddress(k, ea, size)
      down == MovemOut(k, A(k, ea % 8), list, 0, size, TRUE)
  IN  IF Kind(ea) = 4 THEN SetAddr(down, ea % 8, down.val)
      ELSE MovemOut(s, s.val, list, 0, size, FALSE)

ExecMovemToReg(k, size, ea, list) ==
  LET s == EaAddress(k, ea, size)
      m == MovemIn(k, A(k, ea % 8), list, 0, size, Kind(ea) = 4)
  IN  IF Kind(ea) \in {3, 4} THEN SetAddr(m, ea % 8, m.val)
      ELSE MovemIn(s, s.val, list, 0, size, FALSE)
=============================================================================
