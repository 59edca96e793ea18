--------------------------- MODULE GuestBus_proofs ---------------------------
(***************************************************************************)
(* Proofs about GuestBus, for every model, set of accesses, place of the     *)
(* board, sequence of copper writes and number of steps: the bits of a byte; *)
(* what each register and each area of the map reads and keeps; what an      *)
(* access of the guest leaves of memory, log and shadows; the loop around    *)
(* it; and, step by step, that memory and registers are as the history has   *)
(* them.                                                                    *)
(***************************************************************************)
EXTENDS GuestBus, SequenceTheorems, WellFoundedInduction, TLAPS

(* A byte and the set of its bits *)

\* A byte is the weighted sum of its bits.
LEMMA BinaryOf ==
  ASSUME NEW x \in 0 .. 255
  PROVE  x = ((x \div 1) % 2) + 2 * ((x \div 2) % 2) + 4 * ((x \div 4) % 2) + 8 * ((x \div 8) % 2)
             + 16 * ((x \div 16) % 2) + 32 * ((x \div 32) % 2) + 64 * ((x \div 64) % 2)
             + 128 * ((x \div 128) % 2)
OBVIOUS

\* The weights.
LEMMA Weights ==
  /\ Weight[0 + 1] = 1 /\ Weight[1 + 1] = 2 /\ Weight[2 + 1] = 4 /\ Weight[3 + 1] = 8
  /\ Weight[4 + 1] = 16 /\ Weight[5 + 1] = 32 /\ Weight[6 + 1] = 64 /\ Weight[7 + 1] = 128
BY DEF Weight

\* The numbers a byte's bits have.
LEMMA Eight == \A b \in 0 .. 7 : b = 0 \/ b = 1 \/ b = 2 \/ b = 3 \/ b = 4 \/ b = 5 \/ b = 6 \/ b = 7
OBVIOUS

\* A sum of weights has the bits it is the sum of.
LEMMA BitsOfByteOf ==
  ASSUME NEW S
  PROVE  ByteOf(S) \in 0 .. 255 /\ BitsOf(ByteOf(S)) = S \cap (0 .. 7)
<1> DEFINE V(b) == IF b \in S THEN 1 ELSE 0
           x == ByteOf(S)
<1>1. \A b \in 0 .. 7 : V(b) \in 0 .. 1  OBVIOUS
<1>2. x = V(0) + 2 * V(1) + 4 * V(2) + 8 * V(3) + 16 * V(4) + 32 * V(5) + 64 * V(6) + 128 * V(7)
  BY Weights DEF ByteOf
<1> HIDE DEF x
<1>3. /\ x \in 0 .. 255
      /\ (x \div 1) % 2 = V(0) /\ (x \div 2) % 2 = V(1)
      /\ (x \div 4) % 2 = V(2) /\ (x \div 8) % 2 = V(3)
      /\ (x \div 16) % 2 = V(4) /\ (x \div 32) % 2 = V(5)
      /\ (x \div 64) % 2 = V(6) /\ (x \div 128) % 2 = V(7)
  <2> DEFINE v0 == V(0)  v1 == V(1)  v2 == V(2)  v3 == V(3)
             v4 == V(4)  v5 == V(5)  v6 == V(6)  v7 == V(7)
  <2>1. /\ v0 \in 0 .. 1 /\ v1 \in 0 .. 1 /\ v2 \in 0 .. 1 /\ v3 \in 0 .. 1
        /\ v4 \in 0 .. 1 /\ v5 \in 0 .. 1 /\ v6 \in 0 .. 1 /\ v7 \in 0 .. 1
    OBVIOUS
  <2>2. x = v0 + 2 * v1 + 4 * v2 + 8 * v3 + 16 * v4 + 32 * v5 + 64 * v6 + 128 * v7
    BY <1>2
  <2> HIDE DEF V, v0, v1, v2, v3, v4, v5, v6, v7
  <2>3. /\ x \in 0 .. 255
        /\ (x \div 1) % 2 = v0 /\ (x \div 2) % 2 = v1
        /\ (x \div 4) % 2 = v2 /\ (x \div 8) % 2 = v3
        /\ (x \div 16) % 2 = v4 /\ (x \div 32) % 2 = v5
        /\ (x \div 64) % 2 = v6 /\ (x \div 128) % 2 = v7
    BY <2>1, <2>2, SMTT(30)
  <2> QED  BY <2>3 DEF v0, v1, v2, v3, v4, v5, v6, v7
<1>4. \A b \in 0 .. 7 : (x \div Weight[b + 1]) % 2 = V(b)
  <2> SUFFICES ASSUME NEW b \in 0 .. 7  PROVE (x \div Weight[b + 1]) % 2 = V(b)
    OBVIOUS
  <2> HIDE DEF V
  <2> QED  BY <1>3, Eight, Weights
<1>5. \A b \in 0 .. 7 : b \in BitsOf(x) <=> b \in S
  BY <1>4 DEF BitsOf
<1>6. BitsOf(x) \subseteq 0 .. 7  BY DEF BitsOf
<1> QED  BY <1>3, <1>5, <1>6 DEF x

\* A byte is the sum of its bits' weights.
LEMMA ByteOfBitsOf ==
  ASSUME NEW x \in 0 .. 255
  PROVE  ByteOf(BitsOf(x)) = x /\ BitsOf(x) \subseteq 0 .. 7
<1> DEFINE D(w) == (x \div w) % 2
<1>1. \A b \in 0 .. 7 : b \in BitsOf(x) <=> (x \div Weight[b + 1]) % 2 = 1  BY DEF BitsOf
<1>2. /\ D(1) \in {0, 1} /\ D(2) \in {0, 1} /\ D(4) \in {0, 1} /\ D(8) \in {0, 1}
      /\ D(16) \in {0, 1} /\ D(32) \in {0, 1} /\ D(64) \in {0, 1} /\ D(128) \in {0, 1}
  OBVIOUS
<1>3. x = D(1) + 2 * D(2) + 4 * D(4) + 8 * D(8) + 16 * D(16) + 32 * D(32) + 64 * D(64) + 128 * D(128)
  BY BinaryOf
<1>4. /\ 0 \in BitsOf(x) <=> D(1) = 1
      /\ 1 \in BitsOf(x) <=> D(2) = 1
      /\ 2 \in BitsOf(x) <=> D(4) = 1
      /\ 3 \in BitsOf(x) <=> D(8) = 1
      /\ 4 \in BitsOf(x) <=> D(16) = 1
      /\ 5 \in BitsOf(x) <=> D(32) = 1
      /\ 6 \in BitsOf(x) <=> D(64) = 1
      /\ 7 \in BitsOf(x) <=> D(128) = 1
  BY <1>1, Weights
<1> HIDE DEF D
<1>5. ByteOf(BitsOf(x)) = x
  BY <1>2, <1>3, <1>4, Weights DEF ByteOf
<1> QED  BY <1>5 DEF BitsOf

\* A sum of weights is known by the eight bits.
LEMMA SameByte ==
  ASSUME NEW S, NEW T, \A b \in 0 .. 7 : b \in S <=> b \in T
  PROVE  ByteOf(S) = ByteOf(T)
<1>1. /\ 0 \in S <=> 0 \in T
      /\ 1 \in S <=> 1 \in T
      /\ 2 \in S <=> 2 \in T
      /\ 3 \in S <=> 3 \in T
      /\ 4 \in S <=> 4 \in T
      /\ 5 \in S <=> 5 \in T
      /\ 6 \in S <=> 6 \in T
      /\ 7 \in S <=> 7 \in T
  OBVIOUS
<1> QED  BY <1>1 DEF ByteOf

\* The bits of the complement.
LEMMA BitsOfNot ==
  ASSUME NEW x \in 0 .. 255
  PROVE  BitNot(x) \in 0 .. 255 /\ BitsOf(BitNot(x)) = (0 .. 7) \ BitsOf(x)
<1> DEFINE S == BitsOf(x)
           T == (0 .. 7) \ S
<1>1. \A b \in 0 .. 7 : b \in T <=> b \notin S  OBVIOUS
<1>2. /\ 0 \in T <=> 0 \notin S
      /\ 1 \in T <=> 1 \notin S
      /\ 2 \in T <=> 2 \notin S
      /\ 3 \in T <=> 3 \notin S
      /\ 4 \in T <=> 4 \notin S
      /\ 5 \in T <=> 5 \notin S
      /\ 6 \in T <=> 6 \notin S
      /\ 7 \in T <=> 7 \notin S
  <2> HIDE DEF S, T
  <2> QED  BY <1>1
<1> HIDE DEF S, T
<1>3. ByteOf(S) + ByteOf(T) = 255  BY <1>2, Weights DEF ByteOf
<1>4. x = ByteOf(S)  BY ByteOfBitsOf DEF S
<1>5. ByteOf(T) \in 0 .. 255 /\ BitsOf(ByteOf(T)) = T \cap (0 .. 7)  BY BitsOfByteOf
<1>6. BitNot(x) = ByteOf(T)  BY <1>3, <1>4, <1>5 DEF BitNot
<1>7. T \cap (0 .. 7) = (0 .. 7) \ BitsOf(x)  BY DEF S, T
<1> QED  BY <1>5, <1>6, <1>7

\* The bits of a byte without the highest.
LEMMA BitsOfLow ==
  ASSUME NEW x \in 0 .. 255
  PROVE  /\ x % 128 \in 0 .. 255
         /\ BitsOf(x % 128) = BitsOf(x) \ {7}
         /\ x >= 128 <=> 7 \in BitsOf(x)
<1> DEFINE y == x % 128
<1>1. /\ y \in 0 .. 127
      /\ (y \div 1) % 2 = (x \div 1) % 2 /\ (y \div 2) % 2 = (x \div 2) % 2
      /\ (y \div 4) % 2 = (x \div 4) % 2 /\ (y \div 8) % 2 = (x \div 8) % 2
      /\ (y \div 16) % 2 = (x \div 16) % 2 /\ (y \div 32) % 2 = (x \div 32) % 2
      /\ (y \div 64) % 2 = (x \div 64) % 2 /\ (y \div 128) % 2 = 0
      /\ (x \div 128) % 2 = 1 <=> x >= 128
  OBVIOUS
<1> HIDE DEF y
<1>2. \A b \in 0 .. 7 : b # 7 => (y \div Weight[b + 1]) % 2 = (x \div Weight[b + 1]) % 2
  BY <1>1, Eight, Weights, SMTT(30)
<1>3. Weight[7 + 1] = 128 /\ 7 \in 0 .. 7  BY Weights
<1>4. \A b \in 0 .. 7 : b \in BitsOf(y) <=> b # 7 /\ b \in BitsOf(x)
  BY <1>1, <1>2, <1>3 DEF BitsOf
<1>5. BitsOf(y) \subseteq 0 .. 7 /\ BitsOf(x) \subseteq 0 .. 7  BY DEF BitsOf
<1>6. x >= 128 <=> 7 \in BitsOf(x)  BY <1>1, <1>3 DEF BitsOf
<1>7. y \in 0 .. 255  BY <1>1
<1> QED  BY <1>4, <1>5, <1>6, <1>7 DEF y

\* Two nibbles, one of them the high one.
LEMMA Nibbles ==
  ASSUME NEW h \in 0 .. 15, NEW l \in 0 .. 15
  PROVE  BitOr(16 * h, l) = 16 * h + l
<1> DEFINE x == 16 * h
           y == 16 * h + l
<1>1. /\ y \in 0 .. 255
      /\ (x \div 1) % 2 = 0 /\ (x \div 2) % 2 = 0 /\ (x \div 4) % 2 = 0 /\ (x \div 8) % 2 = 0
      /\ (l \div 16) % 2 = 0 /\ (l \div 32) % 2 = 0 /\ (l \div 64) % 2 = 0
      /\ (l \div 128) % 2 = 0
      /\ (y \div 1) % 2 = (l \div 1) % 2 /\ (y \div 2) % 2 = (l \div 2) % 2
      /\ (y \div 4) % 2 = (l \div 4) % 2 /\ (y \div 8) % 2 = (l \div 8) % 2
      /\ (y \div 16) % 2 = (x \div 16) % 2 /\ (y \div 32) % 2 = (x \div 32) % 2
      /\ (y \div 64) % 2 = (x \div 64) % 2 /\ (y \div 128) % 2 = (x \div 128) % 2
  BY SMTT(30)
<1>2. BitOr(x, l) = ByteOf(BitsOf(x) \cup BitsOf(l))  BY DEF BitOr
<1> HIDE DEF x, y
<1>3. \A b \in 0 .. 7 : /\ b \in BitsOf(y) <=> (y \div Weight[b + 1]) % 2 = 1
                        /\ b \in BitsOf(x) <=> (x \div Weight[b + 1]) % 2 = 1
                        /\ b \in BitsOf(l) <=> (l \div Weight[b + 1]) % 2 = 1
  BY DEF BitsOf
<1>4. \A b \in 0 .. 7 : b \in BitsOf(x) \cup BitsOf(l) <=> b \in BitsOf(y)
  <2> SUFFICES ASSUME NEW b \in 0 .. 7
               PROVE  b \in BitsOf(x) \cup BitsOf(l) <=> b \in BitsOf(y)
    OBVIOUS
  <2>1. \/ (x \div Weight[b + 1]) % 2 = 0 /\ (y \div Weight[b + 1]) % 2 = (l \div Weight[b + 1]) % 2
        \/ (l \div Weight[b + 1]) % 2 = 0 /\ (y \div Weight[b + 1]) % 2 = (x \div Weight[b + 1]) % 2
    BY <1>1, Eight, Weights
  <2> QED  BY <1>3, <2>1
<1>5. ByteOf(BitsOf(x) \cup BitsOf(l)) = ByteOf(BitsOf(y))  BY <1>4, SameByte
<1>6. ByteOf(BitsOf(y)) = y  BY <1>1, ByteOfBitsOf
<1> QED  BY <1>2, <1>5, <1>6 DEF x, y

\* Nothing added to a byte.
LEMMA OrNothing ==
  ASSUME NEW x \in 0 .. 255
  PROVE  BitOr(x, 0) = x
<1>1. \A b \in 0 .. 7 : (0 \div Weight[b + 1]) % 2 = 0
  BY Eight, Weights
<1>2. BitsOf(0) = {}  BY <1>1 DEF BitsOf
<1>3. BitsOf(x) \cup {} = BitsOf(x)  OBVIOUS
<1> QED  BY <1>2, <1>3, ByteOfBitsOf, ZenonT(30) DEF BitOr

\* What a set/clear write leaves in a shadow is the shadow of what it leaves in
\* the register.
LEMMA ShadowOfSetClear ==
  ASSUME NEW bits, bits \subseteq 0 .. 14, NEW word \in WordValue
  PROVE  /\ SetClear(bits, word) \subseteq 0 .. 14
         /\ ShadowBits(Word(bits), word) = Word(SetClear(bits, word))
<1> DEFINE hi == {b \in 0 .. 7 : b + 8 \in bits}
           w1 == word[1] % 128
           after == SetClear(bits, word)
           hiAfter == {b \in 0 .. 7 : b + 8 \in after}
<1>1. word[1] \in 0 .. 255 /\ word[2] \in 0 .. 255  BY DEF WordValue, ByteValue
<1>2. /\ w1 \in 0 .. 255 /\ BitsOf(w1) = BitsOf(word[1]) \ {7}
      /\ BitsOf(word[1]) \subseteq 0 .. 7 /\ BitsOf(word[2]) \subseteq 0 .. 7
  BY <1>1, BitsOfLow, ZenonT(30) DEF BitsOf
<1>3. BitsOf(ByteOf(hi)) = hi /\ BitsOf(ByteOf(bits)) = bits \cap (0 .. 7)
  BY BitsOfByteOf
<1>4. Word(bits) = <<ByteOf(hi), ByteOf(bits)>> /\ Word(after) = <<ByteOf(hiAfter), ByteOf(after)>>
  BY DEF Word
<1>5. Bits(word) \subseteq 0 .. 14  BY <1>2 DEF Bits
<1>6. after \subseteq 0 .. 14  BY <1>5, ZenonT(30) DEF SetClear
<1>7. \A b \in 0 .. 7 : b \in Bits(word) <=> b \in BitsOf(word[2])
  BY <1>2 DEF Bits
<1>8. \A b \in 0 .. 7 : b + 8 \in Bits(word) <=> b \in BitsOf(w1)
  <2> SUFFICES ASSUME NEW b \in 0 .. 7  PROVE b + 8 \in Bits(word) <=> b \in BitsOf(w1)
    OBVIOUS
  <2>1. b + 8 \notin BitsOf(word[2])  BY <1>2
  <2>2. b + 8 \in 8 .. 14 <=> b # 7  OBVIOUS
  <2>3. (b + 8) - 8 = b  OBVIOUS
  <2> QED  BY <1>2, <2>1, <2>2, <2>3 DEF Bits
<1>9. CASE word[1] >= 128
  <2>1. after = bits \cup Bits(word)  BY <1>9 DEF SetClear
  <2> HIDE DEF w1, after
  <2>2. \A b \in 0 .. 7 : /\ b \in after <=> b \in (bits \cap (0 .. 7)) \cup BitsOf(word[2])
                          /\ b \in hiAfter <=> b \in hi \cup BitsOf(w1)
    BY <1>7, <1>8, <2>1
  <2> HIDE DEF hi, hiAfter
  <2>3. ByteOf(after) = ByteOf((bits \cap (0 .. 7)) \cup BitsOf(word[2]))
        /\ ByteOf(hiAfter) = ByteOf(hi \cup BitsOf(w1))
    BY <2>2, SameByte
  <2>4. ShadowBits(Word(bits), word) = <<BitOr(ByteOf(hi), w1), BitOr(ByteOf(bits), word[2])>>
    BY <1>4, <1>9 DEF ShadowBits, w1
  <2>5. BitOr(ByteOf(hi), w1) = ByteOf(hiAfter) /\ BitOr(ByteOf(bits), word[2]) = ByteOf(after)
    BY <1>3, <2>3 DEF BitOr
  <2> QED  BY <1>4, <1>6, <2>4, <2>5 DEF after
<1>10. CASE ~(word[1] >= 128)
  <2>1. after = bits \ Bits(word)  BY <1>10 DEF SetClear
  <2>2. BitsOf(BitNot(word[2])) = (0 .. 7) \ BitsOf(word[2])
        /\ BitsOf(BitNot(w1)) = (0 .. 7) \ BitsOf(w1)
    BY <1>1, <1>2, BitsOfNot, ZenonT(30)
  <2> HIDE DEF w1, after
  <2>3. \A b \in 0 .. 7 : /\ b \in after <=> b \in (bits \cap (0 .. 7)) \cap BitsOf(BitNot(word[2]))
                          /\ b \in hiAfter <=> b \in hi \cap BitsOf(BitNot(w1))
    BY <1>7, <1>8, <2>1, <2>2
  <2> HIDE DEF hi, hiAfter
  <2>4. ByteOf(after) = ByteOf((bits \cap (0 .. 7)) \cap BitsOf(BitNot(word[2])))
        /\ ByteOf(hiAfter) = ByteOf(hi \cap BitsOf(BitNot(w1)))
    BY <2>3, SameByte
  <2>5. ShadowBits(Word(bits), word)
          = <<BitAnd(ByteOf(hi), BitNot(w1)), BitAnd(ByteOf(bits), BitNot(word[2]))>>
    BY <1>4, <1>10 DEF ShadowBits, w1
  <2>6. BitAnd(ByteOf(hi), BitNot(w1)) = ByteOf(hiAfter)
        /\ BitAnd(ByteOf(bits), BitNot(word[2])) = ByteOf(after)
    BY <1>3, <2>4 DEF BitAnd
  <2> QED  BY <1>4, <1>6, <2>5, <2>6 DEF after
<1> QED  BY <1>9, <1>10
-----------------------------------------------------------------------------
(* The records, as functions *)

BusField == {"model", "ram", "overlay", "custom", "log", "pra", "prbDirty", "flagEnabled",
             "diskStatus", "mouseLeft", "dskbytr", "ciaA", "ciaB", "gayle", "ide", "board"}

BoardField == {"enabled", "configured", "shutUp", "base", "mapHi", "mapLo", "rap", "csr"}

MachineField == {"bus", "dmacon", "intena", "intreq"}

KnownField == {"cells", "overlay", "unplaced", "boardAt", "adkcon"}

IsBoard(board) == board = [f \in BoardField |-> board[f]]

IsChip(chip) == chip = [r \in 0 .. 15 |-> chip[r]]

IsBus(bus) == /\ bus = [f \in BusField |-> bus[f]]
              /\ IsBoard(bus.board) /\ IsChip(bus.ciaA) /\ IsChip(bus.ciaB)

IsMachine(m) == m = [f \in MachineField |-> m[f]] /\ IsBus(m.bus)

IsKnown(known) == known = [f \in KnownField |-> known[f]]

\* What two states of the memory subsystem have in common when nothing happened
\* to the memory, and when nothing happened to the custom registers.
SameMemory(b, c) ==
  /\ IsBus(c)
  /\ c.model = b.model /\ c.ram = b.ram /\ c.overlay = b.overlay /\ c.board = b.board
  /\ \A r \in (0 .. 15) \ {ICR} : c.ciaA[r] = b.ciaA[r] /\ c.ciaB[r] = b.ciaB[r]

SameRegisters(b, c) == c.custom = b.custom /\ c.log = b.log

Same(b, c) == SameMemory(b, c) /\ SameRegisters(b, c)

\* Sameness of two buses is reflexive, and it chains.
LEMMA SameIsReflexive ==
  ASSUME NEW b, IsBus(b)
  PROVE  Same(b, b)
BY DEF Same, SameMemory, SameRegisters

LEMMA SameIsTransitive ==
  ASSUME NEW b, NEW c, NEW d
  PROVE  /\ SameMemory(b, c) /\ SameMemory(c, d) => SameMemory(b, d)
         /\ Same(b, c) /\ Same(c, d) => Same(b, d)
<1>1. SameMemory(b, c) /\ SameMemory(c, d) => SameMemory(b, d)
  BY DEF SameMemory
<1>2. SameRegisters(b, c) /\ SameRegisters(c, d) => SameRegisters(b, d)
  BY DEF SameRegisters
<1> QED  BY <1>1, <1>2 DEF Same
-----------------------------------------------------------------------------
(* Reading *)

\* Reading a register of a CIA changes its ICR only.
LEMMA ReadChipKeeps ==
  ASSUME NEW chip, IsChip(chip), NEW r \in 0 .. 15
  PROVE  /\ IsChip(ReadChip(chip, r))
         /\ \A q \in (0 .. 15) \ {ICR} : ReadChip(chip, r)[q] = chip[q]
BY DEF IsChip, ReadChip, ICR

\* Reading a CIA, ICR included, leaves memory, log and shadows as they were.
LEMMA ReadCiaKeeps ==
  ASSUME NEW b, IsBus(b), NEW r \in 0 .. 15
  PROVE  Same(b, ReadCiaA(b, r).bus) /\ Same(b, ReadCiaB(b, r).bus)
<1> DEFINE A == [b EXCEPT !.ciaA = ReadChip(@, r)]
           B == [b EXCEPT !.ciaB = ReadChip(@, r)]
<1>1. /\ IsChip(ReadChip(b.ciaA, r)) /\ IsChip(ReadChip(b.ciaB, r))
      /\ \A q \in (0 .. 15) \ {ICR} : /\ ReadChip(b.ciaA, r)[q] = b.ciaA[q]
                                      /\ ReadChip(b.ciaB, r)[q] = b.ciaB[q]
  BY ReadChipKeeps, SMTT(30) DEF IsBus
<1>2. Same(b, A)
  BY <1>1 DEF IsBus, BusField, Same, SameMemory, SameRegisters
<1>3. Same(b, B)
  BY <1>1 DEF IsBus, BusField, Same, SameMemory, SameRegisters
<1>4. Same(b, b)  BY SameIsReflexive
<1>5. ReadCiaA(b, r).bus = b \/ ReadCiaA(b, r).bus = A
  BY DEF ReadCiaA, Answer
<1>6. ReadCiaB(b, r).bus = B
  BY DEF ReadCiaB, Answer
<1> QED  BY <1>2, <1>3, <1>4, <1>5, <1>6

LEMMA ReadCiaByteKeeps ==
  ASSUME NEW b, IsBus(b), NEW a \in Nat
  PROVE  Same(b, ReadCiaByte(b, a).bus)
<1>1. CiaRegister(a) \in 0 .. 15  BY DEF CiaRegister
<1>2. /\ Same(b, ReadCiaA(b, CiaRegister(a)).bus)
      /\ Same(b, ReadCiaB(b, CiaRegister(a)).bus)
      /\ Same(b, b)
  BY <1>1, ReadCiaKeeps, SameIsReflexive
<1> QED  BY <1>2 DEF ReadCiaByte, Answer

LEMMA ReadCiaWordKeeps ==
  ASSUME NEW b, IsBus(b), NEW a \in Nat
  PROVE  Same(b, ReadCiaWord(b, a).bus)
<1> DEFINE high == CiaHigh(b, a)
           low == CiaLow(high.bus, a)
<1>1. CiaRegister(a) \in 0 .. 15  BY DEF CiaRegister
<1>2. Same(b, high.bus)
  <2>1. Same(b, ReadCiaB(b, CiaRegister(a)).bus) /\ Same(b, b)
    BY <1>1, ReadCiaKeeps, SameIsReflexive
  <2> QED  BY <2>1 DEF CiaHigh, Answer
<1>3. IsBus(high.bus)  BY <1>2 DEF Same, SameMemory
<1> HIDE DEF high
<1>4. Same(high.bus, low.bus)
  <2>1. Same(high.bus, ReadCiaA(high.bus, CiaRegister(a)).bus) /\ Same(high.bus, high.bus)
    BY <1>1, <1>3, ReadCiaKeeps, SameIsReflexive
  <2> QED  BY <2>1 DEF CiaLow, Answer
<1>5. ReadCiaWord(b, a).bus = low.bus
  BY DEF ReadCiaWord, InOrder, ThenCiaLow, Joined, Answer, high
<1> QED  BY <1>2, <1>4, <1>5, SameIsTransitive

\* So do reads of Gayle, whose data port moves the drive's buffer only.
LEMMA ReadGayleKeeps ==
  ASSUME NEW b, IsBus(b), NEW a
  PROVE  Same(b, ReadGayle(b, a).bus) /\ Same(b, ReadGayleId(b, a).bus)
<1> DEFINE Released == [b EXCEPT !.ide.pendingIrq = FALSE, !.gayle.irq = @ % 128]
           Shifted == [b EXCEPT !.gayle.id = (@ + 1) % 256]
<1>1. Same(b, b)  BY SameIsReflexive
<1>2. Same(b, Released)
  BY ZenonT(30) DEF IsBus, BusField, Same, SameMemory, SameRegisters
<1>3. Same(b, Shifted)
  BY DEF IsBus, BusField, Same, SameMemory, SameRegisters
<1> HIDE DEF Released, Shifted
<1>4. \A r : ReadIde(b, r).bus = b \/ ReadIde(b, r).bus = Released
  <2> SUFFICES ASSUME NEW r  PROVE ReadIde(b, r).bus = b \/ ReadIde(b, r).bus = Released
    OBVIOUS
  <2>1. CASE r = 7
    <3>1. ReadIde(b, r) = Answer(<<b.ide.reg[7]>>, Released)  BY <2>1 DEF ReadIde, Released
    <3> QED  BY <3>1 DEF Answer
  <2>2. CASE r # 7
    <3>1. r \notin 0 .. 6 \/ r \in 0 .. 6  OBVIOUS
    <3> QED  BY <2>2 DEF ReadIde, Answer
  <2> QED  BY <2>1, <2>2
<1>5. ReadGayle(b, a).bus = b \/ ReadGayle(b, a).bus = Released
  BY <1>4 DEF ReadGayle, Answer
<1>6. ReadGayleId(b, a).bus = b \/ ReadGayleId(b, a).bus = Shifted
  BY DEF ReadGayleId, Answer, Shifted
<1> QED  BY <1>1, <1>2, <1>3, <1>5, <1>6

\* So do reads of the custom registers.
LEMMA ReadCustomKeeps ==
  ASSUME NEW b, IsBus(b), NEW a
  PROVE  /\ \A r : Same(b, ReadCustom(b, r).bus)
         /\ Same(b, ReadCustomByte(b, a).bus)
<1> DEFINE Taken == [b EXCEPT !.dskbytr = <<@[1] % 128, @[2]>>]
<1>1. Same(b, b)  BY SameIsReflexive
<1>2. Same(b, Taken)
  BY DEF IsBus, BusField, Same, SameMemory, SameRegisters
<1> HIDE DEF Taken
<1>3. \A r : ReadCustom(b, r).bus = b \/ ReadCustom(b, r).bus = Taken
  BY DEF ReadCustom, Answer, Taken
<1>4. ReadCustomByte(b, a).bus = ReadCustom(b, RegisterOf(a)).bus
  BY DEF ReadCustomByte, Answer
<1> QED  BY <1>1, <1>2, <1>3, <1>4

\* The regions of the map.
LEMMA Regions ==
  ASSUME NEW model, NEW a \in Nat
  PROVE  /\ Region(model, a) \in {"chip", "fast", "pcmcia", "free", "cia", "slow", "gayle",
                                  "gayleId", "custom", "romMirror"}
         /\ Region(model, a) = "chip" <=> a < \h200000
         /\ Region(model, a) = "cia" <=> InCia(a)
         /\ Region(model, a) \in {"gayle", "gayleId"} <=> Within(a, \hD80000, \hDF0000)
         /\ Region(model, a) = "custom" <=> Within(a, \hDFF000, \hE00000)
         /\ Region(model, a) = "romMirror" <=> Within(a, \hE00000, \hE80000)
BY DEF Region, Within, InCia

\* The sizes of a machine's memory.
LEMMA Sizes ==
  ASSUME NEW model \in Model
  PROVE  /\ model.chip \in Nat /\ model.chip > 0
         /\ model.slow \in Nat /\ model.slow <= \h80000
         /\ model.fast \in Nat /\ model.fast <= \h800000
         /\ model.rom \in {\h40000, \h80000}
BY SMT DEF Model, UpTo

\* The ROM lies over what else is at an address.
Hidden(b, a) == b.overlay /\ a < b.model.rom

\* What the plain regions hold.
ChipByte(b, a) == Stored(b, <<"chip", a % b.model.chip>>)
FastByte(b, a) == Stored(b, <<"fast", a - \h200000>>)
SlowByte(b, a) == Stored(b, <<"slow", a - \hC00000>>)
MirrorByte(b, a) == RomByte((a - \hE00000) % b.model.rom)
TopByte(b, a) ==
  IF Within(a, RomBase(b.model), \h1000000) /\ a - RomBase(b.model) < b.model.rom
  THEN RomByte(a - RomBase(b.model)) ELSE 255
FreeByte(b, a) == IF BoardTakes(b, a) THEN BoardReadByte(b, a) ELSE TopByte(b, a)

\* A byte read without an effect.
OneByte(x, b) == Answer(<<x>>, b)

\* What a byte is read from, region by region.
LEMMA ReadByteIs ==
  ASSUME NEW b, b.model \in Model, NEW a \in Nat
  PROVE  /\ Hidden(b, a) => ReadByte(b, a) = OneByte(RomByte(a), b)
         /\ ~Hidden(b, a) /\ Region(b.model, a) = "chip" =>
              ReadByte(b, a) = OneByte(ChipByte(b, a), b)
         /\ ~Hidden(b, a) /\ Region(b.model, a) = "fast" =>
              ReadByte(b, a) = OneByte(FastByte(b, a), b)
         /\ ~Hidden(b, a) /\ Region(b.model, a) = "slow" =>
              ReadByte(b, a) = OneByte(SlowByte(b, a), b)
         /\ ~Hidden(b, a) /\ Region(b.model, a) = "pcmcia" =>
              ReadByte(b, a) = OneByte(255, b)
         /\ ~Hidden(b, a) /\ Region(b.model, a) = "cia" =>
              ReadByte(b, a) = ReadCiaByte(b, a)
         /\ ~Hidden(b, a) /\ Region(b.model, a) = "gayle" =>
              ReadByte(b, a) = ReadGayle(b, a)
         /\ ~Hidden(b, a) /\ Region(b.model, a) = "gayleId" =>
              ReadByte(b, a) = ReadGayleId(b, a)
         /\ ~Hidden(b, a) /\ Region(b.model, a) = "custom" =>
              ReadByte(b, a) = ReadCustomByte(b, a)
         /\ ~Hidden(b, a) /\ Region(b.model, a) = "romMirror" =>
              ReadByte(b, a) = OneByte(MirrorByte(b, a), b)
         /\ ~Hidden(b, a) /\ Region(b.model, a) = "free" =>
              ReadByte(b, a) = OneByte(FreeByte(b, a), b)
<1> DEFINE region == Region(b.model, a)
<1>1. CASE Hidden(b, a)
  <2>1. b.model.rom \in {\h40000, \h80000}  BY Sizes, SMT
  <2>2. region = "chip"  BY <1>1, <2>1, Regions, SMT DEF Hidden
  <2>3. ReadByte(b, a) = OneByte(RomByte(a), b)  BY <1>1, <2>2, SMT DEF OneByte, ReadByte, Hidden
  <2> QED  BY <1>1, <2>3
<1>2. CASE ~Hidden(b, a) /\ region = "chip"
  <2>1. ReadByte(b, a) = OneByte(ChipByte(b, a), b)
    BY <1>2, SMT DEF OneByte, ReadByte, Hidden, ChipByte
  <2> QED  BY <1>2, <2>1
<1>3. CASE ~Hidden(b, a) /\ region = "fast"
  <2>1. ReadByte(b, a) = OneByte(FastByte(b, a), b)
    BY <1>3, SMT DEF OneByte, ReadByte, Hidden, FastByte
  <2> QED  BY <1>3, <2>1
<1>4. CASE ~Hidden(b, a) /\ region = "slow"
  <2>1. ReadByte(b, a) = OneByte(SlowByte(b, a), b)
    BY <1>4, SMT DEF OneByte, ReadByte, Hidden, SlowByte
  <2> QED  BY <1>4, <2>1
<1>5. CASE ~Hidden(b, a) /\ region = "pcmcia"
  <2>1. ReadByte(b, a) = OneByte(255, b)
    BY <1>5, SMT DEF OneByte, ReadByte, Hidden
  <2> QED  BY <1>5, <2>1
<1>6. CASE ~Hidden(b, a) /\ region = "cia"
  <2>1. ReadByte(b, a) = ReadCiaByte(b, a)
    BY <1>6, SMT DEF OneByte, ReadByte, Hidden
  <2> QED  BY <1>6, <2>1
<1>7. CASE ~Hidden(b, a) /\ region = "gayle"
  <2>1. ReadByte(b, a) = ReadGayle(b, a)
    BY <1>7, SMT DEF OneByte, ReadByte, Hidden
  <2> QED  BY <1>7, <2>1
<1>8. CASE ~Hidden(b, a) /\ region = "gayleId"
  <2>1. ReadByte(b, a) = ReadGayleId(b, a)
    BY <1>8, SMT DEF OneByte, ReadByte, Hidden
  <2> QED  BY <1>8, <2>1
<1>9. CASE ~Hidden(b, a) /\ region = "custom"
  <2>1. ReadByte(b, a) = ReadCustomByte(b, a)
    BY <1>9, SMT DEF OneByte, ReadByte, Hidden
  <2> QED  BY <1>9, <2>1
<1>10. CASE ~Hidden(b, a) /\ region = "romMirror"
  <2>1. ReadByte(b, a) = OneByte(MirrorByte(b, a), b)
    BY <1>10, SMT DEF OneByte, ReadByte, Hidden, MirrorByte
  <2> QED  BY <1>10, <2>1
<1>11. CASE ~Hidden(b, a) /\ region = "free"
  <2>1. ReadByte(b, a) = OneByte(FreeByte(b, a), b)
    BY <1>11, SMT DEF OneByte, ReadByte, Hidden, FreeByte, TopByte
  <2> QED  BY <1>11, <2>1
<1>12. region \in {"chip", "fast", "slow", "pcmcia", "cia", "gayle", "gayleId", "custom", "romMirror", "free"}
  BY Regions
<1> QED  BY <1>1, <1>2, <1>3, <1>4, <1>5, <1>6, <1>7, <1>8, <1>9, <1>10, <1>11, <1>12, SMTT(30)

\* A byte read anywhere in the map leaves memory, log and shadows as they were.
LEMMA ReadByteKeeps ==
  ASSUME NEW b, IsBus(b), b.model \in Model, NEW a \in Nat
  PROVE  Same(b, ReadByte(b, a).bus)
<1> DEFINE region == Region(b.model, a)
<1>1. Same(b, b)  BY SameIsReflexive
<1>2. region \in {"chip", "fast", "pcmcia", "free", "cia", "slow", "gayle",
                  "gayleId", "custom", "romMirror"}
  BY Regions
<1>3. /\ Same(b, ReadCiaByte(b, a).bus) /\ Same(b, ReadGayle(b, a).bus)
      /\ Same(b, ReadGayleId(b, a).bus) /\ Same(b, ReadCustomByte(b, a).bus)
  BY ReadCiaByteKeeps, ReadGayleKeeps, ReadCustomKeeps
<1>4. \A x : OneByte(x, b).bus = b  BY DEF Answer, OneByte
<1> HIDE DEF region
<1>5. \/ ReadByte(b, a).bus = b
      \/ ReadByte(b, a) = ReadCiaByte(b, a)
      \/ ReadByte(b, a) = ReadGayle(b, a)
      \/ ReadByte(b, a) = ReadGayleId(b, a)
      \/ ReadByte(b, a) = ReadCustomByte(b, a)
  <2>1. CASE Hidden(b, a)
    BY <1>4, <2>1, ReadByteIs, SMT
  <2>2. CASE ~Hidden(b, a)
    BY <1>2, <1>4, <2>2, ReadByteIs, SMT DEF region
  <2> QED  BY <2>1, <2>2
<1> QED  BY <1>1, <1>3, <1>5

\* What a word is read from.
WordAtOnce(x, b) == Answer(x, b)

ReadsCustom(b, a) == ReadCustom(b, RegisterOf(a))

ReadsBytes(b, a) == ThenByte(ReadByte(b, a), a)

\* The cascade of read_word, one area at a time.
LEMMA ReadWordIs ==
  ASSUME NEW b, NEW a
  PROVE  /\ IdeRegister(a) = 0 => ReadWord(b, a) = WordAtOnce(b.ide.data, b)
         /\ IdeRegister(a) # 0 /\ InCia(a) => ReadWord(b, a) = ReadCiaWord(b, a)
         /\ IdeRegister(a) # 0 /\ ~InCia(a) /\ BoardTakes(b, a) =>
              ReadWord(b, a) = WordAtOnce(BoardReadWord(b, a), b)
         /\ IdeRegister(a) # 0 /\ ~InCia(a) /\ ~BoardTakes(b, a) /\ Within(a, \hDFF000, \hE00000) =>
              ReadWord(b, a) = ReadsCustom(b, a)
         /\ IdeRegister(a) # 0 /\ ~InCia(a) /\ ~BoardTakes(b, a) /\ ~Within(a, \hDFF000, \hE00000) =>
              ReadWord(b, a) = ReadsBytes(b, a)
<1>1. CASE IdeRegister(a) = 0
  <2>1. ReadWord(b, a) = WordAtOnce(b.ide.data, b)  BY <1>1, SMT DEF ReadWord, WordAtOnce
  <2> QED  BY <1>1, <2>1, SMT
<1>2. CASE IdeRegister(a) # 0 /\ InCia(a)
  <2>1. ReadWord(b, a) = ReadCiaWord(b, a)  BY <1>2, SMT DEF ReadWord, InCia
  <2> QED  BY <1>2, <2>1, SMT
<1>3. CASE IdeRegister(a) # 0 /\ ~InCia(a) /\ BoardTakes(b, a)
  <2>1. ReadWord(b, a) = WordAtOnce(BoardReadWord(b, a), b)
    BY <1>3, SMT DEF ReadWord, WordAtOnce, InCia
  <2> QED  BY <1>3, <2>1, SMT
<1>4. CASE IdeRegister(a) # 0 /\ ~InCia(a) /\ ~BoardTakes(b, a) /\ Within(a, \hDFF000, \hE00000)
  BY <1>4, SMT DEF ReadWord, InCia, ReadsCustom
<1>5. CASE IdeRegister(a) # 0 /\ ~InCia(a) /\ ~BoardTakes(b, a) /\ ~Within(a, \hDFF000, \hE00000)
  BY <1>5, SMT DEF ReadWord, InCia, ReadsBytes
<1> QED  BY <1>1, <1>2, <1>3, <1>4, <1>5, SMT

\* A word read anywhere in the map leaves memory, log and shadows as they were.
LEMMA ReadWordKeeps ==
  ASSUME NEW b, IsBus(b), b.model \in Model, NEW a \in Nat
  PROVE  Same(b, ReadWord(b, a).bus)
<1>1. Same(b, b)  BY SameIsReflexive
<1>2. Same(b, ReadCiaWord(b, a).bus)  BY ReadCiaWordKeeps
<1>3. Same(b, ReadsCustom(b, a).bus)  BY ReadCustomKeeps DEF ReadsCustom
<1>4. Same(b, ReadsBytes(b, a).bus)
  <2> DEFINE high == ReadByte(b, a).bus
             low == ReadByte(high, a + 1).bus
  <2>1. Same(b, high)  BY ReadByteKeeps
  <2>2. IsBus(high) /\ high.model \in Model /\ a + 1 \in Nat  BY <2>1 DEF Same, SameMemory
  <2> HIDE DEF high
  <2>3. Same(high, low)  BY <2>2, ReadByteKeeps
  <2>4. ReadsBytes(b, a).bus = low  BY DEF ReadsBytes, ThenByte, Joined, Answer, high
  <2> QED  BY <2>1, <2>3, <2>4, SameIsTransitive
<1>5. \A x : WordAtOnce(x, b).bus = b  BY DEF WordAtOnce, Answer
<1>6. \/ ReadWord(b, a).bus = b
      \/ ReadWord(b, a) = ReadCiaWord(b, a)
      \/ ReadWord(b, a) = ReadsCustom(b, a)
      \/ ReadWord(b, a) = ReadsBytes(b, a)
  BY <1>5, ReadWordIs, SMT
<1> QED  BY <1>1, <1>2, <1>3, <1>4, <1>6

\* A read of any width leaves memory, log and shadows as they were.
LEMMA ReadKeeps ==
  ASSUME NEW b, IsBus(b), b.model \in Model, NEW a \in Nat, NEW width \in {1, 2, 4}
  PROVE  Same(b, Read(b, a, width).bus)
<1> DEFINE high == ReadWord(b, a).bus
           low == ReadWord(high, a + 2).bus
<1>1. Same(b, ReadByte(b, a).bus) /\ Same(b, high)  BY ReadByteKeeps, ReadWordKeeps
<1>2. IsBus(high) /\ high.model \in Model /\ a + 2 \in Nat  BY <1>1 DEF Same, SameMemory
<1> HIDE DEF high
<1>3. Same(high, low)  BY <1>2, ReadWordKeeps
<1>4. ThenWord(ReadWord(b, a), a).bus = low  BY DEF ThenWord, Joined, Answer, high
<1>5. Same(b, low)  BY <1>1, <1>3, SameIsTransitive
<1>6. \/ Read(b, a, width).bus = ReadByte(b, a).bus
      \/ Read(b, a, width).bus = high
      \/ Read(b, a, width).bus = low
  BY <1>4 DEF Read, high
<1> QED  BY <1>1, <1>5, <1>6
-----------------------------------------------------------------------------
(* The custom registers *)

\* What a shadow shows after a register is written.
LEMMA ShadowSet ==
  ASSUME NEW b, IsBus(b), NEW r, NEW word
  PROVE  /\ SameMemory(b, SetShadow(b, r, word))
         /\ SetShadow(b, r, word).log = b.log
         /\ \A q : Shadow(SetShadow(b, r, word), q) = IF q = r THEN word ELSE Shadow(b, q)
<1> DEFINE f == Put(b.custom, r, word)
           c == SetShadow(b, r, word)
<1>1. \A q : /\ q \in DOMAIN f <=> q = r \/ q \in DOMAIN b.custom
             /\ q \in DOMAIN f => f[q] = IF q = r THEN word ELSE b.custom[q]
  BY DEF Put
<1> HIDE DEF f
<1>2. c.custom = f /\ c.log = b.log /\ SameMemory(b, c)
  BY DEF IsBus, BusField, SetShadow, SameMemory, f
<1>3. \A q : Shadow(c, q) = IF q = r THEN word ELSE Shadow(b, q)
  <2> HIDE DEF c
  <2> QED  BY <1>1, <1>2 DEF Shadow
<1> QED  BY <1>2, <1>3

\* Logging a write adds one entry, and changes no memory and no shadow.
LEMMA LoggedKeeps ==
  ASSUME NEW b, IsBus(b), NEW r, NEW word
  PROVE  /\ SameMemory(b, Logged(b, r, word))
         /\ Logged(b, r, word).log = Append(b.log, [register |-> r, value |-> word])
         /\ \A q : Shadow(Logged(b, r, word), q) = Shadow(b, q)
BY ZenonT(30) DEF IsBus, BusField, Logged, SameMemory, Shadow

\* The address of a custom register names it, by its word or by a byte of it.
LEMMA RegisterAt ==
  ASSUME NEW r \in Written
  PROVE  /\ RegisterOf(\hDFF000 + r) = r /\ RegisterOf(\hDFF001 + r) = r
         /\ \hDFF000 + r \in Nat /\ \hDFF001 + r \in Nat
         /\ (\hDFF000 + r) % 2 = 0 /\ (\hDFF001 + r) % 2 = 1
         /\ Within(\hDFF000 + r, \hDFF000, \hE00000) /\ Within(\hDFF001 + r, \hDFF000, \hE00000)
<1>1. PICK i \in 0 .. 255 : r = 2 * i  BY DEF Written
<1>2. /\ (2 * i) % 512 = 2 * i /\ (2 * i) \div 2 = i
      /\ (2 * i + 1) % 512 = 2 * i + 1 /\ (2 * i + 1) \div 2 = i
  OBVIOUS
<1>3. (\hDFF000 + r) - \hDFF000 = 2 * i /\ (\hDFF001 + r) - \hDFF000 = 2 * i + 1
  BY <1>1, SMT
<1> QED  BY <1>1, <1>2, <1>3, SMT DEF RegisterOf, Within

\* What the guest's write of a word leaves in the shadows and in the log.
LEMMA WriteCustomWordIs ==
  ASSUME NEW b, IsBus(b), NEW r \in Written, NEW word
  PROVE  LET c == WriteCustomWord(b, \hDFF000 + r, word)
         IN  /\ SameMemory(b, c)
             /\ c.log = Append(b.log, [register |-> r, value |-> word])
             /\ \A q : q \notin {r, ReadableOf(r)} \/ (q # r /\ r \notin SetClearRegister) =>
                         Shadow(c, q) = Shadow(b, q)
             /\ r \in SetClearRegister =>
                  Shadow(c, ReadableOf(r)) = ShadowBits(Shadow(b, ReadableOf(r)), word)
<1> DEFINE c == WriteCustomWord(b, \hDFF000 + r, word)
           d == SetShadow(b, r, word)
           e == Logged(d, r, word)
           q0 == ReadableOf(r)
           f == SetShadow(e, q0, ShadowBits(Shadow(e, q0), word))
<1>1. RegisterOf(\hDFF000 + r) = r  BY RegisterAt, SMT
<1>2. c = IF r \in SetClearRegister THEN f ELSE e
  BY <1>1, SMT DEF WriteCustomWord, Reflected
<1>3. /\ SameMemory(b, d) /\ IsBus(d) /\ d.log = b.log
      /\ \A q : Shadow(d, q) = IF q = r THEN word ELSE Shadow(b, q)
  BY ShadowSet DEF SameMemory
<1> HIDE DEF d
<1>4. /\ SameMemory(d, e) /\ IsBus(e)
      /\ e.log = Append(b.log, [register |-> r, value |-> word])
      /\ \A q : Shadow(e, q) = Shadow(d, q)
  BY <1>3, LoggedKeeps DEF SameMemory
<1> HIDE DEF e
<1>5. /\ SameMemory(e, f) /\ f.log = e.log
      /\ \A q : Shadow(f, q) = IF q = q0 THEN ShadowBits(Shadow(e, q0), word) ELSE Shadow(e, q)
  BY <1>4, ShadowSet
<1> HIDE DEF f
<1>6. SameMemory(b, e) /\ SameMemory(b, f)  BY <1>3, <1>4, <1>5, SameIsTransitive, SMTT(30)
<1>7. r \in SetClearRegister => q0 # r
  BY DEF SetClearRegister, ReadableOf, DMACON, DMACONR, INTENA, INTENAR, INTREQ, INTREQR,
         ADKCON, ADKCONR
<1> HIDE DEF c, q0
<1>8. CASE r \in SetClearRegister
  BY <1>2, <1>3, <1>4, <1>5, <1>6, <1>7, <1>8 DEF c, q0
<1>9. CASE r \notin SetClearRegister
  BY <1>2, <1>3, <1>4, <1>6, <1>9 DEF c, q0
<1> QED  BY <1>8, <1>9, SMT
-----------------------------------------------------------------------------
(* The loop's bookkeeping *)

\* The registers of the chipset have fifteen bits.
Ranged(m) == m.dmacon \subseteq 0 .. 14 /\ m.intena \subseteq 0 .. 14 /\ m.intreq \subseteq 0 .. 14

\* The interrupt registers are where they are read.
Shown(m) == /\ Shadow(m.bus, INTREQR) = Word(m.intreq)
            /\ Shadow(m.bus, INTENAR) = Word(m.intena)

\* sync_interrupts shows INTREQ and INTENA in their shadows, and touches no other.
LEMMA SyncFacts ==
  ASSUME NEW m, IsMachine(m)
  PROVE  LET c == SyncInterrupts(m)
         IN  /\ IsMachine(c) /\ SameMemory(m.bus, c.bus) /\ c.bus.log = m.bus.log
             /\ c.dmacon = m.dmacon /\ c.intena = m.intena /\ c.intreq = m.intreq
             /\ Shown(c)
             /\ \A q : q \notin {INTREQR, INTENAR} => Shadow(c.bus, q) = Shadow(m.bus, q)
<1> DEFINE c == SyncInterrupts(m)
           d == SetShadow(m.bus, INTREQR, Word(m.intreq))
           e == SetShadow(d, INTENAR, Word(m.intena))
<1>1. c = [m EXCEPT !.bus = e]  BY DEF SyncInterrupts
<1>2. /\ SameMemory(m.bus, d) /\ d.log = m.bus.log
      /\ \A q : Shadow(d, q) = IF q = INTREQR THEN Word(m.intreq) ELSE Shadow(m.bus, q)
  BY ShadowSet DEF IsMachine
<1> HIDE DEF d
<1>3. /\ SameMemory(d, e) /\ e.log = d.log
      /\ \A q : Shadow(e, q) = IF q = INTENAR THEN Word(m.intena) ELSE Shadow(d, q)
  BY <1>2, ShadowSet DEF SameMemory
<1> HIDE DEF e
<1>4. SameMemory(m.bus, e)  BY <1>2, <1>3, SameIsTransitive
<1>5. IsMachine(c) /\ c.bus = e /\ c.dmacon = m.dmacon /\ c.intena = m.intena /\ c.intreq = m.intreq
  BY <1>1, <1>4 DEF IsMachine, MachineField, SameMemory
<1> HIDE DEF c
<1>6. Shown(c)  BY <1>2, <1>3, <1>5 DEF Shown, INTREQR, INTENAR
<1> QED  BY <1>2, <1>3, <1>4, <1>5, <1>6 DEF c

\* Latching the drive's request may raise INTREQ, and changes nothing else.
LEMMA LatchFacts ==
  ASSUME NEW m, IsMachine(m), Ranged(m)
  PROVE  LET c == Latch(m)
         IN  /\ IsMachine(c) /\ Same(m.bus, c.bus) /\ Ranged(c)
             /\ c.dmacon = m.dmacon /\ c.intena = m.intena
<1> DEFINE c == Latch(m)
           Asked == [m.bus EXCEPT !.gayle.irq = BitOr(@, 128)]
           d == Latched(m.bus)
<1>1. IsBus(m.bus)  BY DEF IsMachine
<1>2. Same(m.bus, Asked)
  BY <1>1 DEF IsBus, BusField, Same, SameMemory, SameRegisters
<1>3. d = m.bus \/ d = Asked  BY DEF Latched
<1>4. Same(m.bus, d)  BY <1>1, <1>2, <1>3, SameIsReflexive
<1>5. c = [m EXCEPT !.bus = d, !.intreq = IF Interrupting(d) THEN @ \cup {PORTS} ELSE @]
  BY DEF Latch
<1> HIDE DEF d
<1>6. /\ IsMachine(c) /\ c.bus = d /\ c.dmacon = m.dmacon /\ c.intena = m.intena
      /\ c.intreq = m.intreq \/ c.intreq = m.intreq \cup {PORTS}
  BY <1>4, <1>5, ZenonT(30) DEF IsMachine, MachineField, Same, SameMemory
<1> HIDE DEF c
<1>7. Ranged(c)  BY <1>6 DEF Ranged, PORTS
<1> QED  BY <1>4, <1>6, <1>7 DEF c

\* One dispatched write: what it leaves of the machine, and of DMACON.
LEMMA DispatchFacts ==
  ASSUME NEW m, IsMachine(m), Ranged(m), NEW write, write.value \in WordValue,
         Shown(m) \/ write.register \in {INTENA, INTREQ}
  PROVE  LET c == Dispatch(m, write)
         IN  /\ IsMachine(c) /\ SameMemory(m.bus, c.bus) /\ c.bus.log = m.bus.log
             /\ Ranged(c) /\ Shown(c)
             /\ \A q : q \notin {INTREQR, INTENAR} => Shadow(c.bus, q) = Shadow(m.bus, q)
             /\ c.dmacon = CASE write.register = DMACON -> SetClear(m.dmacon, write.value)
                             [] write.register \in SpritePointers -> m.dmacon \cup {SPREN}
                             [] OTHER -> m.dmacon
<1> DEFINE c == Dispatch(m, write)
           r == write.register
           w == write.value
           A == [m EXCEPT !.intena = SetClear(@, w)]
           Q == [m EXCEPT !.intreq = SetClear(@, w)]
           D == [m EXCEPT !.dmacon = SetClear(@, w)]
           P == [m EXCEPT !.dmacon = @ \cup {SPREN}]
<1>1. /\ SetClear(m.dmacon, w) \subseteq 0 .. 14 /\ SetClear(m.intena, w) \subseteq 0 .. 14
      /\ SetClear(m.intreq, w) \subseteq 0 .. 14
  BY ShadowOfSetClear, ZenonT(30) DEF Ranged
<1>2. SameMemory(m.bus, m.bus)  BY SameIsReflexive DEF Same, IsMachine
<1>3. /\ DMACON \notin SpritePointers /\ INTENA \notin SpritePointers /\ INTREQ \notin SpritePointers
      /\ DMACON # INTENA /\ DMACON # INTREQ /\ INTENA # INTREQ
  BY DEF DMACON, INTENA, INTREQ, SpritePointers
<1>4. CASE r = DMACON
  <2>1. c = D  BY <1>3, <1>4 DEF Dispatch
  <2>2. IsMachine(D) /\ D.bus = m.bus /\ D.dmacon = SetClear(m.dmacon, w) /\ D.intena = m.intena
        /\ D.intreq = m.intreq
    BY DEF IsMachine, MachineField
  <2> HIDE DEF D, c
  <2>3. Ranged(c) /\ Shown(c)  BY <1>1, <1>3, <1>4, <2>1, <2>2 DEF Ranged, Shown
  <2> QED  BY <1>2, <1>3, <1>4, <2>1, <2>2, <2>3 DEF c
<1>5. CASE r = INTENA
  <2>1. c = SyncInterrupts(A)  BY <1>3, <1>5 DEF Dispatch
  <2>2. IsMachine(A) /\ A.bus = m.bus /\ A.dmacon = m.dmacon /\ A.intena = SetClear(m.intena, w)
        /\ A.intreq = m.intreq
    BY DEF IsMachine, MachineField
  <2> HIDE DEF A
  <2>3. /\ IsMachine(c) /\ SameMemory(A.bus, c.bus) /\ c.bus.log = A.bus.log
        /\ c.dmacon = A.dmacon /\ c.intena = A.intena /\ c.intreq = A.intreq /\ Shown(c)
        /\ \A q : q \notin {INTREQR, INTENAR} => Shadow(c.bus, q) = Shadow(A.bus, q)
    BY <2>1, <2>2, SyncFacts
  <2> HIDE DEF c
  <2>4. Ranged(c)  BY <1>1, <2>2, <2>3 DEF Ranged
  <2> QED  BY <1>3, <1>5, <2>2, <2>3, <2>4 DEF c
<1>6. CASE r = INTREQ
  <2>1. c = SyncInterrupts(Q)  BY <1>3, <1>6 DEF Dispatch
  <2>2. IsMachine(Q) /\ Q.bus = m.bus /\ Q.dmacon = m.dmacon /\ Q.intena = m.intena
        /\ Q.intreq = SetClear(m.intreq, w)
    BY DEF IsMachine, MachineField
  <2> HIDE DEF Q
  <2>3. /\ IsMachine(c) /\ SameMemory(Q.bus, c.bus) /\ c.bus.log = Q.bus.log
        /\ c.dmacon = Q.dmacon /\ c.intena = Q.intena /\ c.intreq = Q.intreq /\ Shown(c)
        /\ \A q : q \notin {INTREQR, INTENAR} => Shadow(c.bus, q) = Shadow(Q.bus, q)
    BY <2>1, <2>2, SyncFacts
  <2> HIDE DEF c
  <2>4. Ranged(c)  BY <1>1, <2>2, <2>3 DEF Ranged
  <2> QED  BY <1>3, <1>6, <2>2, <2>3, <2>4 DEF c
<1>7. CASE r \in SpritePointers
  <2>1. c = P  BY <1>3, <1>7 DEF Dispatch
  <2>2. IsMachine(P) /\ P.bus = m.bus /\ P.dmacon = m.dmacon \cup {SPREN} /\ P.intena = m.intena
        /\ P.intreq = m.intreq
    BY DEF IsMachine, MachineField
  <2> HIDE DEF P, c
  <2>3. Ranged(c) /\ Shown(c)  BY <1>3, <1>7, <2>1, <2>2 DEF Ranged, Shown, SPREN
  <2> QED  BY <1>2, <1>3, <1>7, <2>1, <2>2, <2>3 DEF c
<1>8. CASE r \notin {DMACON, INTENA, INTREQ} /\ r \notin SpritePointers
  <2>1. c = m  BY <1>8 DEF Dispatch
  <2> HIDE DEF c
  <2> QED  BY <1>2, <1>8, <2>1 DEF c
<1> QED  BY <1>4, <1>5, <1>6, <1>7, <1>8
-----------------------------------------------------------------------------
(* Sequences of writes *)

\* Every set of numbers has a smallest element.
LEMMA Smallest ==
  ASSUME NEW T, T \subseteq Nat, T # {}
  PROVE  \E n \in T : \A m \in T : n <= m
<1> DEFINE R == OpToRel(<, Nat)
<1>1. IsWellFoundedOn(R, Nat)  BY NatLessThanWellFounded, ZenonT(30)
<1>2. \A x, y \in Nat : x < y => <<x, y>> \in R  BY DEF OpToRel
<1> HIDE DEF R
<1>3. ASSUME IsWellFoundedOn(R, Nat)
      PROVE  \E n \in T : \A m \in T : ~(<<m, n>> \in R)
  <2>1. T \subseteq Nat /\ T # {}  OBVIOUS
  <2> QED  BY <2>1, <1>3, WFMin, ZenonT(20)
<1>4. PICK n \in T : \A m \in T : ~(<<m, n>> \in R)  BY <1>1, <1>3
<1>5. ASSUME NEW m \in T  PROVE n <= m
  <2>1. m \in Nat /\ n \in Nat  OBVIOUS
  <2>2. ~(m < n)  BY <1>2, <1>4, <2>1, ZenonT(30)
  <2> QED  BY <2>1, <2>2
<1> QED  BY <1>5

\* Induction, for a set of numbers.
LEMMA Induction ==
  ASSUME NEW T, 0 \in T, \A n \in Nat : n \in T => n + 1 \in T
  PROVE  Nat \subseteq T
<1> SUFFICES ASSUME Nat \ T # {}  PROVE FALSE
  OBVIOUS
<1>1. PICK n \in Nat \ T : \A m \in Nat \ T : n <= m  BY Smallest, ZenonT(30)
<1>2. n # 0  OBVIOUS
<1>3. n - 1 \in Nat /\ n = (n - 1) + 1  BY <1>2
<1>4. n - 1 \in T
  <2>1. ~(n <= n - 1)  OBVIOUS
  <2> QED  BY <1>1, <1>3, <2>1
<1> QED  BY <1>3, <1>4

\* One write of a sequence.
Taken(m, write, byCopper) == IF byCopper THEN Moved(m, write) ELSE Dispatch(m, write)

IsAfter(g, m, writes, byCopper, n) ==
  g = [k \in 0 .. n |-> IF k = 0 THEN m ELSE Taken(g[k - 1], writes[k], byCopper)]

\* The recursive function that runs a list of writes exists.
LEMMA AfterExists ==
  ASSUME NEW m, NEW writes, NEW byCopper, NEW n \in Nat
  PROVE  \E g : IsAfter(g, m, writes, byCopper, n)
<1> DEFINE T == {k \in Nat : \E g : IsAfter(g, m, writes, byCopper, k)}
<1>1. 0 \in T
  <2> DEFINE g == [k \in 0 .. 0 |-> m]
  <2>1. IsAfter(g, m, writes, byCopper, 0)
    <3>1. \A k \in 0 .. 0 : k = 0  OBVIOUS
    <3> QED  BY <3>1 DEF IsAfter
  <2> QED  BY <2>1
<1>2. ASSUME NEW j \in Nat, j \in T  PROVE j + 1 \in T
  <2>1. PICK g : IsAfter(g, m, writes, byCopper, j)  BY <1>2
  <2> DEFINE Step(x, k) == Taken(x, writes[k], byCopper)
             h == [k \in 0 .. j + 1 |-> IF k <= j THEN g[k] ELSE Step(g[j], j + 1)]
  <2>2. g = [k \in 0 .. j |-> IF k = 0 THEN m ELSE Step(g[k - 1], k)]
    BY <2>1 DEF IsAfter
  <2> HIDE DEF Step
  <2>3. ASSUME NEW k \in 0 .. j + 1
        PROVE  h[k] = IF k = 0 THEN m ELSE Step(h[k - 1], k)
    <3>1. CASE k = 0
      <4>1. k \in 0 .. j /\ k <= j /\ g[k] = m  BY <2>2, <3>1
      <4> QED  BY <3>1, <4>1
    <3>2. CASE k # 0 /\ k <= j
      <4>1. k \in 0 .. j /\ k - 1 \in 0 .. j + 1 /\ k - 1 <= j  BY <3>2
      <4>2. g[k] = Step(g[k - 1], k)  BY <2>2, <3>2, <4>1
      <4>3. h[k] = g[k] /\ h[k - 1] = g[k - 1]  BY <3>2, <4>1
      <4> QED  BY <3>2, <4>2, <4>3
    <3>3. CASE k = j + 1
      <4>1. k # 0 /\ ~(k <= j) /\ k - 1 = j /\ j \in 0 .. j + 1 /\ j <= j  BY <3>3
      <4>2. h[k] = Step(g[j], j + 1) /\ h[j] = g[j]  BY <4>1
      <4> QED  BY <3>3, <4>1, <4>2
    <3> QED  BY <3>1, <3>2, <3>3
  <2>4. h = [k \in 0 .. j + 1 |-> IF k = 0 THEN m ELSE Step(h[k - 1], k)]
    <3> DEFINE e == [k \in 0 .. j + 1 |-> IF k = 0 THEN m ELSE Step(h[k - 1], k)]
    <3>1. h = [k \in 0 .. j + 1 |-> h[k]]  OBVIOUS
    <3> HIDE DEF h
    <3>2. [k \in 0 .. j + 1 |-> h[k]] = e  BY <2>3
    <3> QED  BY <3>1, <3>2, ZenonT(30)
  <2> HIDE DEF h
  <2>5. IsAfter(h, m, writes, byCopper, j + 1)  BY <2>4 DEF IsAfter, Step
  <2> QED  BY <2>5
<1>3. n \in T
  <2> HIDE DEF T
  <2> QED  BY <1>1, <1>2, Induction
<1> QED  BY <1>3

\* The machine after the writes is the last of a chain of steps.
LEMMA AfterWritesIs ==
  ASSUME NEW m, NEW writes, NEW byCopper, Len(writes) \in Nat
  PROVE  \E g : /\ AfterWrites(m, writes, byCopper) = g[Len(writes)]
                /\ g[0] = m
                /\ \A k \in 1 .. Len(writes) : g[k] = Taken(g[k - 1], writes[k], byCopper)
<1> DEFINE n == Len(writes)
           Is(g) == IsAfter(g, m, writes, byCopper, n)
           after == CHOOSE g : Is(g)
<1>1. AfterWrites(m, writes, byCopper) = after[n]
  BY DEF AfterWrites, IsAfter, Taken
<1>2. Is(after)
  <2>1. \E g : Is(g)  BY AfterExists
  <2> HIDE DEF Is
  <2> QED  BY <2>1
<1> HIDE DEF after
<1>3. after = [k \in 0 .. n |-> IF k = 0 THEN m ELSE Taken(after[k - 1], writes[k], byCopper)]
  BY <1>2 DEF IsAfter
<1>4. after[0] = m  BY <1>3
<1>5. \A k \in 1 .. n : after[k] = Taken(after[k - 1], writes[k], byCopper)
  <2> SUFFICES ASSUME NEW k \in 1 .. n
               PROVE  after[k] = Taken(after[k - 1], writes[k], byCopper)
    OBVIOUS
  <2>1. k \in 0 .. n /\ k # 0  OBVIOUS
  <2> HIDE DEF n
  <2> QED  BY <1>3, <2>1, ZenonT(30)
<1> QED  BY <1>1, <1>4, <1>5

\* No write, and one.
LEMMA AfterFew ==
  ASSUME NEW m, NEW write
  PROVE  /\ AfterWrites(m, <<>>, FALSE) = m /\ AfterWrites(m, <<>>, TRUE) = m
         /\ AfterWrites(m, <<write>>, FALSE) = Dispatch(m, write)
<1>1. ASSUME NEW byCopper  PROVE AfterWrites(m, <<>>, byCopper) = m
  <2>1. Len(<<>>) = 0  OBVIOUS
  <2> QED  BY <2>1, AfterWritesIs
<1>2. ASSUME NEW byCopper  PROVE AfterWrites(m, <<write>>, byCopper) = Taken(m, write, byCopper)
  <2> DEFINE w == <<write>>
  <2>1. Len(w) = 1 /\ w[1] = write  OBVIOUS
  <2> HIDE DEF w
  <2>2. PICK g : /\ AfterWrites(m, w, byCopper) = g[Len(w)] /\ g[0] = m
                 /\ \A k \in 1 .. Len(w) : g[k] = Taken(g[k - 1], w[k], byCopper)
    <3>1. Len(w) \in Nat  BY <2>1
    <3> QED  BY <3>1, AfterWritesIs
  <2>3. 1 \in 1 .. Len(w) /\ 1 - 1 = 0  BY <2>1
  <2>4. g[1] = Taken(g[0], w[1], byCopper)  BY <2>2, <2>3
  <2> QED  BY <2>1, <2>2, <2>4 DEF w
<1>3. Taken(m, write, FALSE) = Dispatch(m, write)  BY DEF Taken
<1> QED  BY <1>1, <1>2, <1>3, ZenonT(30)

\* What the copper's moves and the guest's writes have in common.
Carried(m, c) ==
  /\ IsMachine(c) /\ SameMemory(m.bus, c.bus) /\ c.bus.log = m.bus.log
  /\ Ranged(c) /\ Shown(c) /\ Shadow(c.bus, ADKCONR) = Shadow(m.bus, ADKCONR)

\* One MOVE of the copper leaves memory, log and ADKCON, and the shadows shown.
LEMMA MovedFacts ==
  ASSUME NEW m, IsMachine(m), Ranged(m), Shown(m),
         NEW write, write.register \in Written, write.value \in WordValue
  PROVE  Carried(m, Moved(m, write))
<1> DEFINE b == SetShadow(m.bus, write.register, write.value)
           d == [m EXCEPT !.bus = b]
           c == Dispatch(d, write)
<1>1. /\ SameMemory(m.bus, b) /\ b.log = m.bus.log
      /\ \A q : Shadow(b, q) = IF q = write.register THEN write.value ELSE Shadow(m.bus, q)
  BY ShadowSet DEF IsMachine
<1>2. Moved(m, write) = c  BY DEF Moved
<1> HIDE DEF b
<1>3. IsMachine(d) /\ d.bus = b /\ d.dmacon = m.dmacon /\ d.intena = m.intena /\ d.intreq = m.intreq
  BY <1>1 DEF IsMachine, MachineField, SameMemory
<1> HIDE DEF d
<1>4. write.register \notin {INTREQR, INTENAR, ADKCONR}  BY DEF Written
<1>5. Ranged(d) /\ Shown(d)  BY <1>1, <1>3, <1>4 DEF Ranged, Shown
<1>6. /\ IsMachine(c) /\ SameMemory(d.bus, c.bus) /\ c.bus.log = d.bus.log
      /\ Ranged(c) /\ Shown(c)
      /\ \A q : q \notin {INTREQR, INTENAR} => Shadow(c.bus, q) = Shadow(d.bus, q)
  BY <1>3, <1>5, DispatchFacts, ZenonT(30)
<1>7. ADKCONR \notin {INTREQR, INTENAR}  BY DEF ADKCONR, INTREQR, INTENAR
<1>8. SameMemory(m.bus, c.bus)  BY <1>1, <1>3, <1>6, SameIsTransitive
<1> HIDE DEF c
<1> QED  BY <1>1, <1>2, <1>3, <1>4, <1>6, <1>7, <1>8 DEF Carried

\* So does a whole list of them.
LEMMA CopperFacts ==
  ASSUME NEW m, IsMachine(m), Ranged(m), Shown(m),
         NEW copper \in Seq(Move)
  PROVE  Carried(m, AfterWrites(m, copper, TRUE))
<1> DEFINE n == Len(copper)
<1>1. n \in Nat /\ \A k \in 1 .. n : copper[k].register \in Written /\ copper[k].value \in WordValue
  <2>1. n \in Nat /\ \A k \in 1 .. n : copper[k] \in [register : Written, value : WordValue]
    <3>1. \A k \in 1 .. Len(copper) : copper[k] \in Move  BY ElementOfSeq
    <3>2. Len(copper) \in Nat  OBVIOUS
    <3> QED  BY <3>1, <3>2 DEF Move
  <2> QED  BY <2>1
<1>2. PICK g : /\ AfterWrites(m, copper, TRUE) = g[n] /\ g[0] = m
               /\ \A k \in 1 .. n : g[k] = Moved(g[k - 1], copper[k])
  <2>1. ASSUME NEW byCopper, byCopper
        PROVE  \E g : /\ AfterWrites(m, copper, byCopper) = g[n] /\ g[0] = m
                      /\ \A k \in 1 .. n : g[k] = Moved(g[k - 1], copper[k])
    <3>1. \A d, w : Taken(d, w, byCopper) = Moved(d, w)  BY <2>1 DEF Taken
    <3>2. PICK g : /\ AfterWrites(m, copper, byCopper) = g[n] /\ g[0] = m
                   /\ \A k \in 1 .. n : g[k] = Taken(g[k - 1], copper[k], byCopper)
      BY <1>1, AfterWritesIs
    <3> HIDE DEF n
    <3> QED  BY <3>1, <3>2
  <2> HIDE DEF n
  <2> QED  BY <2>1, ZenonT(30)
<1> HIDE DEF n
<1> DEFINE T == {k \in Nat : k <= n => Carried(m, g[k])}
<1>3. 0 \in T
  <2>1. SameMemory(m.bus, m.bus)  BY SameIsReflexive DEF Same, IsMachine
  <2>2. Carried(m, m)  BY <2>1 DEF Carried
  <2> QED  BY <1>2, <2>2
<1>4. ASSUME NEW k \in Nat, k \in T  PROVE k + 1 \in T
  <2> SUFFICES ASSUME k + 1 <= n  PROVE Carried(m, g[k + 1])
    OBVIOUS
  <2>1. Carried(m, g[k])  BY <1>1, <1>4
  <2>2. k + 1 \in 1 .. n /\ (k + 1) - 1 = k  BY <1>1
  <2>3. g[k + 1] = Moved(g[k], copper[k + 1])  BY <1>2, <2>2
  <2>4. copper[k + 1].register \in Written /\ copper[k + 1].value \in WordValue  BY <1>1, <2>2
  <2>5. Carried(g[k], Moved(g[k], copper[k + 1]))
    BY <2>1, <2>4, MovedFacts DEF Carried
  <2>6. SameMemory(m.bus, Moved(g[k], copper[k + 1]).bus)
    BY <2>1, <2>5, SameIsTransitive DEF Carried
  <2> QED  BY <2>1, <2>3, <2>5, <2>6 DEF Carried
<1> HIDE DEF T
<1>5. n \in T  BY <1>1, <1>3, <1>4, Induction
<1>6. Carried(m, g[n])  BY <1>1, <1>5 DEF T
<1> QED  BY <1>2, <1>6, ZenonT(30)

\* The end of a line brings every shadow of the chipset up to date.
LEMMA LineEndedFacts ==
  ASSUME NEW m, IsMachine(m), Ranged(m), Shown(m),
         NEW copper \in Seq(Move),
         NEW raised, raised \subseteq 0 .. 14
  PROVE  LET c == LineEnded(m, copper, raised)
         IN  Carried(m, c) /\ Shadow(c.bus, DMACONR) = Word(c.dmacon)
<1> DEFINE d == AfterWrites(m, copper, TRUE)
           e == Raised(d, raised)
           b == SetShadow(e.bus, DMACONR, Word(e.dmacon))
           f == [e EXCEPT !.bus = b]
           c == SyncInterrupts(f)
<1>1. Carried(m, d)  BY CopperFacts, ZenonT(30)
<1>2. LineEnded(m, copper, raised) = c  BY DEF LineEnded, Synced
<1>3. /\ IsMachine(e) /\ SameMemory(d.bus, e.bus) /\ e.bus.log = d.bus.log
      /\ e.dmacon = d.dmacon /\ e.intena = d.intena /\ e.intreq = d.intreq \cup raised
      /\ \A q : Shadow(e.bus, q) = Shadow(d.bus, q)
  <2> DEFINE v == IF DiskOn(d) THEN <<128, 7>> ELSE d.bus.dskbytr
             x == [d.bus EXCEPT !.dskbytr = v]
  <2> HIDE DEF d
  <2>1. IsBus(d.bus) /\ IsMachine(d)  BY <1>1 DEF Carried, IsMachine
  <2>2. SameMemory(d.bus, x) /\ x.log = d.bus.log /\ x.custom = d.bus.custom
    <3> HIDE DEF v
    <3> QED  BY <2>1 DEF IsBus, BusField, SameMemory
  <2>3. e = [d EXCEPT !.intreq = @ \cup raised, !.bus = x]
    BY <2>1 DEF Raised, IsMachine, MachineField
  <2> HIDE DEF x
  <2>4. /\ IsMachine(e) /\ e.bus = x /\ e.dmacon = d.dmacon /\ e.intena = d.intena
        /\ e.intreq = d.intreq \cup raised
    BY <2>1, <2>2, <2>3, ZenonT(30) DEF IsMachine, MachineField, SameMemory
  <2> HIDE DEF e
  <2> QED  BY <2>2, <2>4 DEF Shadow
<1> HIDE DEF d, e
<1>4. /\ SameMemory(e.bus, b) /\ b.log = e.bus.log
      /\ \A q : Shadow(b, q) = IF q = DMACONR THEN Word(e.dmacon) ELSE Shadow(e.bus, q)
  BY <1>3, ShadowSet DEF IsMachine
<1> HIDE DEF b
<1>5. IsMachine(f) /\ f.bus = b /\ f.dmacon = e.dmacon /\ f.intena = e.intena /\ f.intreq = e.intreq
  BY <1>3, <1>4 DEF IsMachine, MachineField, SameMemory
<1> HIDE DEF f
<1>6. /\ IsMachine(c) /\ SameMemory(f.bus, c.bus) /\ c.bus.log = f.bus.log
      /\ c.dmacon = f.dmacon /\ c.intena = f.intena /\ c.intreq = f.intreq /\ Shown(c)
      /\ \A q : q \notin {INTREQR, INTENAR} => Shadow(c.bus, q) = Shadow(f.bus, q)
  BY <1>5, SyncFacts
<1> HIDE DEF c
<1>7. ADKCONR \notin {INTREQR, INTENAR, DMACONR} /\ DMACONR \notin {INTREQR, INTENAR}
  BY DEF ADKCONR, INTREQR, INTENAR, DMACONR
<1>8. Ranged(c)  BY <1>1, <1>3, <1>5, <1>6, ZenonT(30) DEF Carried, Ranged
<1>9. SameMemory(m.bus, c.bus)
  <2>1. SameMemory(m.bus, e.bus)  BY <1>1, <1>3, SameIsTransitive DEF Carried
  <2>2. SameMemory(m.bus, b)  BY <1>4, <2>1, SameIsTransitive
  <2> QED  BY <1>5, <1>6, <2>2, SameIsTransitive
<1>10. Shadow(c.bus, DMACONR) = Word(c.dmacon)  BY <1>4, <1>5, <1>6, <1>7
<1>11. c.bus.log = m.bus.log /\ Shadow(c.bus, ADKCONR) = Shadow(m.bus, ADKCONR)
  BY <1>1, <1>3, <1>4, <1>5, <1>6, <1>7 DEF Carried
<1> QED  BY <1>2, <1>6, <1>8, <1>9, <1>10, <1>11 DEF Carried
-----------------------------------------------------------------------------
(* One instruction *)

Started(m) == SyncInterrupts(Latch(m))

\* Started leaves memory, log and DMACON, and shows INTREQ and INTENA.
LEMMA StartedFacts ==
  ASSUME NEW m, IsMachine(m), Ranged(m)
  PROVE  LET s == Started(m)
         IN  /\ IsMachine(s) /\ SameMemory(m.bus, s.bus) /\ s.bus.log = m.bus.log
             /\ Ranged(s) /\ Shown(s) /\ s.dmacon = m.dmacon
             /\ \A q : q \notin {INTREQR, INTENAR} => Shadow(s.bus, q) = Shadow(m.bus, q)
<1> DEFINE d == Latch(m)
           s == SyncInterrupts(d)
<1>1. /\ IsMachine(d) /\ Same(m.bus, d.bus) /\ Ranged(d)
      /\ d.dmacon = m.dmacon /\ d.intena = m.intena
  BY LatchFacts
<1> HIDE DEF d
<1>2. /\ IsMachine(s) /\ SameMemory(d.bus, s.bus) /\ s.bus.log = d.bus.log
      /\ s.dmacon = d.dmacon /\ s.intena = d.intena /\ s.intreq = d.intreq /\ Shown(s)
      /\ \A q : q \notin {INTREQR, INTENAR} => Shadow(s.bus, q) = Shadow(d.bus, q)
  BY <1>1, SyncFacts
<1>3. Started(m) = s  BY DEF Started, d
<1> HIDE DEF s
<1>4. SameMemory(m.bus, s.bus)  BY <1>1, <1>2, SameIsTransitive DEF Same
<1>5. \A q : Shadow(d.bus, q) = Shadow(m.bus, q)  BY <1>1 DEF Same, SameRegisters, Shadow
<1>6. Ranged(s)  BY <1>1, <1>2 DEF Ranged
<1> QED  BY <1>1, <1>2, <1>3, <1>4, <1>5, <1>6 DEF Same, SameRegisters

\* Draining the log empties it, and changes nothing else.
LEMMA DrainedFacts ==
  ASSUME NEW m, IsMachine(m)
  PROVE  LET c == Drained(m)
         IN  /\ IsMachine(c) /\ SameMemory(m.bus, c.bus) /\ c.bus.log = <<>>
             /\ \A q : Shadow(c.bus, q) = Shadow(m.bus, q)
             /\ c.dmacon = m.dmacon /\ c.intena = m.intena /\ c.intreq = m.intreq
<1> DEFINE b == [m.bus EXCEPT !.log = <<>>, !.prbDirty = FALSE]
           c == [m EXCEPT !.bus = b]
<1>1. SameMemory(m.bus, b) /\ b.log = <<>> /\ b.custom = m.bus.custom
  BY ZenonT(30) DEF IsMachine, IsBus, BusField, SameMemory
<1>2. Drained(m) = c
  BY ZenonT(30) DEF Drained, IsMachine, IsBus, MachineField, BusField
<1> HIDE DEF b
<1>3. IsMachine(c) /\ c.bus = b /\ c.dmacon = m.dmacon /\ c.intena = m.intena /\ c.intreq = m.intreq
  BY <1>1 DEF IsMachine, MachineField, SameMemory
<1> HIDE DEF c
<1> QED  BY <1>1, <1>2, <1>3 DEF Shadow

\* The loop after an access that logged nothing.
LEMMA QuietRun ==
  ASSUME NEW s, IsMachine(s), NEW access, NEW b, b = Access(s.bus, access), IsBus(b), b.log = <<>>
  PROVE  LET c == Run(s, access)
         IN  /\ IsMachine(c) /\ SameMemory(b, c.bus) /\ c.bus.log = <<>>
             /\ \A q : Shadow(c.bus, q) = Shadow(b, q)
             /\ c.dmacon = s.dmacon /\ c.intena = s.intena /\ c.intreq = s.intreq
<1> DEFINE d == [s EXCEPT !.bus = b]
<1>1. IsMachine(d) /\ d.bus = b /\ d.dmacon = s.dmacon /\ d.intena = s.intena /\ d.intreq = s.intreq
  BY DEF IsMachine, MachineField
<1>2. Run(s, access) = DispatchLog(d)  BY DEF Run
<1> HIDE DEF d
<1>3. DispatchLog(d) = Drained(d)  BY <1>1, AfterFew, ZenonT(30) DEF DispatchLog
<1> QED  BY <1>1, <1>2, <1>3, DrainedFacts

\* The loop after an access that logged a write.
ShowsInterrupts(b, c, r) ==
  \/ r \in {INTENA, INTREQ}
  \/ Shadow(b, INTREQR) = Shadow(c, INTREQR) /\ Shadow(b, INTENAR) = Shadow(c, INTENAR)

OneWrite(r, word) == <<[register |-> r, value |-> word]>>

AfterLogged(s, b, c, r, word) ==
  /\ IsMachine(c) /\ SameMemory(b, c.bus) /\ c.bus.log = <<>>
  /\ Ranged(c) /\ Shown(c)
  /\ \A q : q \notin {INTREQR, INTENAR} => Shadow(c.bus, q) = Shadow(b, q)
  /\ c.dmacon = CASE r = DMACON -> SetClear(s.dmacon, word)
                  [] r \in SpritePointers -> s.dmacon \cup {SPREN}
                  [] OTHER -> s.dmacon

\* The loop around an access that logged exactly one write.
LEMMA LoggedRun ==
  ASSUME NEW s, IsMachine(s), Ranged(s), Shown(s),
         NEW access, NEW b, b = Access(s.bus, access), IsBus(b),
         NEW r, NEW word \in WordValue, b.log = OneWrite(r, word),
         ShowsInterrupts(b, s.bus, r)
  PROVE  AfterLogged(s, b, Run(s, access), r, word)
<1> DEFINE d == [s EXCEPT !.bus = b]
           write == [register |-> r, value |-> word]
           e == Dispatch(d, write)
           c == Drained(e)
<1>1. IsMachine(d) /\ d.bus = b /\ d.dmacon = s.dmacon /\ d.intena = s.intena /\ d.intreq = s.intreq
  BY DEF IsMachine, MachineField
<1>2. Run(s, access) = DispatchLog(d)  BY DEF Run
<1> HIDE DEF d
<1>3. write.register = r /\ write.value = word /\ d.bus.log = <<write>>  BY <1>1 DEF OneWrite
<1> HIDE DEF write
<1>4. DispatchLog(d) = c  BY <1>1, <1>3, AfterFew, ZenonT(30) DEF DispatchLog
<1>5. Ranged(d) /\ (Shown(d) \/ r \in {INTENA, INTREQ})
  BY <1>1 DEF Ranged, Shown, ShowsInterrupts
<1>6. /\ IsMachine(e) /\ SameMemory(d.bus, e.bus) /\ Ranged(e) /\ Shown(e)
      /\ \A q : q \notin {INTREQR, INTENAR} => Shadow(e.bus, q) = Shadow(d.bus, q)
      /\ e.dmacon = CASE r = DMACON -> SetClear(d.dmacon, word)
                      [] r \in SpritePointers -> d.dmacon \cup {SPREN}
                      [] OTHER -> d.dmacon
  BY <1>1, <1>3, <1>5, DispatchFacts, ZenonT(30)
<1> HIDE DEF e
<1>7. /\ IsMachine(c) /\ SameMemory(e.bus, c.bus) /\ c.bus.log = <<>>
      /\ \A q : Shadow(c.bus, q) = Shadow(e.bus, q)
      /\ c.dmacon = e.dmacon /\ c.intena = e.intena /\ c.intreq = e.intreq
  BY <1>6, DrainedFacts
<1> HIDE DEF c
<1>8. SameMemory(b, c.bus)  BY <1>1, <1>6, <1>7, SameIsTransitive
<1>9. Ranged(c) /\ Shown(c)  BY <1>6, <1>7 DEF Ranged, Shown
<1> QED  BY <1>1, <1>2, <1>4, <1>6, <1>7, <1>8, <1>9 DEF AfterLogged
-----------------------------------------------------------------------------
(* The table of areas *)

\* A byte's place, area by area.
IsPlace(model, boardAt, a, p) ==
  \/ a < \h200000 /\ p = <<"chip", a % model.chip>>
  \/ Within(a, \h200000, \h200000 + model.fast) /\ p = <<"fast", (a - \h200000) % model.fast>>
  \/ Within(a, \hC00000, \hC00000 + model.slow) /\ p = <<"slow", (a - \hC00000) % model.slow>>
  \/ Within(a, \hE00000, \hE80000) /\ p = <<"rom", (a - \hE00000) % model.rom>>
  \/ /\ Within(a, \h1000000 - model.rom, \h1000000)
     /\ p = <<"rom", (a - (\h1000000 - model.rom)) % model.rom>>
  \/ \E base \in boardAt : /\ Within(a, base + \h8000, base + \h10000)
                           /\ p = <<"board", (a - (base + \h8000)) % \h8000>>
  \/ \E r \in 0 .. 15 : a % 2 = 1 /\ a \div 256 = \hBFE0 + r /\ p = <<"ciaA", r>>
  \/ \E r \in 0 .. 15 : a % 2 = 0 /\ a \div 256 = \hBFD0 + r /\ p = <<"ciaB", r>>

\* The cell of a mirrored area.
LEMMA MirroredIs ==
  ASSUME NEW a, NEW place, NEW first, NEW length, NEW period, NEW p
  PROVE  p \in Mirrored(a, place, first, length, period) <=>
           Within(a, first, first + length) /\ p = <<place, (a - first) % period>>
BY DEF Mirrored

\* Where the board may be.
LEMMA BasesAre ==
  ASSUME NEW base \in Bases
  PROVE  \E page \in \hE9 .. \hEF : base = \h10000 * page
BY GuestBusAssumption, SMT

\* Where the board may be placed.
LEMMA BaseRange ==
  ASSUME NEW base \in Bases
  PROVE  base \in Nat /\ base >= \hE90000 /\ base <= \hEF0000 /\ base % \h10000 = 0
BY BasesAre, SMT

\* Places and IsPlace are the same relation.
LEMMA InPlaces ==
  ASSUME NEW model \in Model, NEW boardAt, boardAt \subseteq Bases, NEW a \in Nat, NEW p
  PROVE  p \in Places(model, boardAt, a) <=> IsPlace(model, boardAt, a, p)
<1>1. p \in Mirrored(a, "chip", 0, \h200000, model.chip) <=>
        a < \h200000 /\ p = <<"chip", a % model.chip>>
  <2>1. Within(a, 0, 0 + \h200000) <=> a < \h200000  BY SMT DEF Within
  <2>2. a - 0 = a  OBVIOUS
  <2> QED  BY <2>1, <2>2, MirroredIs, SMT
<1>2. p \in Mirrored(a, "fast", \h200000, model.fast, model.fast) <=>
        Within(a, \h200000, \h200000 + model.fast) /\ p = <<"fast", (a - \h200000) % model.fast>>
  BY MirroredIs, SMT
<1>3. p \in Mirrored(a, "slow", \hC00000, model.slow, model.slow) <=>
        Within(a, \hC00000, \hC00000 + model.slow) /\ p = <<"slow", (a - \hC00000) % model.slow>>
  BY MirroredIs, SMT
<1>4. p \in Mirrored(a, "rom", \hE00000, \h80000, model.rom) <=>
        Within(a, \hE00000, \hE80000) /\ p = <<"rom", (a - \hE00000) % model.rom>>
  BY SMT DEF Mirrored
<1>5. p \in Mirrored(a, "rom", \h1000000 - model.rom, model.rom, model.rom) <=>
        /\ Within(a, \h1000000 - model.rom, \h1000000)
        /\ p = <<"rom", (a - (\h1000000 - model.rom)) % model.rom>>
  <2>1. model.rom \in Nat  BY Sizes, SMT
  <2>2. (\h1000000 - model.rom) + model.rom = \h1000000  BY <2>1, SMT
  <2> QED  BY <2>2, MirroredIs, SMT
<1>6. p \in BoardPlaces(boardAt, a) <=>
        \E base \in boardAt : /\ Within(a, base + \h8000, base + \h10000)
                              /\ p = <<"board", (a - (base + \h8000)) % \h8000>>
  <2>1. \A base \in boardAt : p \in Mirrored(a, "board", base + \h8000, \h8000, \h8000) <=>
          /\ Within(a, base + \h8000, base + \h10000)
          /\ p = <<"board", (a - (base + \h8000)) % \h8000>>
    <3> SUFFICES ASSUME NEW base \in boardAt
                 PROVE  p \in Mirrored(a, "board", base + \h8000, \h8000, \h8000) <=>
                          /\ Within(a, base + \h8000, base + \h10000)
                          /\ p = <<"board", (a - (base + \h8000)) % \h8000>>
      BY SMT
    <3>1. base \in Nat  BY BaseRange, SMT
    <3>2. (base + \h8000) + \h8000 = base + \h10000  BY <3>1, SMT
    <3> QED  BY <3>2, MirroredIs, SMT
  <2> QED  BY <2>1, SMT DEF BoardPlaces
<1>7. p \in CiaPlaces(a) <=>
        \/ \E r \in 0 .. 15 : a % 2 = 1 /\ a \div 256 = \hBFE0 + r /\ p = <<"ciaA", r>>
        \/ \E r \in 0 .. 15 : a % 2 = 0 /\ a \div 256 = \hBFD0 + r /\ p = <<"ciaB", r>>
  BY SMT DEF CiaPlaces
<1>8. p \in RamPlaces(model, a) <=>
        \/ a < \h200000 /\ p = <<"chip", a % model.chip>>
        \/ Within(a, \h200000, \h200000 + model.fast) /\ p = <<"fast", (a - \h200000) % model.fast>>
        \/ Within(a, \hC00000, \hC00000 + model.slow) /\ p = <<"slow", (a - \hC00000) % model.slow>>
  BY <1>1, <1>2, <1>3, SMT DEF RamPlaces
<1>9. p \in RomPlaces(model, a) <=>
        \/ Within(a, \hE00000, \hE80000) /\ p = <<"rom", (a - \hE00000) % model.rom>>
        \/ /\ Within(a, \h1000000 - model.rom, \h1000000)
           /\ p = <<"rom", (a - (\h1000000 - model.rom)) % model.rom>>
  BY <1>4, <1>5, SMT DEF RomPlaces
<1>10. p \in Places(model, boardAt, a) <=>
        \/ p \in RamPlaces(model, a) \/ p \in RomPlaces(model, a)
        \/ p \in BoardPlaces(boardAt, a) \/ p \in CiaPlaces(a)
  BY DEF Places
<1> QED  BY <1>6, <1>7, <1>8, <1>9, <1>10, SMT DEF IsPlace

\* Which addresses a region takes.
LEMMA RegionAreas ==
  ASSUME NEW model \in Model, NEW a \in Nat
  PROVE  /\ Region(model, a) = "fast" <=> Within(a, \h200000, \h200000 + model.fast)
         /\ Region(model, a) = "slow" <=> Within(a, \hC00000, \hC00000 + model.slow)
         /\ Region(model, a) = "pcmcia" => Within(a, \h200000, \hA80000)
         /\ Region(model, a) = "free" =>
              /\ a >= \h200000 /\ ~InCia(a) /\ ~Within(a, \hE00000, \hE80000)
         /\ Within(a, \hE80000, \h1000000) => Region(model, a) = "free"
<1>1. model.fast \in Nat /\ model.fast <= \h800000 /\ model.slow \in Nat /\ model.slow <= \h80000
  BY Sizes, SMT
<1> QED  BY <1>1, SMT DEF Region, Within, InCia

\* The place of a cell of memory.
RomStart(model) == \h1000000 - model.rom

CiaPlace(a) == <<IF a % 2 = 1 THEN "ciaA" ELSE "ciaB", CiaRegister(a)>>

\* The cell of an address, area by area.
LEMMA PlaceOfRam ==
  ASSUME NEW model \in Model, NEW boardAt, boardAt \subseteq Bases, NEW a \in Nat, NEW p
  PROVE  /\ Region(model, a) = "chip" =>
              (IsPlace(model, boardAt, a, p) <=> p = <<"chip", a % model.chip>>)
         /\ Region(model, a) = "fast" =>
              (IsPlace(model, boardAt, a, p) <=> p = <<"fast", a - \h200000>>)
         /\ Region(model, a) = "slow" =>
              (IsPlace(model, boardAt, a, p) <=> p = <<"slow", a - \hC00000>>)
         /\ Region(model, a) = "romMirror" =>
              (IsPlace(model, boardAt, a, p) <=> p = <<"rom", (a - \hE00000) % model.rom>>)
         /\ Region(model, a) = "pcmcia" => ~IsPlace(model, boardAt, a, p)
<1>1. /\ model.fast \in Nat /\ model.fast <= \h800000 /\ model.slow \in Nat /\ model.slow <= \h80000
      /\ model.rom \in Nat /\ model.rom <= \h80000 /\ model.rom > 0
  BY Sizes, SMT
<1>2. \A base \in boardAt : base \in Nat /\ base >= \hE90000 /\ base <= \hEF0000
  BY BaseRange, SMT
<1>3. ASSUME NEW f \in Nat, NEW x \in Nat, x < f  PROVE x % f = x
  BY <1>3
<1>4. CASE Region(model, a) = "chip"
  <2>1. a < \h200000  BY <1>4, Regions, SMT
  <2> QED  BY <1>1, <1>2, <1>4, <2>1, SMT DEF IsPlace, Within
<1>5. CASE Region(model, a) = "fast"
  <2>1. Within(a, \h200000, \h200000 + model.fast)  BY <1>5, RegionAreas, SMT
  <2>2. (a - \h200000) % model.fast = a - \h200000
    <3>1. a - \h200000 \in Nat /\ a - \h200000 < model.fast  BY <1>1, <2>1, SMT DEF Within
    <3> QED  BY <1>1, <1>3, <3>1, SMT
  <2> QED  BY <1>1, <1>2, <1>5, <2>1, <2>2, SMT DEF IsPlace, Within
<1>6. CASE Region(model, a) = "slow"
  <2>1. Within(a, \hC00000, \hC00000 + model.slow)  BY <1>6, RegionAreas, SMT
  <2>2. (a - \hC00000) % model.slow = a - \hC00000
    <3>1. a - \hC00000 \in Nat /\ a - \hC00000 < model.slow  BY <1>1, <2>1, SMT DEF Within
    <3> QED  BY <1>1, <1>3, <3>1, SMT
  <2> QED  BY <1>1, <1>2, <1>6, <2>1, <2>2, SMT DEF IsPlace, Within
<1>7. CASE Region(model, a) = "romMirror"
  <2>1. Within(a, \hE00000, \hE80000)  BY <1>7, Regions, SMT
  <2> QED  BY <1>1, <1>2, <1>7, <2>1, SMT DEF IsPlace, Within
<1>8. CASE Region(model, a) = "pcmcia"
  <2>1. Within(a, \h200000, \hA80000) /\ Region(model, a) # "fast"  BY <1>8, RegionAreas, SMT
  <2>2. ~Within(a, \h200000, \h200000 + model.fast)  BY <2>1, RegionAreas, SMT
  <2> QED  BY <1>1, <1>2, <1>8, <2>1, <2>2, SMT DEF IsPlace, Within
<1> QED  BY <1>4, <1>5, <1>6, <1>7, <1>8, SMT

\* The registers of the CIAs that an address of one chip selects.
LEMMA CiaCell ==
  ASSUME NEW a \in Nat, CellByte(a), InCia(a)
  PROVE  /\ Within(a, \hBFD000, \hBFF000) /\ CiaRegister(a) \in (0 .. 15) \ {ICR}
         /\ a % 2 = 1 => /\ Within(a, \hBFE000, \hBFF000) /\ ChipSelect(a) = 2
                         /\ a \div 256 = \hBFE0 + CiaRegister(a)
         /\ a % 2 = 0 => /\ Within(a, \hBFD000, \hBFE000) /\ ChipSelect(a) = 1
                         /\ a \div 256 = \hBFD0 + CiaRegister(a)
<1>1. \/ a \div \h1000 = \hBFD /\ a % 2 = 0 /\ CiaRegister(a) # ICR
      \/ a \div \h1000 = \hBFE /\ a % 2 = 1 /\ CiaRegister(a) # ICR
  BY SMT DEF CellByte
<1>2. CASE a \div \h1000 = \hBFD /\ a % 2 = 0 /\ CiaRegister(a) # ICR
  <2>1. a >= \hBFD000 /\ a < \hBFE000  BY <1>2, SMT
  <2>2. a \div 256 = \hBFD0 + ((a \div 256) % 16)  BY <2>1, SMT
  <2>3. (a \div \h1000) % 4 = 1  BY <1>2, SMT
  <2> QED  BY <1>2, <2>1, <2>2, <2>3, SMT DEF Within, CiaRegister, ChipSelect
<1>3. CASE a \div \h1000 = \hBFE /\ a % 2 = 1 /\ CiaRegister(a) # ICR
  <2>1. a >= \hBFE000 /\ a < \hBFF000  BY <1>3, SMT
  <2>2. a \div 256 = \hBFE0 + ((a \div 256) % 16)  BY <2>1, SMT
  <2>3. (a \div \h1000) % 4 = 2  BY <1>3, SMT
  <2> QED  BY <1>3, <2>1, <2>2, <2>3, SMT DEF Within, CiaRegister, ChipSelect
<1> QED  BY <1>1, <1>2, <1>3, SMT

LEMMA PlaceOfCia ==
  ASSUME NEW model \in Model, NEW boardAt, boardAt \subseteq Bases, NEW a \in Nat, NEW p,
         CellByte(a), InCia(a)
  PROVE  IsPlace(model, boardAt, a, p) <=> p = CiaPlace(a)
<1>1. /\ model.fast \in Nat /\ model.fast <= \h800000 /\ model.slow \in Nat /\ model.slow <= \h80000
      /\ model.rom \in Nat /\ model.rom <= \h80000 /\ model.rom > 0
  BY Sizes, SMT
<1>2. \A base \in boardAt : base \in Nat /\ base >= \hE90000 /\ base <= \hEF0000
  BY BaseRange, SMT
<1>3. Within(a, \hBFD000, \hBFF000)  BY CiaCell, SMT
<1>4. IsPlace(model, boardAt, a, p) <=>
        \/ \E r \in 0 .. 15 : a % 2 = 1 /\ a \div 256 = \hBFE0 + r /\ p = <<"ciaA", r>>
        \/ \E r \in 0 .. 15 : a % 2 = 0 /\ a \div 256 = \hBFD0 + r /\ p = <<"ciaB", r>>
  BY <1>1, <1>2, <1>3, SMT DEF IsPlace, Within
<1>5. a % 2 \in {0, 1}  BY SMT
<1>6. CASE a % 2 = 1
  <2>1. CiaRegister(a) \in 0 .. 15 /\ a \div 256 = \hBFE0 + CiaRegister(a)  BY <1>6, CiaCell, SMT
  <2>2. \A r \in 0 .. 15 : a \div 256 = \hBFE0 + r <=> r = CiaRegister(a)  BY <2>1, SMT
  <2>3. CiaPlace(a) = <<"ciaA", CiaRegister(a)>>  BY <1>6, SMT DEF CiaPlace
  <2> QED  BY <1>4, <1>6, <2>1, <2>2, <2>3, SMT
<1>7. CASE a % 2 = 0
  <2>1. CiaRegister(a) \in 0 .. 15 /\ a \div 256 = \hBFD0 + CiaRegister(a)  BY <1>7, CiaCell, SMT
  <2>2. \A r \in 0 .. 15 : a \div 256 = \hBFD0 + r <=> r = CiaRegister(a)  BY <2>1, SMT
  <2>3. CiaPlace(a) = <<"ciaB", CiaRegister(a)>>  BY <1>7, SMT DEF CiaPlace
  <2> QED  BY <1>4, <1>7, <2>1, <2>2, <2>3, SMT
<1> QED  BY <1>5, <1>6, <1>7

\* Where there is no RAM nor register: the board's RAM, the ROM or nothing.
LEMMA PlaceOfFree ==
  ASSUME NEW model \in Model, NEW boardAt, boardAt \subseteq Bases, NEW a \in Nat, NEW p,
         Region(model, a) = "free"
  PROVE  IsPlace(model, boardAt, a, p) <=>
           \/ Within(a, RomStart(model), \h1000000) /\ p = <<"rom", a - RomStart(model)>>
           \/ \E base \in boardAt : /\ Within(a, base + \h8000, base + \h10000)
                                    /\ p = <<"board", a - (base + \h8000)>>
<1>1. /\ model.rom \in Nat /\ model.rom <= \h80000 /\ model.rom > 0
  BY Sizes, SMT
<1>2. \A base \in boardAt : base \in Nat /\ base >= \hE90000 /\ base <= \hEF0000
  BY BaseRange, SMT
<1>3. /\ a >= \h200000 /\ ~InCia(a) /\ ~Within(a, \hE00000, \hE80000)
      /\ ~Within(a, \h200000, \h200000 + model.fast) /\ ~Within(a, \hC00000, \hC00000 + model.slow)
  BY RegionAreas, SMT
<1>4. ASSUME NEW f \in Nat, NEW x \in Nat, x < f  PROVE x % f = x
  BY <1>4
<1>5. Within(a, RomStart(model), \h1000000) =>
        (a - RomStart(model)) % model.rom = a - RomStart(model)
  <2> SUFFICES ASSUME Within(a, RomStart(model), \h1000000)
               PROVE  (a - RomStart(model)) % model.rom = a - RomStart(model)
    BY SMT
  <2>1. a - RomStart(model) \in Nat /\ a - RomStart(model) < model.rom
    BY <1>1, SMT DEF Within, RomStart
  <2> QED  BY <1>1, <1>4, <2>1, SMT
<1>6. \A base \in boardAt : Within(a, base + \h8000, base + \h10000) =>
        (a - (base + \h8000)) % \h8000 = a - (base + \h8000)
  <2> SUFFICES ASSUME NEW base \in boardAt, Within(a, base + \h8000, base + \h10000)
               PROVE  (a - (base + \h8000)) % \h8000 = a - (base + \h8000)
    BY SMT
  <2>1. a - (base + \h8000) \in Nat /\ a - (base + \h8000) < \h8000
    BY <1>2, SMT DEF Within
  <2> QED  BY <1>4, <2>1, SMT
<1>7. \A r \in 0 .. 15 : a \div 256 # \hBFE0 + r /\ a \div 256 # \hBFD0 + r
  <2>1. a < \hBFD000 \/ a >= \hC00000  BY <1>3, SMT DEF InCia, Within
  <2> QED  BY <2>1, SMT
<1>8. IsPlace(model, boardAt, a, p) <=>
        \/ /\ Within(a, RomStart(model), \h1000000)
           /\ p = <<"rom", (a - RomStart(model)) % model.rom>>
        \/ \E base \in boardAt : /\ Within(a, base + \h8000, base + \h10000)
                                 /\ p = <<"board", (a - (base + \h8000)) % \h8000>>
  <2>1. ~(a < \h200000)  BY <1>3, SMT
  <2> QED  BY <1>3, <1>7, <2>1, SMT DEF IsPlace, RomStart
<1> QED  BY <1>5, <1>6, <1>8, SMT
-----------------------------------------------------------------------------
(* The memory subsystem holds what the table says *)

RamKind == {"chip", "fast", "slow", "board"}

\* The board waits, is in its place or keeps quiet, as the guest left it.
Placed(b, known) ==
  /\ known.unplaced <=> AutoconfigActive(b.board)
  /\ known.unplaced => b.board.mapLo = 0
  /\ known.boardAt = IF b.board.enabled /\ b.board.configured THEN {b.board.base} ELSE {}
  /\ known.boardAt \subseteq Bases

Holds(b, known) ==
  /\ \A p : p[1] \in RamKind => Stored(b, p) = Kept(known, p)
  /\ \A r \in (0 .. 15) \ {ICR} : /\ b.ciaA[r] = Kept(known, <<"ciaA", r>>)
                                  /\ b.ciaB[r] = Kept(known, <<"ciaB", r>>)

Agrees(b, known) ==
  /\ IsBus(b) /\ IsKnown(known) /\ b.model \in Model
  /\ b.overlay = known.overlay /\ Placed(b, known) /\ Holds(b, known)

\* It does so as long as nothing happens to the memory.
LEMMA AgreesSame ==
  ASSUME NEW b, NEW c, NEW known, SameMemory(b, c), Agrees(b, known)
  PROVE  Agrees(c, known)
<1>1. /\ c.model = b.model /\ c.ram = b.ram /\ c.overlay = b.overlay /\ c.board = b.board
      /\ IsBus(c)
      /\ \A r \in (0 .. 15) \ {ICR} : c.ciaA[r] = b.ciaA[r] /\ c.ciaB[r] = b.ciaB[r]
  BY DEF SameMemory
<1>2. \A p : Stored(c, p) = Stored(b, p)  BY <1>1 DEF Stored
<1>3. Holds(c, known)  BY <1>1, <1>2 DEF Agrees, Holds
<1>4. Placed(c, known)  BY <1>1 DEF Agrees, Placed
<1> QED  BY <1>1, <1>3, <1>4 DEF Agrees

\* What the table keeps after a byte landed.
LEMMA LandByteIs ==
  ASSUME NEW known, IsKnown(known), NEW model \in Model, known.boardAt \subseteq Bases,
         NEW a \in Nat, NEW byte
  PROVE  LET k == LandByte(known, model, a, byte)
         IN  /\ IsKnown(k) /\ k.unplaced = known.unplaced /\ k.boardAt = known.boardAt
             /\ k.adkcon = known.adkcon
             /\ k.overlay = IF IsPlace(model, known.boardAt, a, <<"ciaA", 0>>) THEN byte % 2 = 1
                                                                              ELSE known.overlay
             /\ \A p : Kept(k, p) = IF IsPlace(model, known.boardAt, a, p) THEN byte
                                                                           ELSE Kept(known, p)
<1> DEFINE places == Places(model, known.boardAt, a)
           f == [p \in DOMAIN known.cells \cup places |-> IF p \in places THEN byte
                                                          ELSE known.cells[p]]
           o == IF <<"ciaA", 0>> \in places THEN byte % 2 = 1 ELSE known.overlay
           k == LandByte(known, model, a, byte)
<1>1. \A p : p \in places <=> IsPlace(model, known.boardAt, a, p)  BY InPlaces, SMT
<1>2. k = [known EXCEPT !.cells = f, !.overlay = o]  BY DEF LandByte, IsKnown, KnownField
<1> HIDE DEF places
<1>3. \A p : /\ p \in DOMAIN f <=> p \in places \/ p \in DOMAIN known.cells
             /\ p \in DOMAIN f => f[p] = IF p \in places THEN byte ELSE known.cells[p]
  OBVIOUS
<1>4. o = IF IsPlace(model, known.boardAt, a, <<"ciaA", 0>>) THEN byte % 2 = 1 ELSE known.overlay
  BY <1>1
<1> HIDE DEF f, o
<1>5. /\ IsKnown(k) /\ k.cells = f /\ k.overlay = o /\ k.unplaced = known.unplaced
      /\ k.boardAt = known.boardAt /\ k.adkcon = known.adkcon
  BY <1>2, ZenonT(30) DEF IsKnown, KnownField
<1> HIDE DEF k
<1>6. \A p : Kept(k, p) = IF IsPlace(model, known.boardAt, a, p) THEN byte ELSE Kept(known, p)
  BY <1>1, <1>3, <1>5 DEF Kept
<1> QED  BY <1>4, <1>5, <1>6 DEF k

\* Storing a byte in RAM.
LEMMA StoreIs ==
  ASSUME NEW b, IsBus(b), NEW cell, NEW byte
  PROVE  LET c == Store(b, cell, byte)
         IN  /\ IsBus(c) /\ SameRegisters(b, c)
             /\ c.model = b.model /\ c.overlay = b.overlay /\ c.board = b.board
             /\ c.ciaA = b.ciaA /\ c.ciaB = b.ciaB
             /\ \A p : Stored(c, p) = IF p = cell THEN byte ELSE Stored(b, p)
<1> DEFINE f == Put(b.ram, cell, byte)
           c == Store(b, cell, byte)
<1>1. \A p : /\ p \in DOMAIN f <=> p = cell \/ p \in DOMAIN b.ram
             /\ p \in DOMAIN f => f[p] = IF p = cell THEN byte ELSE b.ram[p]
  BY DEF Put
<1> HIDE DEF f
<1>2. /\ IsBus(c) /\ SameRegisters(b, c) /\ c.ram = f
      /\ c.model = b.model /\ c.overlay = b.overlay /\ c.board = b.board
      /\ c.ciaA = b.ciaA /\ c.ciaB = b.ciaB
  BY DEF IsBus, BusField, Store, SameRegisters, f
<1> HIDE DEF c
<1>3. \A p : Stored(c, p) = IF p = cell THEN byte ELSE Stored(b, p)
  BY <1>1, <1>2 DEF Stored
<1> QED  BY <1>2, <1>3 DEF c

\* A byte lands in a cell of RAM, and the table has it there.
LEMMA LandsInRam ==
  ASSUME NEW b, NEW known, Agrees(b, known), NEW a \in Nat, NEW byte,
         NEW cell, cell[1] \in RamKind,
         \A p : IsPlace(b.model, known.boardAt, a, p) <=> p = cell
  PROVE  Agrees(Store(b, cell, byte), LandByte(known, b.model, a, byte))
<1> DEFINE c == Store(b, cell, byte)
           k == LandByte(known, b.model, a, byte)
<1>1. /\ IsBus(c) /\ c.model = b.model /\ c.overlay = b.overlay /\ c.board = b.board
      /\ c.ciaA = b.ciaA /\ c.ciaB = b.ciaB
      /\ \A p : Stored(c, p) = IF p = cell THEN byte ELSE Stored(b, p)
  BY StoreIs DEF Agrees
<1>2. /\ IsKnown(k) /\ k.unplaced = known.unplaced /\ k.boardAt = known.boardAt
      /\ k.overlay = IF IsPlace(b.model, known.boardAt, a, <<"ciaA", 0>>) THEN byte % 2 = 1
                                                                          ELSE known.overlay
      /\ \A p : Kept(k, p) = IF IsPlace(b.model, known.boardAt, a, p) THEN byte ELSE Kept(known, p)
  <2>1. IsKnown(known) /\ b.model \in Model /\ known.boardAt \subseteq Bases  BY DEF Agrees, Placed
  <2> QED  BY <2>1, LandByteIs
<1>3. \A r : cell # <<"ciaA", r>> /\ cell # <<"ciaB", r>>  BY DEF RamKind
<1>4. Holds(c, k)
  <2>1. \A p : Kept(k, p) = IF p = cell THEN byte ELSE Kept(known, p)  BY <1>2
  <2>2. \A p : p[1] \in RamKind => Stored(c, p) = Kept(k, p)  BY <1>1, <2>1 DEF Agrees, Holds
  <2>3. \A r : /\ Kept(k, <<"ciaA", r>>) = Kept(known, <<"ciaA", r>>)
               /\ Kept(k, <<"ciaB", r>>) = Kept(known, <<"ciaB", r>>)
    BY <1>3, <2>1
  <2> QED  BY <1>1, <2>2, <2>3 DEF Agrees, Holds
<1>5. Placed(c, k)  BY <1>1, <1>2 DEF Agrees, Placed
<1>6. k.overlay = known.overlay  BY <1>2, <1>3
<1> QED  BY <1>1, <1>2, <1>4, <1>5, <1>6 DEF Agrees

\* A byte for ROM or for nothing is lost.
LEMMA LandsNowhere ==
  ASSUME NEW b, NEW known, Agrees(b, known), NEW a \in Nat, NEW byte,
         \A p : IsPlace(b.model, known.boardAt, a, p) => p[1] = "rom"
  PROVE  Agrees(b, LandByte(known, b.model, a, byte))
<1> DEFINE k == LandByte(known, b.model, a, byte)
<1>1. /\ IsKnown(k) /\ k.unplaced = known.unplaced /\ k.boardAt = known.boardAt
      /\ k.overlay = IF IsPlace(b.model, known.boardAt, a, <<"ciaA", 0>>) THEN byte % 2 = 1
                                                                          ELSE known.overlay
      /\ \A p : Kept(k, p) = IF IsPlace(b.model, known.boardAt, a, p) THEN byte ELSE Kept(known, p)
  <2>1. IsKnown(known) /\ b.model \in Model /\ known.boardAt \subseteq Bases  BY DEF Agrees, Placed
  <2> QED  BY <2>1, LandByteIs
<1>2. \A p : p[1] # "rom" => Kept(k, p) = Kept(known, p)  BY <1>1
<1>3. Holds(b, k)
  <2>1. \A p : p[1] \in RamKind => Kept(k, p) = Kept(known, p)  BY <1>2 DEF RamKind
  <2>2. \A r : /\ Kept(k, <<"ciaA", r>>) = Kept(known, <<"ciaA", r>>)
               /\ Kept(k, <<"ciaB", r>>) = Kept(known, <<"ciaB", r>>)
    BY <1>2
  <2> QED  BY <2>1, <2>2 DEF Agrees, Holds
<1>4. Placed(b, k)  BY <1>1 DEF Agrees, Placed
<1>5. k.overlay = known.overlay
  <2>1. ~IsPlace(b.model, known.boardAt, a, <<"ciaA", 0>>)  OBVIOUS
  <2> QED  BY <1>1, <2>1
<1> QED  BY <1>1, <1>3, <1>4, <1>5 DEF Agrees

\* Writing a register of a CIA.
LEMMA WriteToChipIs ==
  ASSUME NEW chip, IsChip(chip), NEW r \in (0 .. 15) \ {ICR}, NEW byte
  PROVE  /\ IsChip(WriteChip(chip, r, byte))
         /\ \A q \in 0 .. 15 : WriteChip(chip, r, byte)[q] = IF q = r THEN byte ELSE chip[q]
BY DEF IsChip, WriteChip, ICR

\* A CIA register written, ICR aside, holds the byte, and port A carries the overlay.
LEMMA WriteCiaAIs ==
  ASSUME NEW b, IsBus(b), NEW r \in (0 .. 15) \ {ICR}, NEW byte
  PROVE  LET c == WriteCiaA(b, r, byte)
         IN  /\ IsBus(c) /\ SameRegisters(b, c)
             /\ c.model = b.model /\ c.ram = b.ram /\ c.board = b.board /\ c.ciaB = b.ciaB
             /\ c.overlay = IF r = 0 THEN byte % 2 = 1 ELSE b.overlay
             /\ \A q \in 0 .. 15 : c.ciaA[q] = IF q = r THEN byte ELSE b.ciaA[q]
<1> DEFINE chip == WriteChip(b.ciaA, r, byte)
           d == [b EXCEPT !.ciaA = chip]
           e == [d EXCEPT !.pra = byte, !.overlay = byte % 2 = 1]
<1>1. IsChip(chip) /\ \A q \in 0 .. 15 : chip[q] = IF q = r THEN byte ELSE b.ciaA[q]
  BY WriteToChipIs DEF IsBus
<1>2. WriteCiaA(b, r, byte) = IF r = 0 THEN e ELSE d  BY DEF WriteCiaA
<1> HIDE DEF chip
<1>3. /\ IsBus(d) /\ SameRegisters(b, d) /\ d.model = b.model /\ d.ram = b.ram
      /\ d.board = b.board /\ d.ciaB = b.ciaB /\ d.overlay = b.overlay /\ d.ciaA = chip
  BY <1>1 DEF IsBus, BusField, SameRegisters
<1> HIDE DEF d
<1> DEFINE flag == byte % 2 = 1
<1> HIDE DEF flag
<1>4. /\ IsBus(e) /\ SameRegisters(d, e) /\ e.model = d.model /\ e.ram = d.ram
      /\ e.board = d.board /\ e.ciaB = d.ciaB /\ e.overlay = flag /\ e.ciaA = d.ciaA
  <2>1. e = [d EXCEPT !.pra = byte, !.overlay = flag]  BY DEF flag
  <2> HIDE DEF e
  <2> QED  BY <1>3, <2>1, ZenonT(30) DEF IsBus, BusField, SameRegisters
<1> HIDE DEF e
<1> QED  BY <1>1, <1>2, <1>3, <1>4 DEF SameRegisters, flag

LEMMA WriteCiaBIs ==
  ASSUME NEW b, IsBus(b), NEW r \in (0 .. 15) \ {ICR}, NEW byte
  PROVE  LET c == WriteCiaB(b, r, byte)
         IN  /\ IsBus(c) /\ SameRegisters(b, c)
             /\ c.model = b.model /\ c.ram = b.ram /\ c.board = b.board /\ c.ciaA = b.ciaA
             /\ c.overlay = b.overlay
             /\ \A q \in 0 .. 15 : c.ciaB[q] = IF q = r THEN byte ELSE b.ciaB[q]
<1> DEFINE chip == WriteChip(b.ciaB, r, byte)
           d == [b EXCEPT !.ciaB = chip]
           e == [d EXCEPT !.prbDirty = TRUE, !.flagEnabled = TRUE]
<1>1. IsChip(chip) /\ \A q \in 0 .. 15 : chip[q] = IF q = r THEN byte ELSE b.ciaB[q]
  BY WriteToChipIs DEF IsBus
<1>2. WriteCiaB(b, r, byte) = IF r = 1 THEN e ELSE d  BY DEF WriteCiaB
<1> HIDE DEF chip
<1>3. /\ IsBus(d) /\ SameRegisters(b, d) /\ d.model = b.model /\ d.ram = b.ram
      /\ d.board = b.board /\ d.ciaA = b.ciaA /\ d.overlay = b.overlay /\ d.ciaB = chip
  BY <1>1 DEF IsBus, BusField, SameRegisters
<1> HIDE DEF d
<1>4. /\ IsBus(e) /\ SameRegisters(d, e) /\ e.model = d.model /\ e.ram = d.ram
      /\ e.board = d.board /\ e.ciaA = d.ciaA /\ e.overlay = d.overlay /\ e.ciaB = d.ciaB
  BY <1>3, ZenonT(30) DEF IsBus, BusField, SameRegisters
<1> HIDE DEF e
<1> QED  BY <1>1, <1>2, <1>3, <1>4 DEF SameRegisters

\* Where the board is.
LEMMA BoardIs ==
  ASSUME NEW b, NEW known, Agrees(b, known), NEW a \in Nat
  PROVE  /\ InWindow(b.board, a) <=> known.unplaced /\ Within(a, \hE80000, \hE90000)
         /\ \A base \in known.boardAt :
              /\ ~known.unplaced
              /\ BoardOffset(b.board, a) = IF Within(a, base, base + \h10000) THEN a - base
                                                                             ELSE Nowhere
         /\ known.boardAt = {} => BoardOffset(b.board, a) = Nowhere
         /\ BoardTakes(b, a) <=> \/ InWindow(b.board, a)
                                 \/ \E base \in known.boardAt : Within(a, base, base + \h10000)
         /\ BoardTakes(b, a) => Within(a, \hE80000, \hF00000)
<1>1. InWindow(b.board, a) <=> known.unplaced /\ Within(a, \hE80000, \hE90000)
  BY SMT DEF Agrees, Placed, InWindow
<1>2. \A base \in known.boardAt :
        /\ ~known.unplaced
        /\ BoardOffset(b.board, a) = IF Within(a, base, base + \h10000) THEN a - base ELSE Nowhere
  BY SMT DEF Agrees, Placed, BoardOffset, AutoconfigActive
<1>3. known.boardAt = {} => BoardOffset(b.board, a) = Nowhere
  BY SMT DEF Agrees, Placed, BoardOffset
<1>4. \A base \in known.boardAt : base \in Nat /\ base >= \hE90000 /\ base <= \hEF0000
  BY BaseRange, SMT DEF Agrees, Placed
<1>5. BoardTakes(b, a) <=> \/ InWindow(b.board, a)
                           \/ \E base \in known.boardAt : Within(a, base, base + \h10000)
  <2>1. CASE known.boardAt = {}  BY <1>3, <2>1, SMT DEF BoardTakes
  <2>2. CASE known.boardAt # {}
    <3>1. PICK base \in known.boardAt : TRUE  BY <2>2
    <3>2. \A other \in known.boardAt : other = base  BY <3>1, SMT DEF Agrees, Placed
    <3>3. BoardOffset(b.board, a) # Nowhere <=> Within(a, base, base + \h10000)
      BY <1>2, <1>4, <3>1, SMT DEF Within, Nowhere
    <3> QED  BY <3>1, <3>2, <3>3, SMT DEF BoardTakes
  <2> QED  BY <2>1, <2>2
<1>6. BoardTakes(b, a) => Within(a, \hE80000, \hF00000)
  BY <1>1, <1>4, <1>5, SMT DEF Within
<1> QED  BY <1>1, <1>2, <1>3, <1>5, <1>6, SMT

\* Where a byte is written to.
ToChip(b, a, byte) == Store(b, <<"chip", a % b.model.chip>>, byte)
ToFast(b, a, byte) == Store(b, <<"fast", a - \h200000>>, byte)
ToSlow(b, a, byte) == Store(b, <<"slow", a - \hC00000>>, byte)
ToBoard(b, a, byte) == IF BoardTakes(b, a) THEN BoardWriteByte(b, a, byte) ELSE b

\* The cascade of write_byte, one area at a time (ten lemmas).
LEMMA WriteChipIs ==
  ASSUME NEW b, NEW a, NEW byte, Region(b.model, a) = "chip"
  PROVE  WriteByte(b, a, byte) = ToChip(b, a, byte)
BY SMT DEF WriteByte, ToChip

LEMMA WriteFastIs ==
  ASSUME NEW b, NEW a, NEW byte, Region(b.model, a) = "fast"
  PROVE  WriteByte(b, a, byte) = ToFast(b, a, byte)
BY SMT DEF WriteByte, ToFast

LEMMA WriteSlowIs ==
  ASSUME NEW b, NEW a, NEW byte, Region(b.model, a) = "slow"
  PROVE  WriteByte(b, a, byte) = ToSlow(b, a, byte)
BY SMT DEF WriteByte, ToSlow

LEMMA WritePcmciaIs ==
  ASSUME NEW b, NEW a, NEW byte, Region(b.model, a) = "pcmcia"
  PROVE  WriteByte(b, a, byte) = b
BY SMT DEF WriteByte

LEMMA WriteCiaIs ==
  ASSUME NEW b, NEW a, NEW byte, Region(b.model, a) = "cia"
  PROVE  WriteByte(b, a, byte) = WriteCiaByte(b, a, byte)
BY SMT DEF WriteByte

LEMMA WriteGayleIs ==
  ASSUME NEW b, NEW a, NEW byte, Region(b.model, a) = "gayle"
  PROVE  WriteByte(b, a, byte) = WriteGayle(b, a, byte)
BY SMT DEF WriteByte

LEMMA WriteGayleIdIs ==
  ASSUME NEW b, NEW a, NEW byte, Region(b.model, a) = "gayleId"
  PROVE  WriteByte(b, a, byte) = [b EXCEPT !.gayle.id = 0]
BY SMT DEF WriteByte

LEMMA WriteCustomIs ==
  ASSUME NEW b, NEW a, NEW byte, Region(b.model, a) = "custom"
  PROVE  WriteByte(b, a, byte) = ToBoard(WriteCustomByte(b, a, byte), a, byte)
BY SMT DEF WriteByte, ToBoard

LEMMA WriteMirrorIs ==
  ASSUME NEW b, NEW a, NEW byte, Region(b.model, a) = "romMirror"
  PROVE  WriteByte(b, a, byte) = ToBoard(b, a, byte)
BY SMT DEF WriteByte, ToBoard

LEMMA WriteFreeIs ==
  ASSUME NEW b, NEW a, NEW byte, Region(b.model, a) = "free"
  PROVE  WriteByte(b, a, byte) = ToBoard(b, a, byte)
BY SMT DEF WriteByte, ToBoard

\* A byte written lands where the table says, the registers of the custom chips
\* untouched: in RAM, in a CIA, on the board or nowhere.
Lands(b, c, known, a, byte) ==
  Agrees(c, LandByte(known, b.model, a, byte)) /\ SameRegisters(b, c) /\ c.model = b.model

\* A byte written to an area of RAM, or to the PCMCIA area, lands where the map says.
LEMMA RamLands ==
  ASSUME NEW b, NEW known, Agrees(b, known), NEW a \in Nat, NEW byte,
         Region(b.model, a) \in {"chip", "fast", "slow", "pcmcia"}
  PROVE  Lands(b, WriteByte(b, a, byte), known, a, byte)
<1>1. b.model \in Model /\ known.boardAt \subseteq Bases /\ IsBus(b)  BY DEF Agrees, Placed
<1>2. ASSUME NEW cell, cell[1] \in RamKind,
             \A p : IsPlace(b.model, known.boardAt, a, p) <=> p = cell
      PROVE  Lands(b, Store(b, cell, byte), known, a, byte)
  BY <1>1, <1>2, LandsInRam, StoreIs DEF Lands
<1>3. CASE Region(b.model, a) = "chip"
  <2> DEFINE cell == <<"chip", a % b.model.chip>>
  <2>1. \A p : IsPlace(b.model, known.boardAt, a, p) <=> p = cell  BY <1>1, <1>3, PlaceOfRam, SMT
  <2>2. cell[1] \in RamKind  BY DEF RamKind
  <2>3. WriteByte(b, a, byte) = Store(b, cell, byte)  BY <1>3, WriteChipIs DEF ToChip
  <2> QED  BY <1>2, <2>1, <2>2, <2>3
<1>4. CASE Region(b.model, a) = "fast"
  <2> DEFINE cell == <<"fast", a - \h200000>>
  <2>1. \A p : IsPlace(b.model, known.boardAt, a, p) <=> p = cell  BY <1>1, <1>4, PlaceOfRam, SMT
  <2>2. cell[1] \in RamKind  BY SMT DEF RamKind
  <2>3. WriteByte(b, a, byte) = Store(b, cell, byte)
    <3> HIDE DEF cell
    <3>1. WriteByte(b, a, byte) = ToFast(b, a, byte)  BY <1>4, WriteFastIs
    <3>2. ToFast(b, a, byte) = Store(b, cell, byte)  BY SMT DEF ToFast, cell
    <3> QED  BY <3>1, <3>2
  <2> HIDE DEF cell
  <2> QED  BY <1>2, <2>1, <2>2, <2>3
<1>5. CASE Region(b.model, a) = "slow"
  <2> DEFINE cell == <<"slow", a - \hC00000>>
  <2>1. \A p : IsPlace(b.model, known.boardAt, a, p) <=> p = cell  BY <1>1, <1>5, PlaceOfRam, SMT
  <2>2. cell[1] \in RamKind  BY SMT DEF RamKind
  <2>3. WriteByte(b, a, byte) = Store(b, cell, byte)
    <3> HIDE DEF cell
    <3>1. WriteByte(b, a, byte) = ToSlow(b, a, byte)  BY <1>5, WriteSlowIs
    <3>2. ToSlow(b, a, byte) = Store(b, cell, byte)  BY SMT DEF ToSlow, cell
    <3> QED  BY <3>1, <3>2
  <2> HIDE DEF cell
  <2> QED  BY <1>2, <2>1, <2>2, <2>3
<1>6. CASE Region(b.model, a) = "pcmcia"
  <2>1. \A p : ~IsPlace(b.model, known.boardAt, a, p)  BY <1>1, <1>6, PlaceOfRam, SMT
  <2>2. WriteByte(b, a, byte) = b  BY <1>6, WritePcmciaIs
  <2>3. Agrees(b, LandByte(known, b.model, a, byte))  BY <2>1, LandsNowhere
  <2> QED  BY <2>2, <2>3 DEF Lands, SameRegisters
<1> QED  BY <1>3, <1>4, <1>5, <1>6

\* A byte for a register of a CIA.
LEMMA CiaALands ==
  ASSUME NEW b, NEW known, Agrees(b, known), NEW a \in Nat, NEW byte, NEW r \in (0 .. 15) \ {ICR},
         \A p : IsPlace(b.model, known.boardAt, a, p) <=> p = <<"ciaA", r>>
  PROVE  Lands(b, WriteCiaA(b, r, byte), known, a, byte)
<1> DEFINE c == WriteCiaA(b, r, byte)
           k == LandByte(known, b.model, a, byte)
           odd == byte % 2 = 1
<1> HIDE DEF odd
<1>1. /\ IsBus(c) /\ SameRegisters(b, c)
      /\ c.model = b.model /\ c.ram = b.ram /\ c.board = b.board /\ c.ciaB = b.ciaB
      /\ c.overlay = IF r = 0 THEN odd ELSE b.overlay
      /\ \A q \in 0 .. 15 : c.ciaA[q] = IF q = r THEN byte ELSE b.ciaA[q]
  BY WriteCiaAIs DEF Agrees, odd
<1>2. /\ IsKnown(k) /\ k.unplaced = known.unplaced /\ k.boardAt = known.boardAt
      /\ k.overlay = IF IsPlace(b.model, known.boardAt, a, <<"ciaA", 0>>) THEN odd ELSE known.overlay
      /\ \A p : Kept(k, p) = IF IsPlace(b.model, known.boardAt, a, p) THEN byte ELSE Kept(known, p)
  <2>1. IsKnown(known) /\ b.model \in Model /\ known.boardAt \subseteq Bases  BY DEF Agrees, Placed
  <2> QED  BY <2>1, LandByteIs DEF odd
<1> HIDE DEF c, k
<1>3. \A p : Kept(k, p) = IF p = <<"ciaA", r>> THEN byte ELSE Kept(known, p)  BY <1>2
<1>4. Holds(c, k)
  <2>1. \A p : p[1] \in RamKind => p # <<"ciaA", r>>  BY DEF RamKind
  <2>2. \A p : Stored(c, p) = Stored(b, p)  BY <1>1 DEF Stored
  <2>3. \A p : p[1] \in RamKind => Stored(c, p) = Kept(k, p)
    BY <1>3, <2>1, <2>2 DEF Agrees, Holds
  <2>4. \A q : /\ Kept(k, <<"ciaA", q>>) = IF q = r THEN byte ELSE Kept(known, <<"ciaA", q>>)
               /\ Kept(k, <<"ciaB", q>>) = Kept(known, <<"ciaB", q>>)
    BY <1>3
  <2> QED  BY <1>1, <2>3, <2>4 DEF Agrees, Holds
<1>5. Placed(c, k)  BY <1>1, <1>2 DEF Agrees, Placed
<1>6. k.overlay = c.overlay
  <2>1. IsPlace(b.model, known.boardAt, a, <<"ciaA", 0>>) <=> r = 0  OBVIOUS
  <2> QED  BY <1>1, <1>2, <2>1 DEF Agrees
<1>7. Agrees(c, k)  BY <1>1, <1>2, <1>4, <1>5, <1>6 DEF Agrees
<1> QED  BY <1>1, <1>7 DEF Lands, c, k

\* A byte written to CIA B lands in its register.
LEMMA CiaBLands ==
  ASSUME NEW b, NEW known, Agrees(b, known), NEW a \in Nat, NEW byte, NEW r \in (0 .. 15) \ {ICR},
         \A p : IsPlace(b.model, known.boardAt, a, p) <=> p = <<"ciaB", r>>
  PROVE  Lands(b, WriteCiaB(b, r, byte), known, a, byte)
<1> DEFINE c == WriteCiaB(b, r, byte)
           k == LandByte(known, b.model, a, byte)
           odd == byte % 2 = 1
<1> HIDE DEF odd
<1>1. /\ IsBus(c) /\ SameRegisters(b, c)
      /\ c.model = b.model /\ c.ram = b.ram /\ c.board = b.board /\ c.ciaA = b.ciaA
      /\ c.overlay = b.overlay
      /\ \A q \in 0 .. 15 : c.ciaB[q] = IF q = r THEN byte ELSE b.ciaB[q]
  BY WriteCiaBIs DEF Agrees
<1>2. /\ IsKnown(k) /\ k.unplaced = known.unplaced /\ k.boardAt = known.boardAt
      /\ k.overlay = IF IsPlace(b.model, known.boardAt, a, <<"ciaA", 0>>) THEN odd ELSE known.overlay
      /\ \A p : Kept(k, p) = IF IsPlace(b.model, known.boardAt, a, p) THEN byte ELSE Kept(known, p)
  <2>1. IsKnown(known) /\ b.model \in Model /\ known.boardAt \subseteq Bases  BY DEF Agrees, Placed
  <2> QED  BY <2>1, LandByteIs DEF odd
<1> HIDE DEF c, k
<1>3. \A p : Kept(k, p) = IF p = <<"ciaB", r>> THEN byte ELSE Kept(known, p)  BY <1>2
<1>4. Holds(c, k)
  <2>1. \A p : p[1] \in RamKind => p # <<"ciaB", r>>  BY DEF RamKind
  <2>2. \A p : Stored(c, p) = Stored(b, p)  BY <1>1 DEF Stored
  <2>3. \A p : p[1] \in RamKind => Stored(c, p) = Kept(k, p)
    BY <1>3, <2>1, <2>2 DEF Agrees, Holds
  <2>4. \A q : /\ Kept(k, <<"ciaB", q>>) = IF q = r THEN byte ELSE Kept(known, <<"ciaB", q>>)
               /\ Kept(k, <<"ciaA", q>>) = Kept(known, <<"ciaA", q>>)
    BY <1>3
  <2> QED  BY <1>1, <2>3, <2>4 DEF Agrees, Holds
<1>5. Placed(c, k)  BY <1>1, <1>2 DEF Agrees, Placed
<1>6. k.overlay = c.overlay
  <2>1. ~IsPlace(b.model, known.boardAt, a, <<"ciaA", 0>>)  OBVIOUS
  <2> QED  BY <1>1, <1>2, <2>1 DEF Agrees
<1>7. Agrees(c, k)  BY <1>1, <1>2, <1>4, <1>5, <1>6 DEF Agrees
<1> QED  BY <1>1, <1>7 DEF Lands, c, k

\* A byte written to the CIA page lands in the CIA its address selects.
LEMMA CiaByteLands ==
  ASSUME NEW b, NEW known, Agrees(b, known), NEW a \in Nat, NEW byte, CellByte(a), InCia(a)
  PROVE  Lands(b, WriteCiaByte(b, a, byte), known, a, byte)
<1> DEFINE r == CiaRegister(a)
<1>1. r \in (0 .. 15) \ {ICR} /\ Within(a, \hBFD000, \hBFF000)  BY CiaCell, SMT
<1>2. \A p : IsPlace(b.model, known.boardAt, a, p) <=> p = CiaPlace(a)
  BY PlaceOfCia, SMT DEF Agrees, Placed
<1>3. a % 2 \in {0, 1}  BY SMT
<1>4. CASE a % 2 = 1
  <2>1. Within(a, \hBFE000, \hBFF000) /\ ChipSelect(a) = 2  BY <1>4, CiaCell, SMT
  <2>2. a >= \hBFE001  BY <1>4, <2>1, SMT DEF Within
  <2>3. SelectsA(b.model, a) /\ ~SelectsB(b.model, a)  BY <2>1, SMT DEF SelectsA, SelectsB
  <2>4. WriteCiaByte(b, a, byte) = WriteCiaA(b, r, byte)
    BY <1>4, <2>2, <2>3, SMT DEF WriteCiaByte
  <2>5. CiaPlace(a) = <<"ciaA", r>>  BY <1>4, SMT DEF CiaPlace
  <2> HIDE DEF r
  <2> QED  BY <1>1, <1>2, <2>4, <2>5, CiaALands, SMT
<1>5. CASE a % 2 = 0
  <2>1. ChipSelect(a) = 1  BY <1>5, CiaCell, SMT
  <2>2. SelectsB(b.model, a) /\ ~SelectsA(b.model, a)  BY <2>1, SMT DEF SelectsA, SelectsB
  <2>3. WriteCiaByte(b, a, byte) = WriteCiaB(b, r, byte)
    BY <1>5, <2>2, SMT DEF WriteCiaByte
  <2>4. CiaPlace(a) = <<"ciaB", r>>  BY <1>5, SMT DEF CiaPlace
  <2> HIDE DEF r
  <2> QED  BY <1>1, <1>2, <2>3, <2>4, CiaBLands, SMT
<1> QED  BY <1>3, <1>4, <1>5

\* A byte for the board's RAM, for its registers' space, for ROM or for nothing.
LEMMA FreeLands ==
  ASSUME NEW b, NEW known, Agrees(b, known), NEW a \in Nat, NEW byte,
         Region(b.model, a) = "free", ~Within(a, \hE80000, \hE90000)
  PROVE  Lands(b, ToBoard(b, a, byte), known, a, byte)
<1>1. b.model \in Model /\ known.boardAt \subseteq Bases /\ IsBus(b)  BY DEF Agrees, Placed
<1>2. \A p : IsPlace(b.model, known.boardAt, a, p) <=>
        \/ Within(a, RomStart(b.model), \h1000000) /\ p = <<"rom", a - RomStart(b.model)>>
        \/ \E base \in known.boardAt : /\ Within(a, base + \h8000, base + \h10000)
                                       /\ p = <<"board", a - (base + \h8000)>>
  BY <1>1, PlaceOfFree, SMT
<1>3. ~InWindow(b.board, a)  BY BoardIs, SMT
<1>4. CASE \E base \in known.boardAt : Within(a, base + \h8000, base + \h10000)
  <2>1. PICK base \in known.boardAt : Within(a, base + \h8000, base + \h10000)  BY <1>4
  <2>2. base \in Nat /\ base >= \hE90000 /\ base <= \hEF0000  BY <1>1, BaseRange, SMT
  <2>3. \A other \in known.boardAt : other = base  BY SMT DEF Agrees, Placed
  <2>4. BoardTakes(b, a)  BY <2>1, <2>2, BoardIs, SMT DEF Within
  <2>5. BoardOffset(b.board, a) = a - base  BY <2>1, <2>2, BoardIs, SMT DEF Within
  <2> DEFINE cell == <<"board", a - (base + \h8000)>>
  <2>6. (a - base) % \h8000 = a - (base + \h8000) /\ a - base >= \h8000
    BY <2>1, <2>2, SMT DEF Within
  <2>7. WriteBoardByte(b, a - base, byte) = Store(b, cell, byte)
    BY <2>6, SMT DEF WriteBoardByte
  <2>8. ToBoard(b, a, byte) = Store(b, cell, byte)
    BY <1>3, <2>4, <2>5, <2>7, SMT DEF ToBoard, BoardWriteByte
  <2>9. ~Within(a, RomStart(b.model), \h1000000)
    <3>1. b.model.rom \in {\h40000, \h80000}  BY <1>1, Sizes, SMT
    <3> QED  BY <2>1, <2>2, <3>1, SMT DEF Within, RomStart
  <2>10. \A p : IsPlace(b.model, known.boardAt, a, p) <=> p = cell
    BY <1>2, <2>1, <2>3, <2>9, SMT
  <2>11. cell[1] \in RamKind  BY SMT DEF RamKind
  <2> HIDE DEF cell
  <2>12. Agrees(Store(b, cell, byte), LandByte(known, b.model, a, byte))
    BY <2>10, <2>11, LandsInRam
  <2> QED  BY <1>1, <2>8, <2>12, StoreIs DEF Lands
<1>5. CASE ~\E base \in known.boardAt : Within(a, base + \h8000, base + \h10000)
  <2>1. \A p : IsPlace(b.model, known.boardAt, a, p) => p[1] = "rom"  BY <1>2, <1>5, SMT
  <2>2. ToBoard(b, a, byte) = b
    <3>1. CASE BoardTakes(b, a)
      <4>1. PICK base \in known.boardAt : Within(a, base, base + \h10000)
        BY <1>3, <3>1, BoardIs, SMT
      <4>2. BoardOffset(b.board, a) = a - base  BY <4>1, BoardIs, SMT
      <4>3. base \in Nat  BY <1>1, BaseRange, SMT
      <4>4. ~(a - base >= \h8000)  BY <1>5, <4>1, <4>3, SMT DEF Within
      <4> QED  BY <1>3, <3>1, <4>2, <4>4, SMT DEF ToBoard, BoardWriteByte, WriteBoardByte
    <3>2. CASE ~BoardTakes(b, a)  BY <3>2 DEF ToBoard
    <3> QED  BY <3>1, <3>2
  <2>3. Agrees(b, LandByte(known, b.model, a, byte))  BY <2>1, LandsNowhere
  <2> QED  BY <2>2, <2>3 DEF Lands, SameRegisters
<1> QED  BY <1>4, <1>5

\* A byte written anywhere but in the window of autoconfig lands where the map says.
LEMMA ByteLands ==
  ASSUME NEW b, NEW known, Agrees(b, known), NEW a \in Nat, NEW byte,
         CellByte(a), ~Within(a, \hE80000, \hE90000)
  PROVE  Lands(b, WriteByte(b, a, byte), known, a, byte)
<1> DEFINE region == Region(b.model, a)
<1>1. b.model \in Model /\ known.boardAt \subseteq Bases  BY DEF Agrees, Placed
<1>2. region \in {"chip", "fast", "slow", "pcmcia", "cia", "free", "romMirror"}
  <2>1. region \notin {"gayle", "gayleId", "custom"}  BY Regions, SMT DEF CellByte
  <2>2. region \in {"chip", "fast", "pcmcia", "free", "cia", "slow", "gayle",
                    "gayleId", "custom", "romMirror"}
    BY Regions
  <2> HIDE DEF region
  <2> QED  BY <2>1, <2>2
<1>3. CASE region \in {"chip", "fast", "slow", "pcmcia"}  BY <1>3, RamLands
<1>4. CASE region = "cia"
  <2>1. InCia(a)  BY <1>4, Regions
  <2>2. WriteByte(b, a, byte) = WriteCiaByte(b, a, byte)  BY <1>4, WriteCiaIs
  <2> QED  BY <2>1, <2>2, CiaByteLands, SMT
<1>5. CASE region = "free"
  <2>1. WriteByte(b, a, byte) = ToBoard(b, a, byte)  BY <1>5, WriteFreeIs, SMT
  <2> QED  BY <1>5, <2>1, FreeLands, SMT
<1>6. CASE region = "romMirror"
  <2>1. Within(a, \hE00000, \hE80000)  BY <1>6, Regions, SMT
  <2>2. ~BoardTakes(b, a)  BY <2>1, BoardIs, SMT DEF Within
  <2>3. WriteByte(b, a, byte) = b
    <3>1. WriteByte(b, a, byte) = ToBoard(b, a, byte)  BY <1>6, WriteMirrorIs, SMT
    <3> QED  BY <2>2, <3>1 DEF ToBoard
  <2>4. \A p : IsPlace(b.model, known.boardAt, a, p) => p[1] = "rom"
    <3>1. \A p : IsPlace(b.model, known.boardAt, a, p) <=>
                   p = <<"rom", (a - \hE00000) % b.model.rom>>
      BY <1>1, <1>6, PlaceOfRam, SMT
    <3> QED  BY <3>1, SMT
  <2>5. Agrees(b, LandByte(known, b.model, a, byte))  BY <2>4, LandsNowhere
  <2> QED  BY <2>3, <2>5 DEF Lands, SameRegisters
<1> QED  BY <1>2, <1>3, <1>4, <1>5, <1>6

\* Two bytes that land one after the other are a word.
LandsWord(b, c, known, a, word) ==
  Agrees(c, LandWord(known, b.model, a, word)) /\ SameRegisters(b, c) /\ c.model = b.model

\* A word that is written as two bytes lands as a word.
LEMMA TwoBytesLand ==
  ASSUME NEW b, NEW c, NEW d, NEW known, NEW a, NEW word, NEW k,
         Lands(b, c, known, a, word[1]), k = LandByte(known, b.model, a, word[1]),
         Lands(c, d, k, a + 1, word[2])
  PROVE  LandsWord(b, d, known, a, word)
BY DEF Lands, LandsWord, LandWord, SameRegisters

\* The page of the CIAs, address by address.
LEMMA PlaceOfPage ==
  ASSUME NEW model \in Model, NEW boardAt, boardAt \subseteq Bases, NEW a \in Nat, NEW p,
         Within(a, \hBFD000, \hBFF000)
  PROVE  /\ CiaRegister(a) \in 0 .. 15
         /\ IsPlace(model, boardAt, a, p) <=>
              \/ a % 2 = 1 /\ a >= \hBFE000 /\ p = <<"ciaA", CiaRegister(a)>>
              \/ a % 2 = 0 /\ a < \hBFE000 /\ p = <<"ciaB", CiaRegister(a)>>
<1>1. /\ model.fast \in Nat /\ model.fast <= \h800000 /\ model.slow \in Nat /\ model.slow <= \h80000
      /\ model.rom \in Nat /\ model.rom <= \h80000 /\ model.rom > 0
  BY Sizes, SMT
<1>2. \A base \in boardAt : base \in Nat /\ base >= \hE90000 /\ base <= \hEF0000
  BY BaseRange, SMT
<1>3. IsPlace(model, boardAt, a, p) <=>
        \/ \E r \in 0 .. 15 : a % 2 = 1 /\ a \div 256 = \hBFE0 + r /\ p = <<"ciaA", r>>
        \/ \E r \in 0 .. 15 : a % 2 = 0 /\ a \div 256 = \hBFD0 + r /\ p = <<"ciaB", r>>
  BY <1>1, <1>2, SMT DEF IsPlace, Within
<1>4. CiaRegister(a) \in 0 .. 15  BY SMT DEF CiaRegister
<1>5. CASE a >= \hBFE000
  <2>1. a \div 256 = \hBFE0 + CiaRegister(a)  BY <1>5, SMT DEF CiaRegister, Within
  <2>2. \A r \in 0 .. 15 : /\ a \div 256 = \hBFE0 + r <=> r = CiaRegister(a)
                           /\ a \div 256 # \hBFD0 + r
    BY <1>4, <2>1, SMT
  <2> HIDE DEF Within
  <2> QED  BY <1>3, <1>4, <1>5, <2>2, SMT
<1>6. CASE a < \hBFE000
  <2>1. a \div 256 = \hBFD0 + CiaRegister(a)  BY <1>6, SMT DEF CiaRegister, Within
  <2>2. \A r \in 0 .. 15 : /\ a \div 256 = \hBFD0 + r <=> r = CiaRegister(a)
                           /\ a \div 256 # \hBFE0 + r
    BY <1>4, <2>1, SMT
  <2> QED  BY <1>3, <1>4, <1>6, <2>2, SMT
<1> QED  BY <1>5, <1>6, SMT

\* A word written to the CIA page lands in the CIAs that its address selects.
LEMMA CiaWordLands ==
  ASSUME NEW b, NEW known, Agrees(b, known), NEW a \in Nat, NEW word, CellWord(a), InCia(a)
  PROVE  LandsWord(b, WriteCiaWord(b, a, word), known, a, word)
<1> DEFINE r == CiaRegister(a)
           w == Swapped(a, word)
           k == LandByte(known, b.model, a, word[1])
<1>1. b.model \in Model /\ known.boardAt \subseteq Bases  BY DEF Agrees, Placed
<1>2. a \div \h1000 \in {\hBFD, \hBFE} /\ r # ICR /\ a % 256 # 255  BY SMT DEF CellWord
<1>3. Within(a, \hBFD000, \hBFF000) /\ Within(a + 1, \hBFD000, \hBFF000)  BY <1>2, SMT DEF Within
<1>4. CiaRegister(a + 1) = r
  <2>1. (a + 1) \div 256 = a \div 256  BY <1>2, SMT
  <2> QED  BY <2>1 DEF CiaRegister
<1>5. r \in (0 .. 15) \ {ICR}  BY <1>2, SMT DEF CiaRegister
<1>6. k.boardAt = known.boardAt  BY <1>1, LandByteIs DEF Agrees
<1>7. a + 1 \in Nat  OBVIOUS
<1>8. (a % 2 = 0 /\ (a + 1) % 2 = 1) \/ (a % 2 = 1 /\ (a + 1) % 2 = 0)  BY SMT
<1>9. \A p : IsPlace(b.model, known.boardAt, a, p) <=>
              \/ a % 2 = 1 /\ a >= \hBFE000 /\ p = <<"ciaA", r>>
              \/ a % 2 = 0 /\ a < \hBFE000 /\ p = <<"ciaB", r>>
  BY <1>1, <1>3, PlaceOfPage, SMT
<1>10. \A p : IsPlace(b.model, known.boardAt, a + 1, p) <=>
              \/ (a + 1) % 2 = 1 /\ a + 1 >= \hBFE000 /\ p = <<"ciaA", r>>
              \/ (a + 1) % 2 = 0 /\ a + 1 < \hBFE000 /\ p = <<"ciaB", r>>
  BY <1>1, <1>3, <1>4, <1>7, PlaceOfPage, SMT
<1> HIDE DEF r, k
<1>11. CASE a \div \h1000 = \hBFD
  <2>1. a < \hBFE000 /\ a + 1 < \hBFE000  BY <1>2, <1>11, SMT
  <2>2. WriteCiaWord(b, a, word) = WriteCiaB(b, r, w[1])
    <3>1. ChipSelect(a) = 1  BY <1>11, SMT DEF ChipSelect
    <3>2. SelectsB(b.model, a) /\ ~SelectsA(b.model, a)  BY <3>1, SMT DEF SelectsA, SelectsB
    <3> QED  BY <3>2, SMT DEF WriteCiaWord, r
  <2>3. CASE a % 2 = 0
    <3> DEFINE c == WriteCiaB(b, r, word[1])
    <3>1. w[1] = word[1]  BY <2>3, SMT DEF Swapped
    <3>2. \A p : IsPlace(b.model, known.boardAt, a, p) <=> p = <<"ciaB", r>>
      BY <1>9, <2>1, <2>3, SMT
    <3>3. Lands(b, c, known, a, word[1])  BY <1>5, <3>2, CiaBLands
    <3> HIDE DEF c
    <3>4. \A p : ~IsPlace(b.model, known.boardAt, a + 1, p)  BY <1>8, <1>10, <2>1, <2>3, SMT
    <3>5. Agrees(c, k) /\ c.model = b.model  BY <3>3 DEF Lands, k
    <3>6. Lands(c, c, k, a + 1, word[2])
      BY <1>6, <1>7, <3>4, <3>5, LandsNowhere DEF Lands, SameRegisters
    <3> QED  BY <2>2, <3>1, <3>3, <3>6, TwoBytesLand, ZenonT(30) DEF c, k
  <2>4. CASE a % 2 = 1
    <3> DEFINE c == WriteCiaB(b, r, word[2])
    <3>1. w[1] = word[2]  BY <2>4, SMT DEF Swapped
    <3>2. \A p : ~IsPlace(b.model, known.boardAt, a, p)  BY <1>9, <2>1, <2>4, SMT
    <3>3. Lands(b, b, known, a, word[1])  BY <3>2, LandsNowhere DEF Lands, SameRegisters
    <3>4. \A p : IsPlace(b.model, k.boardAt, a + 1, p) <=> p = <<"ciaB", r>>
      BY <1>6, <1>8, <1>10, <2>1, <2>4, SMT
    <3>5. Agrees(b, k)  BY <3>3 DEF Lands, k
    <3>6. Lands(b, c, k, a + 1, word[2])  BY <1>5, <1>7, <3>4, <3>5, CiaBLands
    <3> HIDE DEF c
    <3> QED  BY <2>2, <3>1, <3>3, <3>6, TwoBytesLand, ZenonT(30) DEF c, k
  <2> QED  BY <1>8, <2>3, <2>4
<1>12. CASE a \div \h1000 = \hBFE
  <2>1. a >= \hBFE000 /\ a + 1 >= \hBFE000  BY <1>2, <1>12, SMT
  <2>2. WriteCiaWord(b, a, word) = WriteCiaA(b, r, w[2])
    <3>1. ChipSelect(a) = 2  BY <1>12, SMT DEF ChipSelect
    <3>2. SelectsA(b.model, a) /\ ~SelectsB(b.model, a)  BY <3>1, SMT DEF SelectsA, SelectsB
    <3> QED  BY <3>2, SMT DEF WriteCiaWord, r
  <2>3. CASE a % 2 = 1
    <3> DEFINE c == WriteCiaA(b, r, word[1])
    <3>1. w[2] = word[1]  BY <2>3, SMT DEF Swapped
    <3>2. \A p : IsPlace(b.model, known.boardAt, a, p) <=> p = <<"ciaA", r>>
      BY <1>9, <2>1, <2>3, SMT
    <3>3. Lands(b, c, known, a, word[1])  BY <1>5, <3>2, CiaALands
    <3> HIDE DEF c
    <3>4. \A p : ~IsPlace(b.model, known.boardAt, a + 1, p)  BY <1>8, <1>10, <2>1, <2>3, SMT
    <3>5. Agrees(c, k) /\ c.model = b.model  BY <3>3 DEF Lands, k
    <3>6. Lands(c, c, k, a + 1, word[2])
      BY <1>6, <1>7, <3>4, <3>5, LandsNowhere DEF Lands, SameRegisters
    <3> QED  BY <2>2, <3>1, <3>3, <3>6, TwoBytesLand, ZenonT(30) DEF c, k
  <2>4. CASE a % 2 = 0
    <3> DEFINE c == WriteCiaA(b, r, word[2])
    <3>1. w[2] = word[2]  BY <2>4, SMT DEF Swapped
    <3>2. \A p : ~IsPlace(b.model, known.boardAt, a, p)  BY <1>9, <2>1, <2>4, SMT
    <3>3. Lands(b, b, known, a, word[1])  BY <3>2, LandsNowhere DEF Lands, SameRegisters
    <3>4. \A p : IsPlace(b.model, k.boardAt, a + 1, p) <=> p = <<"ciaA", r>>
      BY <1>6, <1>8, <1>10, <2>1, <2>4, SMT
    <3>5. Agrees(b, k)  BY <3>3 DEF Lands, k
    <3>6. Lands(b, c, k, a + 1, word[2])  BY <1>5, <1>7, <3>4, <3>5, CiaALands
    <3> HIDE DEF c
    <3> QED  BY <2>2, <3>1, <3>3, <3>6, TwoBytesLand, ZenonT(30) DEF c, k
  <2> QED  BY <1>8, <2>3, <2>4
<1> QED  BY <1>2, <1>11, <1>12

\* What a word is written to, if it is neither the drive's nor a custom register's.
LEMMA WriteWordIs ==
  ASSUME NEW b, NEW a, NEW word, IdeRegister(a) # 0, ~Within(a, \hDFF000, \hE00000)
  PROVE  /\ InCia(a) => WriteWord(b, a, word) = WriteCiaWord(b, a, word)
         /\ ~InCia(a) /\ BoardTakes(b, a) => WriteWord(b, a, word) = BoardWriteWord(b, a, word)
         /\ ~InCia(a) /\ ~BoardTakes(b, a) =>
              WriteWord(b, a, word) = WriteByte(WriteByte(b, a, word[1]), a + 1, word[2])
<1>1. CASE InCia(a)  BY <1>1, SMT DEF WriteWord, InCia
<1>2. CASE ~InCia(a) /\ BoardTakes(b, a)  BY <1>2, SMT DEF WriteWord, InCia
<1>3. CASE ~InCia(a) /\ ~BoardTakes(b, a)  BY <1>3, SMT DEF WriteWord, InCia
<1> QED  BY <1>1, <1>2, <1>3

\* A word written lands where the table says, byte by byte, though the board takes it whole.
LEMMA WordLands ==
  ASSUME NEW b, NEW known, Agrees(b, known), NEW a \in Nat, NEW word, CellWord(a),
         ~Within(a, \hE80000, \hE90000), ~Within(a + 1, \hE80000, \hE90000)
  PROVE  LandsWord(b, WriteWord(b, a, word), known, a, word)
<1> DEFINE k == LandByte(known, b.model, a, word[1])
<1>1. b.model \in Model /\ known.boardAt \subseteq Bases /\ a + 1 \in Nat  BY DEF Agrees, Placed
<1>2. InCia(a) \/ (CellByte(a) /\ CellByte(a + 1) /\ \A base \in Bases : a # base + \hFFFF)
  BY SMT DEF CellWord
<1>3. IdeRegister(a) # 0 /\ ~Within(a, \hDFF000, \hE00000)
  BY <1>2, SMT DEF IdeRegister, Within, InCia, CellByte, Nowhere
<1>4. CASE InCia(a)
  <2>1. WriteWord(b, a, word) = WriteCiaWord(b, a, word)  BY <1>3, <1>4, WriteWordIs, SMT
  <2> QED  BY <1>4, <2>1, CiaWordLands, SMT
<1>5. CASE ~InCia(a) /\ BoardTakes(b, a)
  <2>1. ~InWindow(b.board, a)  BY BoardIs, SMT
  <2>2. PICK base \in known.boardAt : Within(a, base, base + \h10000)  BY <1>5, <2>1, BoardIs, SMT
  <2>3. BoardOffset(b.board, a) = a - base  BY <2>2, BoardIs, SMT
  <2>4. base \in Nat /\ base >= \hE90000 /\ base <= \hEF0000  BY <1>1, BaseRange, SMT
  <2>5. /\ a # base + \hFFFF
        /\ ~Within(a, base + \h4000, base + \h4004)
    BY <1>1, <1>2, <1>5, SMT DEF CellByte
  <2> DEFINE c == ToBoard(b, a, word[1])
  <2>6. c = WriteBoardByte(b, a - base, word[1])
    BY <1>5, <2>1, <2>3, SMT DEF ToBoard, BoardWriteByte
  <2>7. Region(b.model, a) = "free" /\ Region(b.model, a + 1) = "free"
    <3>1. Within(a, \hE80000, \h1000000) /\ Within(a + 1, \hE80000, \h1000000)
      BY <2>2, <2>4, SMT DEF Within
    <3> QED  BY <1>1, <3>1, RegionAreas, SMT
  <2>8. Lands(b, c, known, a, word[1])  BY <2>7, FreeLands, SMT
  <2> HIDE DEF c
  <2>9. Agrees(c, k) /\ c.model = b.model /\ k.boardAt = known.boardAt
    BY <1>1, <2>8, LandByteIs DEF Agrees, Lands
  <2> HIDE DEF k
  <2>10. Lands(c, ToBoard(c, a + 1, word[2]), k, a + 1, word[2])
    BY <1>1, <2>7, <2>9, FreeLands, SMT
  <2>11. Within(a + 1, base, base + \h10000) /\ (a + 1) - base = (a - base) + 1
    BY <2>2, <2>4, <2>5, SMT DEF Within
  <2>12. /\ ~InWindow(c.board, a + 1) /\ BoardTakes(c, a + 1)
         /\ BoardOffset(c.board, a + 1) = (a - base) + 1
    <3>1. base \in k.boardAt  BY <2>2, <2>9
    <3>2. ~InWindow(c.board, a + 1)  BY <1>1, <2>9, BoardIs, SMT
    <3>3. BoardTakes(c, a + 1)  BY <1>1, <2>9, <2>11, <3>1, BoardIs, SMT
    <3>4. BoardOffset(c.board, a + 1) = (a + 1) - base  BY <1>1, <2>9, <2>11, <3>1, BoardIs, SMT
    <3> QED  BY <2>11, <3>2, <3>3, <3>4, SMT
  <2>13. ToBoard(c, a + 1, word[2]) = WriteBoardByte(c, (a - base) + 1, word[2])
    BY <2>12, SMT DEF ToBoard, BoardWriteByte
  <2>14. a - base # \h4000 /\ a - base # \h4002
    BY <2>4, <2>5, SMT DEF Within
  <2>15. BoardWriteWord(b, a, word)
           = WriteBoardByte(WriteBoardByte(b, a - base, word[1]), (a - base) + 1, word[2])
    BY <2>1, <2>3, <2>14, SMT DEF BoardWriteWord
  <2>16. WriteWord(b, a, word) = ToBoard(c, a + 1, word[2])
    <3>1. WriteWord(b, a, word) = BoardWriteWord(b, a, word)  BY <1>3, <1>5, WriteWordIs, SMT
    <3> QED  BY <2>6, <2>13, <2>15, <3>1
  <2>17. k = LandByte(known, b.model, a, word[1])  BY DEF k
  <2>18. LandsWord(b, ToBoard(c, a + 1, word[2]), known, a, word)
    <3> DEFINE d == ToBoard(c, a + 1, word[2])
    <3>1. Lands(c, d, k, a + 1, word[2])  BY <2>10, SMT
    <3> HIDE DEF d
    <3>2. LandsWord(b, d, known, a, word)
      BY <2>8, <2>17, <3>1, SMT DEF Lands, LandsWord, LandWord, SameRegisters
    <3> QED  BY <3>2, SMT DEF d
  <2> QED  BY <2>16, <2>18, SMT
<1>6. CASE ~InCia(a) /\ ~BoardTakes(b, a)
  <2> DEFINE c == WriteByte(b, a, word[1])
  <2>1. Lands(b, c, known, a, word[1])  BY <1>2, <1>6, ByteLands, SMT
  <2> HIDE DEF c
  <2>2. Agrees(c, k)  BY <2>1 DEF Lands
  <2> HIDE DEF k
  <2>3. Lands(c, WriteByte(c, a + 1, word[2]), k, a + 1, word[2])
    BY <1>1, <1>2, <1>6, <2>2, ByteLands, SMT
  <2>4. WriteWord(b, a, word) = WriteByte(c, a + 1, word[2])
    BY <1>3, <1>6, WriteWordIs, SMT DEF c
  <2>5. k = LandByte(known, b.model, a, word[1])  BY DEF k
  <2>6. LandsWord(b, WriteByte(c, a + 1, word[2]), known, a, word)
    <3> DEFINE d == WriteByte(c, a + 1, word[2])
    <3>1. Lands(c, d, k, a + 1, word[2])  BY <2>3
    <3> HIDE DEF d
    <3>2. LandsWord(b, d, known, a, word)  BY <2>1, <2>5, <3>1, SMT DEF Lands, LandsWord, LandWord, SameRegisters
    <3> QED  BY <3>2 DEF d
  <2> QED  BY <2>4, <2>6
<1> QED  BY <1>4, <1>5, <1>6

\* An access of any width.
LEMMA AccessLands ==
  ASSUME NEW b, NEW known, Agrees(b, known), NEW a \in Nat, NEW value,
         Len(value) \in {1, 2, 4}, Storable(a, Len(value))
  PROVE  LET c == Write(b, a, value)
         IN  /\ Agrees(c, Landed(known, b.model, a, value))
             /\ SameRegisters(b, c) /\ c.model = b.model
<1>1. CASE Len(value) = 1
  <2>1. CellByte(a)  BY <1>1 DEF Storable, Cells
  <2>2. ~Within(a, \hE80000, \hE90000)
    <3>1. 0 \in 0 .. Len(value) - 1 /\ a + 0 = a  BY <1>1
    <3> QED  BY <3>1, SMT DEF Storable
  <2>3. Lands(b, WriteByte(b, a, value[1]), known, a, value[1])  BY <2>1, <2>2, ByteLands, SMT
  <2>4. /\ Write(b, a, value) = WriteByte(b, a, value[1])
        /\ Landed(known, b.model, a, value) = LandByte(known, b.model, a, value[1])
    BY <1>1 DEF Write, Landed
  <2> QED  BY <2>3, <2>4 DEF Lands
<1>2. CASE Len(value) = 2
  <2>1. CellWord(a)  BY <1>2 DEF Storable, Cells
  <2>2. ~Within(a, \hE80000, \hE90000) /\ ~Within(a + 1, \hE80000, \hE90000)
    <3>1. 0 \in 0 .. Len(value) - 1 /\ a + 0 = a /\ 1 \in 0 .. Len(value) - 1  BY <1>2
    <3> QED  BY <3>1, SMT DEF Storable
  <2>3. LandsWord(b, WriteWord(b, a, value), known, a, value)  BY <2>1, <2>2, WordLands, SMT
  <2>4. /\ Write(b, a, value) = WriteWord(b, a, value)
        /\ Landed(known, b.model, a, value) = LandWord(known, b.model, a, value)
    BY <1>2 DEF Write, Landed
  <2> QED  BY <2>3, <2>4 DEF LandsWord
<1>3. CASE Len(value) = 4
  <2> DEFINE high == <<value[1], value[2]>>
             low == <<value[3], value[4]>>
             c == WriteWord(b, a, high)
             k == LandWord(known, b.model, a, high)
  <2>1. CellWord(a) /\ CellWord(a + 2)  BY <1>3 DEF Storable, Cells
  <2>2. /\ ~Within(a, \hE80000, \hE90000) /\ ~Within(a + 1, \hE80000, \hE90000)
        /\ ~Within(a + 2, \hE80000, \hE90000) /\ ~Within((a + 2) + 1, \hE80000, \hE90000)
    <3>1. /\ 0 \in 0 .. Len(value) - 1 /\ a + 0 = a /\ 1 \in 0 .. Len(value) - 1
          /\ 2 \in 0 .. Len(value) - 1 /\ 3 \in 0 .. Len(value) - 1 /\ (a + 2) + 1 = a + 3
      BY <1>3
    <3> QED  BY <3>1, SMT DEF Storable
  <2>3. /\ Write(b, a, value) = WriteWord(c, a + 2, low)
        /\ Landed(known, b.model, a, value) = LandWord(k, b.model, a + 2, low)
    BY <1>3 DEF Write, Landed
  <2> HIDE DEF high, low
  <2>4. LandsWord(b, c, known, a, high)  BY <2>1, <2>2, WordLands, SMT
  <2> HIDE DEF c
  <2>5. Agrees(c, k) /\ SameRegisters(b, c) /\ c.model = b.model  BY <2>4 DEF LandsWord
  <2> HIDE DEF k
  <2>6. a + 2 \in Nat  OBVIOUS
  <2>7. LandsWord(c, WriteWord(c, a + 2, low), k, a + 2, low)
    BY <2>1, <2>2, <2>5, <2>6, WordLands, SMT
  <2> QED  BY <2>3, <2>5, <2>7 DEF LandsWord, SameRegisters
<1> QED  BY <1>1, <1>2, <1>3
-----------------------------------------------------------------------------
(* The board is placed *)

\* All of the memory but the board.
Elsewhere(b, c) ==
  /\ IsBus(c) /\ c.model = b.model /\ c.ram = b.ram /\ c.overlay = b.overlay
  /\ \A r \in (0 .. 15) \ {ICR} : c.ciaA[r] = b.ciaA[r] /\ c.ciaB[r] = b.ciaB[r]

LEMMA SameIsElsewhere ==
  ASSUME NEW b, NEW c, NEW d
  PROVE  /\ SameMemory(b, c) => Elsewhere(b, c) /\ c.board = b.board
         /\ Elsewhere(b, c) /\ Elsewhere(c, d) => Elsewhere(b, d)
BY DEF SameMemory, Elsewhere

\* A board that waits takes the bytes of its window.
WithBoard(b, board) == [b EXCEPT !.board = board]

\* Replacing the board leaves memory, log and shadows as they were.
LEMMA WithBoardIs ==
  ASSUME NEW b, IsBus(b), NEW board, IsBoard(board)
  PROVE  LET c == WithBoard(b, board)
         IN  Elsewhere(b, c) /\ SameRegisters(b, c) /\ c.board = board
BY DEF WithBoard, Elsewhere, SameRegisters, IsBus, BusField

\* A byte or a word written to the window of autoconfig reaches the board.
LEMMA WindowByte ==
  ASSUME NEW b, b.model \in Model, AutoconfigActive(b.board), NEW byte,
         NEW offset \in {\h48, \h4A, \h4C}
  PROVE  WriteByte(b, \hE80000 + offset, byte)
           = WithBoard(b, WriteAutoconfigByte(b.board, offset, byte))
<1> DEFINE a == \hE80000 + offset
<1>1. a \in Nat /\ Within(a, \hE80000, \h1000000) /\ Within(a, \hE80000, \hE90000) /\ a - \hE80000 = offset
  BY SMT DEF Within
<1> HIDE DEF a
<1>2. Region(b.model, a) = "free"  BY <1>1, RegionAreas, SMT
<1>3. InWindow(b.board, a)  BY <1>1, SMT DEF InWindow
<1>4. WriteByte(b, a, byte) = ToBoard(b, a, byte)  BY <1>2, WriteFreeIs, SMT
<1>5. ToBoard(b, a, byte) = WithBoard(b, WriteAutoconfigByte(b.board, offset, byte))
  BY <1>1, <1>3, SMT DEF ToBoard, BoardTakes, BoardWriteByte, WithBoard
<1> QED  BY <1>4, <1>5, SMT DEF a

LEMMA WindowWord ==
  ASSUME NEW b, b.model \in Model, AutoconfigActive(b.board), NEW word
  PROVE  WriteWord(b, \hE80048, word) = WithBoard(b, WriteAutoconfigWord(b.board, \h48, word))
<1> DEFINE a == \hE80048
<1>1. /\ Within(a, \hE80000, \hE90000) /\ a - \hE80000 = \h48 /\ ~InCia(a)
      /\ ~Within(a, \hDFF000, \hE00000) /\ IdeRegister(a) # 0
  BY SMT DEF Within, InCia, IdeRegister, Nowhere
<1> HIDE DEF a
<1>2. InWindow(b.board, a)  BY <1>1, SMT DEF InWindow
<1>3. BoardTakes(b, a)  BY <1>2 DEF BoardTakes
<1>4. WriteWord(b, a, word) = BoardWriteWord(b, a, word)  BY <1>1, <1>3, WriteWordIs, SMT
<1>5. BoardWriteWord(b, a, word) = WithBoard(b, WriteAutoconfigWord(b.board, \h48, word))
  <2>1. BoardWriteWord(b, a, word) = [b EXCEPT !.board = WriteAutoconfigWord(@, a - \hE80000, word)]
    <3>1. BoardOffset(b.board, a) = Nowhere  BY SMT DEF BoardOffset, AutoconfigActive
    <3>2. Nowhere # \h4000 /\ Nowhere # \h4002  BY SMT DEF Nowhere
    <3> QED  BY <1>2, <3>1, <3>2, SMT DEF BoardWriteWord
  <2> QED  BY <1>1, <2>1, SMT DEF WithBoard
<1> QED  BY <1>4, <1>5, SMT DEF a

\* What the registers of the window do to the board.
LEMMA MapLow ==
  ASSUME NEW board, IsBoard(board), NEW byte, NEW low, low = WriteAutoconfigByte(board, \h4A, byte)
  PROVE  /\ IsBoard(low) /\ low.mapLo = byte /\ low.enabled = board.enabled
         /\ low.configured = board.configured /\ low.shutUp = board.shutUp
<1>1. \h4A % 256 = \h4A /\ \h48 # \h4A /\ \h4C # \h4A  BY SMT
<1>2. low = [board EXCEPT !.mapLo = byte]  BY <1>1, SMT DEF WriteAutoconfigByte
<1> QED  BY <1>2, SMT DEF IsBoard, BoardField

ConfiguredAt(board, c, at) ==
  IsBoard(c) /\ c.enabled = board.enabled /\ c.configured /\ c.base = at

\* Configuring the board: its base is made of the two nibbles it was given.
LEMMA ConfiguredIs ==
  ASSUME NEW board, IsBoard(board), NEW c, c = Configured(board)
  PROVE  /\ IsBoard(c) /\ c.enabled = board.enabled /\ c.configured
         /\ c.base = BitOr(board.mapHi, board.mapLo \div 16) * \h10000
<1> DEFINE at == BitOr(board.mapHi, board.mapLo \div 16) * \h10000
<1>1. c = [board EXCEPT !.base = at, !.configured = TRUE, !.shutUp = FALSE]  BY DEF Configured
<1> HIDE DEF at
<1>2. IsBoard(c) /\ c.enabled = board.enabled /\ c.configured /\ c.base = at
  BY <1>1, ZenonT(30) DEF IsBoard, BoardField
<1> QED  BY <1>2 DEF at

\* The high byte of the base, by byte or by word, configures the board.
LEMMA MapHigh ==
  ASSUME NEW board, IsBoard(board), NEW byte, NEW high,
         high = WriteAutoconfigByte(board, \h48, byte)
  PROVE  /\ IsBoard(high) /\ high.enabled = board.enabled /\ high.configured
         /\ high.base = BitOr(byte, board.mapLo \div 16) * \h10000
<1> DEFINE d == [board EXCEPT !.mapHi = byte]
<1>1. \h48 % 256 = \h48 /\ \h48 # \h4A /\ \h48 # \h4C  BY SMT
<1>2. high = Configured(d)  BY <1>1, SMT DEF WriteAutoconfigByte
<1>3. IsBoard(d) /\ d.mapHi = byte /\ d.mapLo = board.mapLo /\ d.enabled = board.enabled
  BY SMT DEF IsBoard, BoardField
<1> HIDE DEF d
<1>4. /\ IsBoard(high) /\ high.enabled = d.enabled /\ high.configured
      /\ high.base = BitOr(d.mapHi, d.mapLo \div 16) * \h10000
  BY <1>2, <1>3, ConfiguredIs, SMT
<1> QED  BY <1>3, <1>4, SMT

LEMMA MapWord ==
  ASSUME NEW board, IsBoard(board), NEW word, NEW both,
         both = WriteAutoconfigWord(board, \h48, word)
  PROVE  ConfiguredAt(board, both, BitOr(word[1], 0 \div 16) * \h10000)
<1> DEFINE hi == word[1]
           d == [board EXCEPT !.mapHi = hi, !.mapLo = 0]
<1>1. \h48 % 256 = \h48 /\ \h48 # \h4C  BY SMT
<1>2. both = Configured(d)  BY <1>1, SMT DEF WriteAutoconfigWord
<1> HIDE DEF hi
<1>3. IsBoard(d) /\ d.mapHi = hi /\ d.mapLo = 0 /\ d.enabled = board.enabled
  BY ZenonT(30) DEF IsBoard, BoardField
<1> HIDE DEF d
<1>4. /\ IsBoard(both) /\ both.enabled = d.enabled /\ both.configured
      /\ both.base = BitOr(d.mapHi, d.mapLo \div 16) * \h10000
  BY <1>2, <1>3, ConfiguredIs, SMT
<1> QED  BY <1>3, <1>4, SMT DEF hi, ConfiguredAt

\* A board that is shut up is not configured.
LEMMA ShutUpIs ==
  ASSUME NEW board, IsBoard(board), NEW c, c = ShutUp(board)
  PROVE  IsBoard(c) /\ c.shutUp /\ ~c.configured
BY ZenonT(30) DEF ShutUp, IsBoard, BoardField

LEMMA MapSilent ==
  ASSUME NEW board, IsBoard(board), NEW byte, NEW quiet,
         quiet = WriteAutoconfigByte(board, \h4C, byte)
  PROVE  IsBoard(quiet) /\ quiet.shutUp /\ ~quiet.configured
<1>1. \h4C % 256 = \h4C /\ \h4C # \h4A /\ \h48 # \h4C  BY SMT
<1>2. quiet = ShutUp(board)  BY <1>1, SMT DEF WriteAutoconfigByte
<1> QED  BY <1>2, ShutUpIs, SMT

\* The board's address from its page, written as one byte or as two nibbles.
LEMMA PageOfBase ==
  ASSUME NEW base \in Bases, NEW page, page = base \div \h10000
  PROVE  /\ BitOr(page, 0 \div 16) * \h10000 = base
         /\ BitOr(16 * (page \div 16), (16 * (page % 16)) \div 16) * \h10000 = base
<1>1. PICK n \in \hE9 .. \hEF : base = \h10000 * n  BY BasesAre, SMT
<1>2. page = n /\ page \in 0 .. 255  BY <1>1, SMT
<1>3. 0 \div 16 = 0  BY SMT
<1>4. BitOr(page, 0) = page  BY <1>2, OrNothing, SMT
<1>5. page \div 16 \in 0 .. 15 /\ page % 16 \in 0 .. 15  BY <1>1, <1>2, SMT
<1>6. page = 16 * (page \div 16) + (page % 16)  BY <1>2, SMT
<1>7. (16 * (page % 16)) \div 16 = page % 16  BY <1>5, SMT
<1>8. BitOr(16 * (page \div 16), page % 16) = page
  <2> DEFINE h == page \div 16
             l == page % 16
  <2> HIDE DEF h, l
  <2>1. h \in 0 .. 15 /\ l \in 0 .. 15  BY <1>5 DEF h, l
  <2>2. BitOr(16 * h, l) = 16 * h + l  BY <2>1, Nibbles, SMT
  <2> QED  BY <1>6, <2>2, SMT DEF h, l
<1>9. page * \h10000 = base  BY <1>1, <1>2, SMT
<1> QED  BY <1>3, <1>4, <1>7, <1>8, <1>9, SMT

\* The table after the board is placed, or told to keep quiet.
WithBase(known, base) == [known EXCEPT !.unplaced = FALSE, !.boardAt = {base}]

PlacedAt(b, c, base) ==
  /\ Elsewhere(b, c) /\ c.board.enabled = b.board.enabled
  /\ c.board.configured /\ c.board.base = base

\* A board placed at a base keeps bus and history in agreement; so does a silenced one.
LEMMA BoardPlaced ==
  ASSUME NEW b, NEW c, NEW known, Agrees(b, known), known.unplaced,
         NEW base \in Bases, PlacedAt(b, c, base)
  PROVE  Agrees(c, WithBase(known, base))
<1> DEFINE k == [known EXCEPT !.unplaced = FALSE, !.boardAt = {base}]
<1>1. /\ IsKnown(k) /\ k.cells = known.cells /\ k.overlay = known.overlay
      /\ k.unplaced = FALSE /\ k.boardAt = {base}
  BY ZenonT(30) DEF Agrees, IsKnown, KnownField
<1> HIDE DEF k
<1>2. \A p : Kept(k, p) = Kept(known, p) /\ Stored(c, p) = Stored(b, p)
  BY <1>1 DEF Kept, Stored, PlacedAt, Elsewhere
<1>3. Holds(c, k)  BY <1>2 DEF Holds, Agrees, PlacedAt, Elsewhere
<1>4. b.board.enabled  BY DEF Agrees, Placed, AutoconfigActive
<1>5. Placed(c, k)  BY <1>1, <1>4 DEF Placed, PlacedAt, AutoconfigActive
<1> QED  BY <1>1, <1>3, <1>5 DEF Agrees, PlacedAt, Elsewhere, WithBase, k

LEMMA BoardSilent ==
  ASSUME NEW b, NEW c, NEW known, Agrees(b, known), known.unplaced, Elsewhere(b, c),
         ~c.board.configured, c.board.shutUp
  PROVE  Agrees(c, [known EXCEPT !.unplaced = FALSE])
<1> DEFINE k == [known EXCEPT !.unplaced = FALSE]
<1>1. /\ IsKnown(k) /\ k.cells = known.cells /\ k.overlay = known.overlay
      /\ k.unplaced = FALSE /\ k.boardAt = known.boardAt
  BY ZenonT(30) DEF Agrees, IsKnown, KnownField
<1> HIDE DEF k
<1>2. \A p : Kept(k, p) = Kept(known, p) /\ Stored(c, p) = Stored(b, p)
  BY <1>1 DEF Kept, Stored, Elsewhere
<1>3. Holds(c, k)  BY <1>2 DEF Holds, Agrees, Elsewhere
<1>4. known.boardAt = {}  BY DEF Agrees, Placed, AutoconfigActive
<1>5. Placed(c, k)  BY <1>1, <1>4 DEF Placed, AutoconfigActive
<1> QED  BY <1>1, <1>3, <1>5 DEF Agrees, Elsewhere, k
-----------------------------------------------------------------------------
(* The guest's instructions *)

Ready(m) == IsMachine(m) /\ Ranged(m) /\ m.bus.log = <<>>

\* What an instruction that writes no custom register leaves as it was.
Quiet(m, c) ==
  /\ Ready(c) /\ Shown(c) /\ c.dmacon = m.dmacon
  /\ \A q : q \notin {INTREQR, INTENAR} => Shadow(c.bus, q) = Shadow(m.bus, q)

\* An access that changes no register and logs nothing leaves the machine quiet.
LEMMA QuietExecuted ==
  ASSUME NEW m, Ready(m), NEW access, NEW b, b = Access(Started(m).bus, access), IsBus(b),
         SameRegisters(Started(m).bus, b)
  PROVE  LET c == Executed(m, access)
         IN  SameMemory(b, c.bus) /\ Quiet(m, c)
<1> DEFINE s == Started(m)
           c == Run(s, access)
<1>1. /\ IsMachine(s) /\ SameMemory(m.bus, s.bus) /\ s.bus.log = m.bus.log
      /\ Ranged(s) /\ Shown(s) /\ s.dmacon = m.dmacon
      /\ \A q : q \notin {INTREQR, INTENAR} => Shadow(s.bus, q) = Shadow(m.bus, q)
  BY StartedFacts DEF Ready
<1>2. Executed(m, access) = c  BY DEF Executed, Started
<1> HIDE DEF s
<1>3. b.log = <<>> /\ \A q : Shadow(b, q) = Shadow(s.bus, q)
  BY <1>1 DEF SameRegisters, Shadow, Ready, s
<1>4. /\ IsMachine(c) /\ SameMemory(b, c.bus) /\ c.bus.log = <<>>
      /\ \A q : Shadow(c.bus, q) = Shadow(b, q)
      /\ c.dmacon = s.dmacon /\ c.intena = s.intena /\ c.intreq = s.intreq
  BY <1>1, <1>3, QuietRun DEF s
<1> HIDE DEF c
<1>5. Ranged(c) /\ Shown(c)  BY <1>1, <1>3, <1>4 DEF Ranged, Shown
<1> QED  BY <1>1, <1>2, <1>3, <1>4, <1>5 DEF Quiet, Ready

\* A store of the program.
LEMMA StoreRuns ==
  ASSUME NEW m, Ready(m), NEW known, Agrees(m.bus, known), NEW access, access.at \in Nat,
         Len(access.value) \in {1, 2, 4}, Storable(access.at, Len(access.value))
  PROVE  LET c == Executed(m, access)
         IN  /\ Quiet(m, c) /\ c.bus.model = m.bus.model
             /\ Agrees(c.bus, Landed(known, m.bus.model, access.at, access.value))
<1> DEFINE s == Started(m)
           b == Write(s.bus, access.at, access.value)
<1>1. SameMemory(m.bus, s.bus)  BY StartedFacts DEF Ready
<1>2. Agrees(s.bus, known) /\ s.bus.model = m.bus.model  BY <1>1, AgreesSame DEF SameMemory
<1>3. Access(s.bus, access) = b
  <2>1. access.value # <<>>
    <3> SUFFICES ASSUME access.value = <<>>  PROVE FALSE
      OBVIOUS
    <3>1. Len(<<>>) = 0  OBVIOUS
    <3>2. Len(access.value) = 0  BY <3>1
    <3> QED  BY <3>2
  <2> QED  BY <2>1 DEF Access
<1> HIDE DEF s
<1>4. /\ Agrees(b, Landed(known, s.bus.model, access.at, access.value))
      /\ SameRegisters(s.bus, b) /\ b.model = s.bus.model
  BY <1>2, AccessLands
<1> HIDE DEF b
<1>5. IsBus(b)  BY <1>4 DEF Agrees
<1>6. SameMemory(b, Executed(m, access).bus) /\ Quiet(m, Executed(m, access))
  BY <1>3, <1>4, <1>5, QuietExecuted DEF s
<1>7. Agrees(Executed(m, access).bus, Landed(known, s.bus.model, access.at, access.value))
  BY <1>4, <1>6, AgreesSame
<1> QED  BY <1>2, <1>4, <1>6, <1>7 DEF SameMemory

\* An instruction that changes neither the memory nor the custom registers.
LEMMA NothingRuns ==
  ASSUME NEW m, Ready(m), NEW known, Agrees(m.bus, known), NEW access,
         Same(Started(m).bus, Access(Started(m).bus, access))
  PROVE  LET c == Executed(m, access)
         IN  Quiet(m, c) /\ c.bus.model = m.bus.model /\ Agrees(c.bus, known)
<1> DEFINE s == Started(m)
           b == Access(s.bus, access)
           c == Executed(m, access)
<1>1. SameMemory(m.bus, s.bus)  BY StartedFacts DEF Ready
<1>2. IsBus(b) /\ SameMemory(s.bus, b) /\ SameRegisters(s.bus, b)  BY DEF Same, SameMemory
<1>3. SameMemory(b, c.bus) /\ Quiet(m, c)  BY <1>2, QuietExecuted
<1> HIDE DEF s, b, c
<1>4. SameMemory(m.bus, c.bus)  BY <1>1, <1>2, <1>3, SameIsTransitive
<1> QED  BY <1>3, <1>4, AgreesSame DEF SameMemory, c

\* A read executed by the loop leaves bus and history in agreement.
LEMMA ReadRuns ==
  ASSUME NEW m, Ready(m), NEW known, Agrees(m.bus, known), NEW at \in Nat
  PROVE  LET c == Executed(m, [at |-> at, width |-> 1, value |-> <<>>])
         IN  Quiet(m, c) /\ c.bus.model = m.bus.model /\ Agrees(c.bus, known)
<1> DEFINE access == [at |-> at, width |-> 1, value |-> <<>>]
           s == Started(m)
<1>1. IsMachine(s) /\ SameMemory(m.bus, s.bus)  BY StartedFacts DEF Ready
<1>2. IsBus(s.bus) /\ s.bus.model \in Model  BY <1>1 DEF IsMachine, SameMemory, Agrees
<1>3. Access(s.bus, access) = Read(s.bus, at, 1).bus  BY DEF Access
<1> HIDE DEF s, access
<1>4. Same(s.bus, Read(s.bus, at, 1).bus)  BY <1>2, ReadKeeps
<1>5. Same(s.bus, Access(s.bus, access))  BY <1>3, <1>4
<1>6. Quiet(m, Executed(m, access)) /\ Executed(m, access).bus.model = m.bus.model
      /\ Agrees(Executed(m, access).bus, known)
  BY <1>5, NothingRuns DEF s
<1> QED  BY <1>6 DEF access

\* A write to Gayle or to the drive.
LEMMA WriteGayleKeeps ==
  ASSUME NEW b, IsBus(b), NEW a, NEW byte
  PROVE  Same(b, WriteGayle(b, a, byte)) /\ Same(b, [b EXCEPT !.gayle.id = 0])
<1>1. Same(b, b)  BY SameIsReflexive
<1>2. \A x : Same(b, [b EXCEPT !.gayle = x]) /\ Same(b, [b EXCEPT !.ide = x])
  BY DEF IsBus, BusField, Same, SameMemory, SameRegisters
<1> DEFINE Gayle(g) == [b EXCEPT !.gayle = g]
           Ide(i) == [b EXCEPT !.ide = i]
<1>3. [b EXCEPT !.gayle.id = 0] = Gayle([b.gayle EXCEPT !.id = 0])  BY DEF IsBus, BusField
<1>4. ASSUME NEW r  PROVE Same(b, WriteIde(b, r, byte))
  <2>1. r \in 0 .. 6 => WriteIde(b, r, byte) = Ide([b.ide EXCEPT !.reg[r] = byte])
    BY DEF WriteIde, IsBus, BusField
  <2>2. r = \h406 => WriteIde(b, r, byte) = Ide([b.ide EXCEPT !.nIen = (byte \div 2) % 2 = 1])
    BY SMT DEF WriteIde, IsBus, BusField
  <2>3. r \notin 0 .. 6 /\ r # \h406 => WriteIde(b, r, byte) = b
    BY SMT DEF WriteIde
  <2>4. \A x : Same(b, Ide(x))  BY <1>2, ZenonT(30)
  <2> HIDE DEF Ide
  <2>5. CASE r \in 0 .. 6  BY <2>1, <2>4, <2>5
  <2>6. CASE r \notin 0 .. 6 /\ r = \h406  BY <2>2, <2>4, <2>6, SMT
  <2>7. CASE r \notin 0 .. 6 /\ r # \h406  BY <1>1, <2>3, <2>7, SMT
  <2> QED  BY <2>5, <2>6, <2>7, SMT
<1>5. \/ WriteGayle(b, a, byte) = Gayle([b.gayle EXCEPT !.status = byte])
      \/ WriteGayle(b, a, byte)
           = Gayle([b.gayle EXCEPT !.irq = BitOr(BitAnd(@, byte), byte % 4)])
      \/ WriteGayle(b, a, byte) = Gayle([b.gayle EXCEPT !.intena = byte])
      \/ WriteGayle(b, a, byte) = Gayle([b.gayle EXCEPT !.config = byte])
      \/ WriteGayle(b, a, byte) = WriteIde(b, IdeRegister(a), byte)
      \/ WriteGayle(b, a, byte) = b
  BY SMT DEF WriteGayle, IsBus, BusField
<1>6. \A x : Same(b, Gayle(x))  BY <1>2, ZenonT(30)
<1> HIDE DEF Gayle
<1>7. Same(b, WriteGayle(b, a, byte))  BY <1>1, <1>4, <1>5, <1>6
<1> QED  BY <1>3, <1>6, <1>7

\* A write to Gayle changes no memory and no shadow, executed by the loop or alone.
LEMMA GayleByteKeeps ==
  ASSUME NEW b, IsBus(b), NEW a, NEW byte,
         Region(b.model, a) = "gayle" \/ Region(b.model, a) = "gayleId"
  PROVE  Same(b, WriteByte(b, a, byte))
<1>1. CASE Region(b.model, a) = "gayle"
  <2>1. WriteByte(b, a, byte) = WriteGayle(b, a, byte)  BY <1>1, WriteGayleIs
  <2>2. Same(b, WriteGayle(b, a, byte))  BY WriteGayleKeeps, ZenonT(30)
  <2> QED  BY <2>1, <2>2
<1>2. CASE Region(b.model, a) = "gayleId"
  <2>1. WriteByte(b, a, byte) = [b EXCEPT !.gayle.id = 0]  BY <1>2, WriteGayleIdIs
  <2>2. Same(b, [b EXCEPT !.gayle.id = 0])  BY WriteGayleKeeps
  <2> QED  BY <2>1, <2>2
<1> QED  BY <1>1, <1>2

LEMMA GayleRuns ==
  ASSUME NEW m, Ready(m), NEW known, Agrees(m.bus, known), NEW at \in Nat,
         Within(at, \hD80000, \hDF0000), NEW byte
  PROVE  LET c == Executed(m, Store1(at, byte))
         IN  Quiet(m, c) /\ c.bus.model = m.bus.model /\ Agrees(c.bus, known)
<1> DEFINE access == Store1(at, byte)
           s == Started(m)
<1>1. IsMachine(s) /\ SameMemory(m.bus, s.bus)  BY StartedFacts DEF Ready
<1>2. IsBus(s.bus)  BY <1>1 DEF IsMachine
<1>3. Access(s.bus, access) = WriteByte(s.bus, at, byte)
  BY SMT DEF Access, Write, Store1
<1> HIDE DEF s, access
<1>4. Same(s.bus, WriteByte(s.bus, at, byte))
  <2>1. Region(s.bus.model, at) = "gayle" \/ Region(s.bus.model, at) = "gayleId"  BY Regions, SMT
  <2> QED  BY <1>2, <2>1, GayleByteKeeps, SMT
<1>5. Same(s.bus, Access(s.bus, access))  BY <1>3, <1>4, SMT
<1>6. Quiet(m, Executed(m, access)) /\ Executed(m, access).bus.model = m.bus.model
      /\ Agrees(Executed(m, access).bus, known)
  BY <1>5, NothingRuns, SMT DEF s
<1> QED  BY <1>6, SMT DEF access

\* A write to the window of the board that waits.
LEMMA WindowRuns ==
  ASSUME NEW m, Ready(m), NEW board, IsBoard(board), NEW access,
         Access(Started(m).bus, access) = WithBoard(Started(m).bus, board)
  PROVE  LET c == Executed(m, access)
         IN  Quiet(m, c) /\ Elsewhere(m.bus, c.bus) /\ c.bus.board = board
<1> DEFINE s == Started(m)
           b == WithBoard(s.bus, board)
           c == Executed(m, access)
<1>1. IsMachine(s) /\ SameMemory(m.bus, s.bus)  BY StartedFacts DEF Ready
<1>2. IsBus(s.bus)  BY <1>1 DEF IsMachine
<1> HIDE DEF s
<1>3. Elsewhere(s.bus, b) /\ SameRegisters(s.bus, b) /\ b.board = board  BY <1>2, WithBoardIs
<1>4. b = Access(s.bus, access)  BY DEF s
<1> HIDE DEF b
<1>5. IsBus(b)  BY <1>3 DEF Elsewhere
<1>6. SameMemory(b, c.bus) /\ Quiet(m, c)  BY <1>3, <1>4, <1>5, QuietExecuted DEF s
<1> HIDE DEF c
<1>7. Elsewhere(m.bus, s.bus) /\ Elsewhere(b, c.bus) /\ c.bus.board = b.board
  BY <1>1, <1>6, SameIsElsewhere
<1>8. Elsewhere(m.bus, c.bus)  BY <1>3, <1>7, SameIsElsewhere
<1> QED  BY <1>3, <1>6, <1>7, <1>8 DEF c

\* A write to the window of autoconfig, executed by the loop.
LEMMA WindowByteRuns ==
  ASSUME NEW m, Ready(m), m.bus.model \in Model, AutoconfigActive(m.bus.board), NEW byte,
         NEW offset \in {\h48, \h4A, \h4C}, IsBoard(WriteAutoconfigByte(m.bus.board, offset, byte))
  PROVE  LET c == Executed(m, Store1(\hE80000 + offset, byte))
         IN  /\ Quiet(m, c) /\ Elsewhere(m.bus, c.bus)
             /\ c.bus.board = WriteAutoconfigByte(m.bus.board, offset, byte)
<1> DEFINE s == Started(m)
           board == WriteAutoconfigByte(m.bus.board, offset, byte)
           access == Store1(\hE80000 + offset, byte)
<1>1. SameMemory(m.bus, s.bus)  BY StartedFacts, SMT DEF Ready
<1>2. s.bus.model \in Model /\ s.bus.board = m.bus.board  BY <1>1, SMT DEF SameMemory
<1> HIDE DEF s
<1>3. Access(s.bus, access) = WriteByte(s.bus, \hE80000 + offset, byte)
  BY SMT DEF Access, Write, Store1
<1>4. WriteByte(s.bus, \hE80000 + offset, byte) = WithBoard(s.bus, board)
  BY <1>2, WindowByte, SMT
<1>5. Access(s.bus, access) = WithBoard(s.bus, board)  BY <1>3, <1>4, SMT
<1> HIDE DEF board, access
<1>6. IsBoard(board)  BY SMT DEF board
<1>7. /\ Quiet(m, Executed(m, access)) /\ Elsewhere(m.bus, Executed(m, access).bus)
      /\ Executed(m, access).bus.board = board
  BY <1>5, <1>6, WindowRuns, SMT DEF s
<1> QED  BY <1>7, SMT DEF board, access

LEMMA WindowWordRuns ==
  ASSUME NEW m, Ready(m), m.bus.model \in Model, AutoconfigActive(m.bus.board), NEW page,
         IsBoard(WriteAutoconfigWord(m.bus.board, \h48, <<page, 0>>))
  PROVE  LET c == Executed(m, [at |-> \hE80048, width |-> 2, value |-> <<page, 0>>])
         IN  /\ Quiet(m, c) /\ Elsewhere(m.bus, c.bus)
             /\ c.bus.board = WriteAutoconfigWord(m.bus.board, \h48, <<page, 0>>)
<1> DEFINE s == Started(m)
           word == <<page, 0>>
           board == WriteAutoconfigWord(m.bus.board, \h48, word)
           access == [at |-> \hE80048, width |-> 2, value |-> word]
<1>1. SameMemory(m.bus, s.bus)  BY StartedFacts, SMT DEF Ready
<1>2. s.bus.model \in Model /\ s.bus.board = m.bus.board  BY <1>1, SMT DEF SameMemory
<1>3. Len(word) = 2 /\ word # <<>>  BY SMT
<1> HIDE DEF s, word
<1>4. Access(s.bus, access) = WriteWord(s.bus, \hE80048, word)
  BY <1>3, SMT DEF Access, Write
<1>5. WriteWord(s.bus, \hE80048, word) = WithBoard(s.bus, board)
  BY <1>2, WindowWord, SMT
<1>6. Access(s.bus, access) = WithBoard(s.bus, board)  BY <1>4, <1>5, SMT
<1> HIDE DEF board, access
<1>7. IsBoard(board)  BY SMT DEF board, word
<1>8. /\ Quiet(m, Executed(m, access)) /\ Elsewhere(m.bus, Executed(m, access).bus)
      /\ Executed(m, access).bus.board = board
  BY <1>6, <1>7, WindowRuns, SMT DEF s
<1> QED  BY <1>8, SMT DEF board, access, word

LEMMA QuietIsTransitive ==
  ASSUME NEW m, NEW c, NEW d, Quiet(m, c), Quiet(c, d)
  PROVE  Quiet(m, d)
BY DEF Quiet

\* The board is placed by its page, in one write or in two.
LEMMA PlacedByTwo ==
  ASSUME NEW m, Ready(m), NEW known, Agrees(m.bus, known), known.unplaced,
         NEW base \in Bases, NEW page, page = base \div \h10000
  PROVE  LET low == Executed(m, Store1(\hE8004A, 16 * (page % 16)))
             c == Executed(low, Store1(\hE80048, 16 * (page \div 16)))
         IN  /\ Quiet(m, c) /\ c.bus.model = m.bus.model
             /\ Agrees(c.bus, WithBase(known, base))
<1> DEFINE lo == 16 * (page % 16)
           hi == 16 * (page \div 16)
           low == Executed(m, Store1(\hE80000 + \h4A, lo))
           c == Executed(low, Store1(\hE80000 + \h48, hi))
           board == m.bus.board
           first == WriteAutoconfigByte(board, \h4A, lo)
           second == WriteAutoconfigByte(first, \h48, hi)
<1>1. \hE80000 + \h4A = \hE8004A /\ \hE80000 + \h48 = \hE80048  BY SMT
<1>2. /\ m.bus.model \in Model /\ AutoconfigActive(board) /\ board.mapLo = 0 /\ IsBoard(board)
  BY SMT DEF Agrees, Placed, IsBus
<1>3. BitOr(hi, lo \div 16) * \h10000 = base  BY PageOfBase, SMT
<1> HIDE DEF lo, hi
<1>4. /\ IsBoard(first) /\ first.mapLo = lo /\ first.enabled = board.enabled
      /\ first.configured = board.configured /\ first.shutUp = board.shutUp
  BY <1>2, MapLow, SMT
<1>5. /\ Quiet(m, low) /\ Elsewhere(m.bus, low.bus) /\ low.bus.board = first
  <2>1. \h4A \in {\h48, \h4A, \h4C}  BY SMT
  <2> HIDE DEF board
  <2> QED  BY <1>2, <1>4, <2>1, WindowByteRuns, SMT DEF board
<1> HIDE DEF low, first
<1>6. AutoconfigActive(first)  BY <1>2, <1>4, SMT DEF AutoconfigActive
<1>7. /\ IsBoard(second) /\ second.enabled = first.enabled /\ second.configured
      /\ second.base = base
  BY <1>3, <1>4, MapHigh, SMT
<1>8. Ready(low) /\ low.bus.model \in Model /\ AutoconfigActive(low.bus.board)
  BY <1>2, <1>5, <1>6, SMT DEF Quiet, Elsewhere
<1>9. /\ Quiet(low, c) /\ Elsewhere(low.bus, c.bus) /\ c.bus.board = second
  <2>1. \h48 \in {\h48, \h4A, \h4C}  BY SMT
  <2> QED  BY <1>5, <1>7, <1>8, <2>1, WindowByteRuns, SMT
<1> HIDE DEF c, second
<1>10. Quiet(m, c) /\ Elsewhere(m.bus, c.bus)
  BY <1>5, <1>9, QuietIsTransitive, SameIsElsewhere, SMT
<1>11. Agrees(c.bus, WithBase(known, base))
  <2>1. /\ c.bus.board.enabled = m.bus.board.enabled /\ c.bus.board.configured
        /\ c.bus.board.base = base /\ Elsewhere(m.bus, c.bus)
    BY <1>4, <1>7, <1>9, <1>10, SMT
  <2> DEFINE b == m.bus
             d == c.bus
  <2>2. Agrees(b, known) /\ PlacedAt(b, d, base)  BY <2>1, SMT DEF PlacedAt
  <2> HIDE DEF b, d
  <2>3. Agrees(d, WithBase(known, base))  BY <2>2, BoardPlaced, SMT
  <2> QED  BY <2>3, SMT DEF d
<1>12. c.bus.model = m.bus.model  BY <1>10, SMT DEF Elsewhere
<1> QED  BY <1>1, <1>10, <1>11, <1>12, SMT DEF c, low, lo, hi

\* The board placed by one byte, or by a word, is where the history has it.
LEMMA PlacedByOne ==
  ASSUME NEW m, Ready(m), NEW known, Agrees(m.bus, known), known.unplaced,
         NEW base \in Bases, NEW page, page = base \div \h10000
  PROVE  LET c == Executed(m, Store1(\hE80048, page))
         IN  /\ Quiet(m, c) /\ c.bus.model = m.bus.model
             /\ Agrees(c.bus, WithBase(known, base))
<1> DEFINE c == Executed(m, Store1(\hE80000 + \h48, page))
           board == m.bus.board
           second == WriteAutoconfigByte(board, \h48, page)
<1>1. \hE80000 + \h48 = \hE80048 /\ \h48 \in {\h48, \h4A, \h4C}  BY SMT
<1>2. /\ m.bus.model \in Model /\ AutoconfigActive(board) /\ board.mapLo = 0 /\ IsBoard(board)
  BY SMT DEF Agrees, Placed, IsBus
<1>3. BitOr(page, 0 \div 16) * \h10000 = base  BY PageOfBase, SMT
<1>4. /\ IsBoard(second) /\ second.enabled = board.enabled /\ second.configured
      /\ second.base = base
  BY <1>2, <1>3, MapHigh, SMT
<1>5. /\ Quiet(m, c) /\ Elsewhere(m.bus, c.bus) /\ c.bus.board = second
  BY <1>1, <1>2, <1>4, WindowByteRuns, SMT
<1> HIDE DEF c, second
<1>6. Agrees(c.bus, WithBase(known, base))
  <2>1. /\ c.bus.board.enabled = m.bus.board.enabled /\ c.bus.board.configured
        /\ c.bus.board.base = base /\ Elsewhere(m.bus, c.bus)
    BY <1>4, <1>5, SMT
  <2> DEFINE b == m.bus
             d == c.bus
  <2>2. Agrees(b, known) /\ PlacedAt(b, d, base)  BY <2>1, SMT DEF PlacedAt
  <2> HIDE DEF b, d
  <2>3. Agrees(d, WithBase(known, base))  BY <2>2, BoardPlaced, SMT
  <2> QED  BY <2>3, SMT DEF d
<1>7. c.bus.model = m.bus.model  BY <1>5, SMT DEF Elsewhere
<1> QED  BY <1>1, <1>5, <1>6, <1>7, SMT DEF c

LEMMA PlacedByWord ==
  ASSUME NEW m, Ready(m), NEW known, Agrees(m.bus, known), known.unplaced,
         NEW base \in Bases, NEW page, page = base \div \h10000
  PROVE  LET c == Executed(m, [at |-> \hE80048, width |-> 2, value |-> <<page, 0>>])
         IN  /\ Quiet(m, c) /\ c.bus.model = m.bus.model
             /\ Agrees(c.bus, WithBase(known, base))
<1> DEFINE c == Executed(m, [at |-> \hE80048, width |-> 2, value |-> <<page, 0>>])
           board == m.bus.board
           word == <<page, 0>>
           second == WriteAutoconfigWord(board, \h48, word)
<1>1. /\ m.bus.model \in Model /\ AutoconfigActive(board) /\ IsBoard(board)
  BY SMT DEF Agrees, Placed, IsBus
<1>2. word[1] = page  BY SMT
<1>3. BitOr(page, 0 \div 16) * \h10000 = base  BY PageOfBase, SMT
<1> HIDE DEF word
<1>4. /\ IsBoard(second) /\ second.enabled = board.enabled /\ second.configured
      /\ second.base = base
  <2>1. second = WriteAutoconfigWord(board, \h48, word)  OBVIOUS
  <2> HIDE DEF second, board
  <2>2. ConfiguredAt(board, second, BitOr(word[1], 0 \div 16) * \h10000)
    BY <1>1, <2>1, MapWord, SMT
  <2> QED  BY <1>2, <1>3, <2>2, SMT DEF ConfiguredAt
<1>5. /\ Quiet(m, c) /\ Elsewhere(m.bus, c.bus) /\ c.bus.board = second
  BY <1>1, <1>4, WindowWordRuns, SMT DEF word
<1> HIDE DEF c, second
<1>6. Agrees(c.bus, WithBase(known, base))
  <2>1. /\ c.bus.board.enabled = m.bus.board.enabled /\ c.bus.board.configured
        /\ c.bus.board.base = base /\ Elsewhere(m.bus, c.bus)
    BY <1>4, <1>5, SMT
  <2> DEFINE b == m.bus
             d == c.bus
  <2>2. Agrees(b, known) /\ PlacedAt(b, d, base)  BY <2>1, SMT DEF PlacedAt
  <2> HIDE DEF b, d
  <2>3. Agrees(d, WithBase(known, base))  BY <2>2, BoardPlaced, SMT
  <2> QED  BY <2>3, SMT DEF d
<1>7. c.bus.model = m.bus.model  BY <1>5, SMT DEF Elsewhere
<1> QED  BY <1>5, <1>6, <1>7, SMT DEF c

\* The board is told to keep quiet.
LEMMA SilentRuns ==
  ASSUME NEW m, Ready(m), NEW known, Agrees(m.bus, known), known.unplaced
  PROVE  LET c == Executed(m, Store1(\hE8004C, 0))
         IN  /\ Quiet(m, c) /\ c.bus.model = m.bus.model
             /\ Agrees(c.bus, [known EXCEPT !.unplaced = FALSE])
<1> DEFINE c == Executed(m, Store1(\hE80000 + \h4C, 0))
           board == m.bus.board
           second == WriteAutoconfigByte(board, \h4C, 0)
<1>1. \hE80000 + \h4C = \hE8004C /\ \h4C \in {\h48, \h4A, \h4C}  BY SMT
<1>2. /\ m.bus.model \in Model /\ AutoconfigActive(board) /\ IsBoard(board)
  BY SMT DEF Agrees, Placed, IsBus
<1>3. IsBoard(second) /\ second.shutUp /\ ~second.configured
  BY <1>2, MapSilent, SMT
<1>4. /\ Quiet(m, c) /\ Elsewhere(m.bus, c.bus) /\ c.bus.board = second
  BY <1>1, <1>2, <1>3, WindowByteRuns, SMT
<1> HIDE DEF c, second
<1>5. Agrees(c.bus, [known EXCEPT !.unplaced = FALSE])
  BY <1>3, <1>4, BoardSilent, SMT
<1>6. c.bus.model = m.bus.model  BY <1>4, SMT DEF Elsewhere
<1> QED  BY <1>1, <1>4, <1>5, <1>6, SMT DEF c
-----------------------------------------------------------------------------
(* The guest's writes of custom registers *)

\* The shadows a guest reads are the registers, but those that lag behind.
Truthful(m, adkcon, stale_) ==
  /\ Shown(m) /\ adkcon \subseteq 0 .. 14
  /\ DMACONR \in stale_ \/ Shadow(m.bus, DMACONR) = Word(m.dmacon)
  /\ ADKCONR \in stale_ \/ Shadow(m.bus, ADKCONR) = Word(adkcon)

\* The numbers of the registers are different.
LEMMA Registers ==
  /\ DMACONR # ADKCONR /\ DMACONR # INTENAR /\ DMACONR # INTREQR
  /\ ADKCONR # INTENAR /\ ADKCONR # INTREQR /\ INTENAR # INTREQR
  /\ DMACON \notin SpritePointers /\ ADKCON \notin SpritePointers
  /\ INTENA \notin SpritePointers /\ INTREQ \notin SpritePointers
  /\ DMACON # ADKCON /\ DMACON # INTENA /\ DMACON # INTREQ
  /\ ADKCON # INTENA /\ ADKCON # INTREQ /\ INTENA # INTREQ
  /\ ReadableOf(DMACON) = DMACONR /\ ReadableOf(INTENA) = INTENAR
  /\ ReadableOf(INTREQ) = INTREQR /\ ReadableOf(ADKCON) = ADKCONR
  /\ SetClearRegister = {DMACON, INTENA, INTREQ, ADKCON}
  /\ \A r \in Written : r # DMACONR /\ r # ADKCONR /\ r # INTENAR /\ r # INTREQR
<1>1. /\ DMACONR # ADKCONR /\ DMACONR # INTENAR /\ DMACONR # INTREQR
      /\ ADKCONR # INTENAR /\ ADKCONR # INTREQR /\ INTENAR # INTREQR
  BY SMT DEF DMACONR, ADKCONR, INTENAR, INTREQR
<1>2. /\ DMACON # ADKCON /\ DMACON # INTENA /\ DMACON # INTREQ
      /\ ADKCON # INTENA /\ ADKCON # INTREQ /\ INTENA # INTREQ
  BY SMT DEF DMACON, ADKCON, INTENA, INTREQ
<1>3. /\ DMACON \notin SpritePointers /\ ADKCON \notin SpritePointers
      /\ INTENA \notin SpritePointers /\ INTREQ \notin SpritePointers
  BY SMT DEF DMACON, ADKCON, INTENA, INTREQ, SpritePointers
<1>4. /\ ReadableOf(DMACON) = DMACONR /\ ReadableOf(INTENA) = INTENAR
      /\ ReadableOf(INTREQ) = INTREQR /\ ReadableOf(ADKCON) = ADKCONR
  BY <1>2, SMT DEF ReadableOf
<1>5. \A r \in Written : r # DMACONR /\ r # ADKCONR /\ r # INTENAR /\ r # INTREQR
  BY SMT DEF Written
<1> QED  BY <1>1, <1>2, <1>3, <1>4, <1>5, SMT DEF SetClearRegister

\* A quiet step keeps the registers truthful.
LEMMA QuietTruthful ==
  ASSUME NEW m, NEW c, NEW adkcon, NEW old, Truthful(m, adkcon, old), Quiet(m, c)
  PROVE  Truthful(c, adkcon, old)
BY Registers DEF Truthful, Quiet

\* The register of ADKCON is no memory.
LEMMA AgreesAdkcon ==
  ASSUME NEW b, NEW known, Agrees(b, known), NEW bits
  PROVE  Agrees(b, [known EXCEPT !.adkcon = bits]) /\ [known EXCEPT !.adkcon = bits].adkcon = bits
<1> DEFINE k == [known EXCEPT !.adkcon = bits]
<1>1. /\ IsKnown(k) /\ k.cells = known.cells /\ k.overlay = known.overlay
      /\ k.unplaced = known.unplaced /\ k.boardAt = known.boardAt /\ k.adkcon = bits
  BY DEF Agrees, IsKnown, KnownField
<1> HIDE DEF k
<1>2. \A p : Kept(k, p) = Kept(known, p)  BY <1>1 DEF Kept
<1>3. Holds(b, k)  BY <1>2 DEF Agrees, Holds
<1>4. Placed(b, k)  BY <1>1 DEF Agrees, Placed
<1> QED  BY <1>1, <1>3, <1>4 DEF Agrees, k

\* What the write of a register leaves: the table and what the shadows show.
AdkconAfter(known, r, word) ==
  IF r = ADKCON THEN [known EXCEPT !.adkcon = SetClear(@, word)] ELSE known

\* What the history keeps of ADKCON after a write.
LEMMA AdkconAfterIs ==
  ASSUME NEW b, NEW known, Agrees(b, known), NEW r, NEW word
  PROVE  /\ Agrees(b, AdkconAfter(known, r, word))
         /\ r = ADKCON => AdkconAfter(known, r, word).adkcon = SetClear(known.adkcon, word)
         /\ r # ADKCON => AdkconAfter(known, r, word) = known
<1>1. CASE r = ADKCON
  <2> DEFINE bits == SetClear(known.adkcon, word)
  <2>1. AdkconAfter(known, r, word) = [known EXCEPT !.adkcon = bits]
    BY <1>1 DEF AdkconAfter, Agrees, IsKnown, KnownField
  <2> HIDE DEF bits
  <2> QED  BY <1>1, <2>1, AgreesAdkcon DEF bits
<1>2. CASE r # ADKCON  BY <1>2 DEF AdkconAfter
<1> QED  BY <1>1, <1>2

\* The end of a write that was logged, by word or by bytes.
AfterRegister(m, b, c, known, r, word) ==
  /\ Ready(c) /\ Shown(c) /\ c.bus.model = m.bus.model
  /\ Agrees(c.bus, known)
  /\ \A q : q \notin {INTREQR, INTENAR} => Shadow(c.bus, q) = Shadow(b, q)
  /\ r = DMACON => c.dmacon = SetClear(m.dmacon, word)
  /\ r \notin SpritePointers \cup {DMACON} => c.dmacon = m.dmacon

\* A register written once by the guest, through the loop, is as the history has it.
LEMMA RegisterWritten ==
  ASSUME NEW m, Ready(m), NEW known, Agrees(m.bus, known), NEW s, s = Started(m),
         NEW access, NEW b, b = Access(s.bus, access), SameMemory(s.bus, b),
         NEW r, NEW word \in WordValue, b.log = OneWrite(r, word),
         ShowsInterrupts(b, s.bus, r)
  PROVE  AfterRegister(m, b, Executed(m, access), known, r, word)
<1> DEFINE c == Run(s, access)
<1>1. /\ IsMachine(s) /\ SameMemory(m.bus, s.bus) /\ Ranged(s) /\ Shown(s) /\ s.dmacon = m.dmacon
  BY StartedFacts DEF Ready
<1>2. Executed(m, access) = c  BY DEF Executed, Started
<1>3. IsBus(b)  BY DEF SameMemory
<1>4. /\ IsMachine(c) /\ SameMemory(b, c.bus) /\ c.bus.log = <<>>
      /\ Ranged(c) /\ Shown(c)
      /\ \A q : q \notin {INTREQR, INTENAR} => Shadow(c.bus, q) = Shadow(b, q)
      /\ c.dmacon = CASE r = DMACON -> SetClear(s.dmacon, word)
                      [] r \in SpritePointers -> s.dmacon \cup {SPREN}
                      [] OTHER -> s.dmacon
  <2>1. AfterLogged(s, b, c, r, word)  BY <1>1, <1>3, LoggedRun
  <2> HIDE DEF c
  <2> QED  BY <2>1 DEF AfterLogged
<1> HIDE DEF c
<1>5. SameMemory(m.bus, c.bus)  BY <1>1, <1>4, SameIsTransitive
<1>6. r = DMACON => c.dmacon = SetClear(m.dmacon, word)  BY <1>1, <1>4, Registers
<1>7. r \notin SpritePointers \cup {DMACON} => c.dmacon = m.dmacon  BY <1>1, <1>4
<1>8. Agrees(c.bus, known) /\ c.bus.model = m.bus.model  BY <1>5, AgreesSame DEF SameMemory
<1> QED  BY <1>2, <1>4, <1>6, <1>7, <1>8 DEF Ready, AfterRegister

RegisterWord(r) == \hDFF000 + r
RegisterLow(r) == \hDFF001 + r

\* A write of a register reaches no other device.
LEMMA RegisterPlace ==
  ASSUME NEW b, NEW known, Agrees(b, known), NEW a \in Nat, Within(a, \hDFF000, \hE00000)
  PROVE  /\ Region(b.model, a) = "custom" /\ ~BoardTakes(b, a)
         /\ IdeRegister(a) # 0 /\ ~Within(a, \hBFD000, \hC00000)
<1>1. Region(b.model, a) = "custom"  BY Regions, SMT
<1>2. ~BoardTakes(b, a)  BY BoardIs, SMT DEF Within
<1>3. IdeRegister(a) # 0 /\ ~Within(a, \hBFD000, \hC00000)
  BY SMT DEF IdeRegister, Within, Nowhere
<1> QED  BY <1>1, <1>2, <1>3, SMT

\* A register's word goes to write_custom_word, whatever is configured.
LEMMA RegisterWordIs ==
  ASSUME NEW b, NEW known, Agrees(b, known), NEW r \in Written, NEW word
  PROVE  WriteWord(b, RegisterWord(r), word) = WriteCustomWord(b, \hDFF000 + r, word)
<1> DEFINE a == \hDFF000 + r
<1>1. a \in Nat /\ Within(a, \hDFF000, \hE00000)  BY RegisterAt, SMT
<1>2. RegisterWord(r) = a  BY SMT DEF RegisterWord
<1> HIDE DEF a
<1>3. ~BoardTakes(b, a) /\ IdeRegister(a) # 0 /\ ~Within(a, \hBFD000, \hC00000)
  BY <1>1, RegisterPlace, SMT
<1>4. WriteWord(b, a, word) = WriteCustomWord(b, a, word)
  BY <1>1, <1>3, SMT DEF WriteWord
<1> QED  BY <1>2, <1>4, SMT DEF a

HighByte(b, r, byte) == SetShadow(b, r, <<byte, Shadow(b, r)[2]>>)

LowWord(b, r, byte) == <<Shadow(b, r)[1], byte>>

LowByte(b, r, byte) == Logged(SetShadow(b, r, LowWord(b, r, byte)), r, LowWord(b, r, byte))

\* A write that is not for the board leaves it.
LEMMA NotTheBoards ==
  ASSUME NEW b, NEW c, NEW a, NEW byte, c.board = b.board, ~BoardTakes(b, a)
  PROVE  ToBoard(c, a, byte) = c
BY DEF ToBoard, BoardTakes

\* A register's high byte and its low byte, written on their own.
LEMMA RegisterHighIs ==
  ASSUME NEW b, NEW known, Agrees(b, known), NEW r \in Written, NEW byte
  PROVE  WriteByte(b, RegisterWord(r), byte) = HighByte(b, r, byte)
<1> DEFINE a == \hDFF000 + r
           c == HighByte(b, r, byte)
<1>1. a \in Nat /\ Within(a, \hDFF000, \hE00000) /\ RegisterOf(a) = r /\ a % 2 = 0
  BY RegisterAt, SMT
<1>2. RegisterWord(r) = a  BY SMT DEF RegisterWord
<1> HIDE DEF a
<1>3. Region(b.model, a) = "custom" /\ ~BoardTakes(b, a)  BY <1>1, RegisterPlace, SMT
<1>4. WriteByte(b, a, byte) = ToBoard(WriteCustomByte(b, a, byte), a, byte)
  BY <1>3, WriteCustomIs, SMT
<1>5. WriteCustomByte(b, a, byte) = c  BY <1>1, SMT DEF WriteCustomByte, HighByte
<1>6. c.board = b.board  BY SMT DEF Agrees, IsBus, BusField, HighByte, SetShadow
<1> HIDE DEF c
<1>7. ToBoard(c, a, byte) = c  BY <1>3, <1>6, NotTheBoards, SMT
<1> QED  BY <1>2, <1>4, <1>5, <1>7, SMT DEF a, c

LEMMA RegisterLowIs ==
  ASSUME NEW b, NEW known, Agrees(b, known), NEW r \in Written, NEW byte
  PROVE  WriteByte(b, RegisterLow(r), byte) = LowByte(b, r, byte)
<1> DEFINE a == \hDFF001 + r
           c == LowByte(b, r, byte)
           word == LowWord(b, r, byte)
<1>1. a \in Nat /\ Within(a, \hDFF000, \hE00000) /\ RegisterOf(a) = r /\ a % 2 = 1
  <2>1. a \in Nat /\ Within(a, \hDFF001, \hE00000) /\ RegisterOf(a) = r /\ a % 2 = 1
    BY RegisterAt, SMT DEF Within
  <2> QED  BY <2>1, SMT DEF Within
<1>2. RegisterLow(r) = a  BY SMT DEF RegisterLow
<1> HIDE DEF a
<1>3. Region(b.model, a) = "custom" /\ ~BoardTakes(b, a)  BY <1>1, RegisterPlace, SMT
<1>4. WriteByte(b, a, byte) = ToBoard(WriteCustomByte(b, a, byte), a, byte)
  BY <1>3, WriteCustomIs, SMT
<1>5. WriteCustomByte(b, a, byte) = c  BY <1>1, SMT DEF WriteCustomByte, LowByte, LowWord
<1>6. c.board = b.board
  <2>1. \A x : SetShadow(b, r, x).board = b.board /\ IsBus(SetShadow(b, r, x))
    BY ShadowSet DEF Agrees, SameMemory
  <2> DEFINE d == SetShadow(b, r, word)
  <2>2. IsBus(d) /\ d.board = b.board  BY <2>1
  <2>3. c = Logged(d, r, word)  BY DEF LowByte
  <2> HIDE DEF d, c, word
  <2>4. SameMemory(d, Logged(d, r, word))  BY <2>2, LoggedKeeps, ZenonT(30)
  <2> QED  BY <2>2, <2>3, <2>4 DEF SameMemory
<1> HIDE DEF c
<1>7. ToBoard(c, a, byte) = c  BY <1>3, <1>6, NotTheBoards, SMT
<1> QED  BY <1>2, <1>4, <1>5, <1>7, SMT DEF a, c

StaleByWord(old, r) == IF r \in SpritePointers THEN old \cup {DMACONR} ELSE old

\* A word written to a register: its shadow follows.
LEMMA WordWritten ==
  ASSUME NEW m, Ready(m), NEW known, Agrees(m.bus, known), NEW old,
         Truthful(m, known.adkcon, old), NEW r \in Written, NEW word \in WordValue,
         NEW access, access = [at |-> RegisterWord(r), width |-> 2, value |-> word],
         NEW k, k = AdkconAfter(known, r, word)
  PROVE  LET c == Executed(m, access)
         IN  /\ Ready(c) /\ c.bus.model = m.bus.model /\ Agrees(c.bus, k)
             /\ Truthful(c, k.adkcon, StaleByWord(old, r))
<1>0. PICK s : s = Started(m)  OBVIOUS
<1> DEFINE b == WriteCustomWord(s.bus, \hDFF000 + r, word)
           c == Executed(m, access)
           new == StaleByWord(old, r)
<1>1. /\ IsMachine(s) /\ SameMemory(m.bus, s.bus) /\ s.bus.log = <<>> /\ Shown(s)
      /\ \A q : q \notin {INTREQR, INTENAR} => Shadow(s.bus, q) = Shadow(m.bus, q)
  BY <1>0, StartedFacts, SMT DEF Ready
<1>2. Agrees(s.bus, known) /\ IsBus(s.bus)  BY <1>1, AgreesSame, SMT DEF IsMachine
<1>3. Access(s.bus, access) = b
  <2>1. Len(word) = 2 /\ word # <<>>
    <3>1. word = <<word[1], word[2]>>  BY SMT DEF WordValue
    <3>2. \A x, y : Len(<<x, y>>) = 2 /\ <<x, y>> # <<>>  BY SMT
    <3> QED  BY <3>1, <3>2, ZenonT(30)
  <2>2. Access(s.bus, access) = WriteWord(s.bus, RegisterWord(r), word)
    BY <2>1, SMT DEF Access, Write
  <2> QED  BY <1>2, <2>2, RegisterWordIs, SMT
<1>4. /\ SameMemory(s.bus, b)
      /\ b.log = Append(s.bus.log, [register |-> r, value |-> word])
      /\ \A q : q \notin {r, ReadableOf(r)} \/ (q # r /\ r \notin SetClearRegister) =>
                  Shadow(b, q) = Shadow(s.bus, q)
      /\ r \in SetClearRegister =>
           Shadow(b, ReadableOf(r)) = ShadowBits(Shadow(s.bus, ReadableOf(r)), word)
  BY <1>2, WriteCustomWordIs, SMT
<1> HIDE DEF b
<1>5. b.log = OneWrite(r, word)
  <2> DEFINE write == [register |-> r, value |-> word]
  <2> HIDE DEF write
  <2>1. b.log = Append(<<>>, write)  BY <1>1, <1>4 DEF write
  <2>2. Append(<<>>, write) = <<write>>  BY SMT
  <2> QED  BY <2>1, <2>2 DEF OneWrite, write
<1>6. r # DMACONR /\ r # ADKCONR /\ r # INTENAR /\ r # INTREQR  BY Registers
<1>7. ShowsInterrupts(b, s.bus, r)
  <2>1. CASE r \in {INTENA, INTREQ}  BY <2>1 DEF ShowsInterrupts
  <2>2. CASE r \in {DMACON, ADKCON}
    BY <1>4, <1>6, <2>2, Registers DEF ShowsInterrupts
  <2>3. CASE r \notin SetClearRegister
    BY <1>4, <1>6, <2>3 DEF ShowsInterrupts
  <2> QED  BY <2>1, <2>2, <2>3, Registers
<1>8. /\ Ready(c) /\ Shown(c) /\ c.bus.model = m.bus.model
      /\ Agrees(c.bus, known)
      /\ \A q : q \notin {INTREQR, INTENAR} => Shadow(c.bus, q) = Shadow(b, q)
      /\ r = DMACON => c.dmacon = SetClear(m.dmacon, word)
      /\ r \notin SpritePointers \cup {DMACON} => c.dmacon = m.dmacon
  <2>1. AfterRegister(m, b, c, known, r, word)
    <3>1. b = Access(s.bus, access)  BY <1>3
    <3>2. SameMemory(s.bus, b)  BY <1>4
    <3> QED  BY <1>0, <1>5, <1>7, <3>1, <3>2, RegisterWritten, SMT
  <2> HIDE DEF c
  <2> QED  BY <2>1 DEF AfterRegister
<1> HIDE DEF c
<1>9. Agrees(c.bus, k) /\ (r = ADKCON => k.adkcon = SetClear(known.adkcon, word))
      /\ (r # ADKCON => k.adkcon = known.adkcon)
  BY <1>8, AdkconAfterIs
<1>10. m.dmacon \subseteq 0 .. 14 /\ known.adkcon \subseteq 0 .. 14  BY DEF Ready, Ranged, Truthful
<1>11. /\ Shadow(c.bus, DMACONR) = Shadow(b, DMACONR)
       /\ Shadow(c.bus, ADKCONR) = Shadow(b, ADKCONR)
       /\ Shadow(s.bus, DMACONR) = Shadow(m.bus, DMACONR)
       /\ Shadow(s.bus, ADKCONR) = Shadow(m.bus, ADKCONR)
  BY <1>1, <1>8, Registers
<1>12. DMACONR \in new \/ Shadow(c.bus, DMACONR) = Word(c.dmacon)
  <2>1. CASE r \in SpritePointers  BY <2>1 DEF StaleByWord
  <2>2. CASE r = DMACON
    <3>1. Shadow(b, DMACONR) = ShadowBits(Shadow(s.bus, DMACONR), word)  BY <1>4, <2>2, Registers
    <3>2. ShadowBits(Word(m.dmacon), word) = Word(SetClear(m.dmacon, word))
      BY <1>10, ShadowOfSetClear
    <3> QED  BY <1>8, <1>11, <2>2, <3>1, <3>2, Registers DEF Truthful, StaleByWord
  <2>3. CASE r \notin SpritePointers \cup {DMACON}
    <3>1. DMACONR \notin {r, ReadableOf(r)} \/ (DMACONR # r /\ r \notin SetClearRegister)
      BY <1>6, <2>3, Registers
    <3>2. Shadow(b, DMACONR) = Shadow(s.bus, DMACONR)  BY <1>4, <3>1
    <3> QED  BY <1>8, <1>11, <2>3, <3>2 DEF Truthful, StaleByWord
  <2> QED  BY <2>1, <2>2, <2>3
<1>13. ADKCONR \in new \/ Shadow(c.bus, ADKCONR) = Word(k.adkcon)
  <2>1. CASE r = ADKCON
    <3>1. Shadow(b, ADKCONR) = ShadowBits(Shadow(s.bus, ADKCONR), word)  BY <1>4, <2>1, Registers
    <3>2. ShadowBits(Word(known.adkcon), word) = Word(SetClear(known.adkcon, word))
      BY <1>10, ShadowOfSetClear
    <3> QED  BY <1>9, <1>11, <2>1, <3>1, <3>2, Registers DEF Truthful, StaleByWord
  <2>2. CASE r # ADKCON
    <3>1. ADKCONR \notin {r, ReadableOf(r)} \/ (ADKCONR # r /\ r \notin SetClearRegister)
      BY <1>6, <2>2, Registers
    <3>2. Shadow(b, ADKCONR) = Shadow(s.bus, ADKCONR)  BY <1>4, <3>1
    <3> QED  BY <1>9, <1>11, <2>2, <3>2 DEF Truthful, StaleByWord
  <2> QED  BY <2>1, <2>2
<1>14. k.adkcon \subseteq 0 .. 14
  <2>1. SetClear(known.adkcon, word) \subseteq 0 .. 14  BY <1>10, ShadowOfSetClear
  <2> QED  BY <1>9, <1>10, <2>1
<1>15. Truthful(c, k.adkcon, new)  BY <1>8, <1>12, <1>13, <1>14 DEF Truthful
<1> QED  BY <1>8, <1>9, <1>15 DEF c

\* The high byte of a register: nothing is logged, and its shadow has the byte.
LEMMA HighByteWritten ==
  ASSUME NEW m, Ready(m), NEW known, Agrees(m.bus, known), NEW old,
         Truthful(m, known.adkcon, old), NEW r \in Written, NEW byte
  PROVE  LET c == Executed(m, Store1(RegisterWord(r), byte))
         IN  /\ Ready(c) /\ c.bus.model = m.bus.model /\ Agrees(c.bus, known)
             /\ Truthful(c, known.adkcon, old) /\ c.dmacon = m.dmacon
             /\ Shadow(c.bus, r)[1] = byte
<1> DEFINE s == Started(m)
           access == Store1(RegisterWord(r), byte)
           b == HighByte(s.bus, r, byte)
           c == Run(s, access)
<1>1. /\ IsMachine(s) /\ SameMemory(m.bus, s.bus) /\ s.bus.log = <<>> /\ Ranged(s) /\ Shown(s)
      /\ s.dmacon = m.dmacon
      /\ \A q : q \notin {INTREQR, INTENAR} => Shadow(s.bus, q) = Shadow(m.bus, q)
  BY StartedFacts DEF Ready
<1>2. Agrees(s.bus, known) /\ IsBus(s.bus)  BY <1>1, AgreesSame DEF IsMachine
<1>3. Executed(m, access) = c  BY DEF Executed, Started
<1>4. Access(s.bus, access) = b
  <2>1. Access(s.bus, access) = WriteByte(s.bus, RegisterWord(r), byte)
    BY SMT DEF Access, Write, Store1
  <2> QED  BY <1>2, <2>1, RegisterHighIs
<1> HIDE DEF s, access
<1>5. /\ SameMemory(s.bus, b) /\ b.log = s.bus.log
      /\ \A q : Shadow(b, q) = IF q = r THEN <<byte, Shadow(s.bus, r)[2]>> ELSE Shadow(s.bus, q)
  BY <1>2, ShadowSet DEF HighByte
<1> HIDE DEF b
<1>6. IsBus(b) /\ b.log = <<>>  BY <1>1, <1>5 DEF SameMemory
<1>7. /\ IsMachine(c) /\ SameMemory(b, c.bus) /\ c.bus.log = <<>>
      /\ \A q : Shadow(c.bus, q) = Shadow(b, q)
      /\ c.dmacon = s.dmacon /\ c.intena = s.intena /\ c.intreq = s.intreq
  BY <1>1, <1>4, <1>6, QuietRun
<1> HIDE DEF c
<1>8. r # DMACONR /\ r # ADKCONR /\ r # INTENAR /\ r # INTREQR  BY Registers
<1>9. Ready(c) /\ Shown(c)  BY <1>1, <1>5, <1>7, <1>8 DEF Ready, Ranged, Shown
<1>10. SameMemory(m.bus, c.bus)  BY <1>1, <1>5, <1>7, SameIsTransitive
<1>11. Agrees(c.bus, known) /\ c.bus.model = m.bus.model  BY <1>10, AgreesSame DEF SameMemory
<1>12. /\ Shadow(c.bus, DMACONR) = Shadow(m.bus, DMACONR)
       /\ Shadow(c.bus, ADKCONR) = Shadow(m.bus, ADKCONR)
  BY <1>1, <1>5, <1>7, <1>8, Registers
<1>13. Truthful(c, known.adkcon, old)  BY <1>1, <1>7, <1>9, <1>12 DEF Truthful
<1>14. Shadow(c.bus, r)[1] = byte
  <2>1. Shadow(c.bus, r) = <<byte, Shadow(s.bus, r)[2]>>  BY <1>5, <1>7
  <2> QED  BY <2>1
<1> QED  BY <1>1, <1>3, <1>7, <1>9, <1>11, <1>13, <1>14 DEF access

\* What the shadows may show after a register is written by bytes.
StaleByBytes(old, r) ==
  CASE r \in SpritePointers \cup {DMACON} -> old \cup {DMACONR}
    [] r = ADKCON -> old \cup {ADKCONR}
    [] OTHER -> old

\* The low byte of a register: the whole of its shadow is logged.
LEMMA LowByteWritten ==
  ASSUME NEW m, Ready(m), NEW known, Agrees(m.bus, known), NEW old,
         Truthful(m, known.adkcon, old), NEW r \in Written, NEW word \in WordValue,
         Shadow(m.bus, r)[1] = word[1],
         NEW access, access = Store1(RegisterLow(r), word[2]),
         NEW k, k = AdkconAfter(known, r, word)
  PROVE  LET c == Executed(m, access)
         IN  /\ Ready(c) /\ c.bus.model = m.bus.model /\ Agrees(c.bus, k)
             /\ Truthful(c, k.adkcon, StaleByBytes(old, r))
<1>0. PICK s : s = Started(m)  OBVIOUS
<1> DEFINE byte == word[2]
           b == LowByte(s.bus, r, byte)
           c == Executed(m, access)
           new == StaleByBytes(old, r)
<1>1. /\ IsMachine(s) /\ SameMemory(m.bus, s.bus) /\ s.bus.log = <<>> /\ Shown(s)
      /\ \A q : q \notin {INTREQR, INTENAR} => Shadow(s.bus, q) = Shadow(m.bus, q)
  BY <1>0, StartedFacts, SMT DEF Ready
<1>2. Agrees(s.bus, known) /\ IsBus(s.bus)  BY <1>1, AgreesSame, SMT DEF IsMachine
<1>3. Access(s.bus, access) = b
  <2>1. Access(s.bus, access) = WriteByte(s.bus, RegisterLow(r), byte)
    BY SMT DEF Access, Write, Store1
  <2> HIDE DEF byte
  <2> QED  BY <1>2, <2>1, RegisterLowIs, SMT
<1>4. r # DMACONR /\ r # ADKCONR /\ r # INTENAR /\ r # INTREQR  BY Registers
<1>5. LowWord(s.bus, r, byte) = word
  <2>1. Shadow(s.bus, r)[1] = word[1]  BY <1>1, <1>4
  <2>2. word = <<word[1], word[2]>>  BY SMT DEF WordValue
  <2> QED  BY <2>1, <2>2 DEF LowWord
<1> DEFINE d == SetShadow(s.bus, r, word)
<1>6. b = Logged(d, r, word)  BY <1>5 DEF LowByte
<1>7. /\ SameMemory(s.bus, d) /\ d.log = s.bus.log
      /\ \A q : Shadow(d, q) = IF q = r THEN word ELSE Shadow(s.bus, q)
  BY <1>2, ShadowSet
<1> HIDE DEF b, d
<1>8. /\ SameMemory(d, b) /\ b.log = Append(d.log, [register |-> r, value |-> word])
      /\ \A q : Shadow(b, q) = Shadow(d, q)
  <2>1. IsBus(d)  BY <1>7 DEF SameMemory
  <2> QED  BY <1>6, <2>1, LoggedKeeps
<1>9. SameMemory(s.bus, b)  BY <1>7, <1>8, SameIsTransitive
<1>10. b.log = OneWrite(r, word)
  <2> DEFINE write == [register |-> r, value |-> word]
  <2> HIDE DEF write
  <2>1. b.log = Append(<<>>, write)  BY <1>1, <1>7, <1>8 DEF write
  <2>2. Append(<<>>, write) = <<write>>  BY SMT
  <2> QED  BY <2>1, <2>2 DEF OneWrite, write
<1>11. ShowsInterrupts(b, s.bus, r)  BY <1>4, <1>7, <1>8 DEF ShowsInterrupts
<1>12. /\ Ready(c) /\ Shown(c) /\ c.bus.model = m.bus.model
       /\ Agrees(c.bus, known)
       /\ \A q : q \notin {INTREQR, INTENAR} => Shadow(c.bus, q) = Shadow(b, q)
       /\ r = DMACON => c.dmacon = SetClear(m.dmacon, word)
       /\ r \notin SpritePointers \cup {DMACON} => c.dmacon = m.dmacon
  <2>1. AfterRegister(m, b, c, known, r, word)
    <3>1. b = Access(s.bus, access)  BY <1>3
    <3> QED  BY <1>0, <1>9, <1>10, <1>11, <3>1, RegisterWritten, SMT
  <2> HIDE DEF c
  <2> QED  BY <2>1 DEF AfterRegister
<1> HIDE DEF c
<1>13. Agrees(c.bus, k) /\ (r = ADKCON => k.adkcon = SetClear(known.adkcon, word))
       /\ (r # ADKCON => k.adkcon = known.adkcon)
  BY <1>12, AdkconAfterIs
<1>14. known.adkcon \subseteq 0 .. 14  BY DEF Truthful
<1>15. /\ Shadow(c.bus, DMACONR) = Shadow(m.bus, DMACONR)
       /\ Shadow(c.bus, ADKCONR) = Shadow(m.bus, ADKCONR)
  BY <1>1, <1>4, <1>7, <1>8, <1>12, Registers
<1>16. DMACONR \in new \/ Shadow(c.bus, DMACONR) = Word(c.dmacon)
  <2>1. CASE r \in SpritePointers \cup {DMACON}
    <3>1. DMACONR \in new  BY <2>1, Registers DEF StaleByBytes
    <3> QED  BY <3>1
  <2>2. CASE r \notin SpritePointers \cup {DMACON}
    <3>1. old \subseteq new  BY <2>2 DEF StaleByBytes
    <3> QED  BY <1>12, <1>15, <2>2, <3>1 DEF Truthful
  <2> QED  BY <2>1, <2>2
<1>17. ADKCONR \in new \/ Shadow(c.bus, ADKCONR) = Word(k.adkcon)
  <2>1. CASE r = ADKCON
    <3>1. ADKCONR \in new  BY <2>1, Registers DEF StaleByBytes
    <3> QED  BY <3>1
  <2>2. CASE r # ADKCON
    <3>1. old \subseteq new  BY <2>2 DEF StaleByBytes
    <3> QED  BY <1>13, <1>15, <2>2, <3>1 DEF Truthful
  <2> QED  BY <2>1, <2>2
<1>18. k.adkcon \subseteq 0 .. 14
  <2>1. SetClear(known.adkcon, word) \subseteq 0 .. 14  BY <1>14, ShadowOfSetClear, SMTT(30)
  <2> QED  BY <1>13, <1>14, <2>1
<1> HIDE DEF new
<1>19. Truthful(c, k.adkcon, new)  BY <1>12, <1>16, <1>17, <1>18 DEF Truthful
<1> QED  BY <1>12, <1>13, <1>19 DEF c, new

\* A word copied to a register by bytes.
LEMMA BytesWritten ==
  ASSUME NEW m, Ready(m), NEW known, Agrees(m.bus, known), NEW old,
         Truthful(m, known.adkcon, old), NEW r \in Written, NEW word \in WordValue,
         NEW k, k = AdkconAfter(known, r, word)
  PROVE  LET c == Executed(Executed(m, Store1(RegisterWord(r), word[1])),
                           Store1(RegisterLow(r), word[2]))
         IN  /\ Ready(c) /\ c.bus.model = m.bus.model /\ Agrees(c.bus, k)
             /\ Truthful(c, k.adkcon, StaleByBytes(old, r))
<1> DEFINE high == Executed(m, Store1(RegisterWord(r), word[1]))
           access == Store1(RegisterLow(r), word[2])
<1>1. /\ Ready(high) /\ high.bus.model = m.bus.model /\ Agrees(high.bus, known)
      /\ Truthful(high, known.adkcon, old)
      /\ Shadow(high.bus, r)[1] = word[1]
  BY HighByteWritten
<1> HIDE DEF high, access
<1>2. /\ Ready(Executed(high, access)) /\ Executed(high, access).bus.model = high.bus.model
      /\ Agrees(Executed(high, access).bus, k)
      /\ Truthful(Executed(high, access), k.adkcon, StaleByBytes(old, r))
  BY <1>1, LowByteWritten DEF access
<1> QED  BY <1>1, <1>2 DEF high, access
-----------------------------------------------------------------------------
(* What is read *)

Covered(known, model, a) == known.overlay /\ a < model.rom

\* What the table expects of an address with a place, and of one without.
LEMMA ExpectedAt ==
  ASSUME NEW known, NEW model \in Model, known.boardAt \subseteq Bases, NEW a \in Nat,
         ~Covered(known, model, a), NEW cell,
         \A p : IsPlace(model, known.boardAt, a, p) <=> p = cell
  PROVE  Expected(known, model, a) = Content(known, cell)
<1> DEFINE places == Places(model, known.boardAt, a)
<1>1. \A p : p \in places <=> p = cell  BY InPlaces
<1> HIDE DEF places
<1>2. places = {cell}  BY <1>1
<1>3. (CHOOSE p \in places : TRUE) = cell  BY <1>2
<1>4. Expected(known, model, a) =
        IF places # {} THEN Content(known, CHOOSE p \in places : TRUE)
        ELSE IF known.unplaced /\ a % 2 = 0 /\ Within(a, \hE80000, \hE80030) THEN Identity(a)
        ELSE IF \E base \in known.boardAt : Within(a, base, base + \h8000) THEN 0
        ELSE 255
  BY SMT DEF Expected, Covered, places
<1> QED  BY <1>2, <1>3, <1>4, SMT

OpenIdentity(known, a) == known.unplaced /\ a % 2 = 0 /\ Within(a, \hE80000, \hE80030)

RegistersOfBoard(known, a) == \E base \in known.boardAt : Within(a, base, base + \h8000)

\* What the history expects where nothing is stored.
LEMMA ExpectedElsewhere ==
  ASSUME NEW known, NEW model \in Model, known.boardAt \subseteq Bases, NEW a \in Nat,
         ~Covered(known, model, a), \A p : ~IsPlace(model, known.boardAt, a, p)
  PROVE  /\ OpenIdentity(known, a) => Expected(known, model, a) = Identity(a)
         /\ ~OpenIdentity(known, a) /\ RegistersOfBoard(known, a) => Expected(known, model, a) = 0
         /\ ~OpenIdentity(known, a) /\ ~RegistersOfBoard(known, a) =>
              Expected(known, model, a) = 255
<1> DEFINE places == Places(model, known.boardAt, a)
<1>1. \A p : p \notin places  BY InPlaces
<1> HIDE DEF places
<1>2. places = {}  BY <1>1
<1>3. Expected(known, model, a) =
        IF OpenIdentity(known, a) THEN Identity(a)
        ELSE IF RegistersOfBoard(known, a) THEN 0 ELSE 255
  BY <1>2, SMT DEF Expected, Covered, places, OpenIdentity, RegistersOfBoard
<1> QED  BY <1>3, SMT

\* The identity's nibbles, counted by address and by offset.
LEMMA IdentityIs ==
  ASSUME NEW a \in Nat, Within(a, \hE80000, \hE90001)
  PROVE  /\ a % 2 = 0 /\ Within(a, \hE80000, \hE80030) => ReadAutoconfig(a - \hE80000) = Identity(a)
         /\ ~(a % 2 = 0 /\ Within(a, \hE80000, \hE80030)) => ReadAutoconfig(a - \hE80000) = 255
<1> DEFINE offset == a - \hE80000
<1>1. offset \in Nat /\ a % 2 = offset % 2  BY SMT DEF Within
<1>2. Within(a, \hE80000, \hE80030) <=> offset < 48  BY <1>1, SMT DEF Within
<1>3. CASE offset < 48 /\ offset % 4 = 0
  <2> DEFINE n == offset \div 2
  <2>1. /\ n % 2 = 0 /\ offset \div 4 = n \div 2 /\ offset \div 4 < 12
        /\ n < 2 <=> offset \in {0, 2, \h40, \h42}
    BY <1>1, <1>3, SMT
  <2>2. 1 + (n \div 2) = (offset \div 4) + 1  BY <1>1, <2>1, SMT
  <2>3. Identity(a) = Nibble(offset, AutoconfigBytes[(offset \div 4) + 1] \div 16)
    <3> HIDE DEF offset, n
    <3>1. Identity(a) = LET byte == AutoconfigBytes[1 + (n \div 2)]
                            nibble == IF n % 2 = 0 THEN byte \div 16 ELSE byte % 16
                        IN  IF n < 2 THEN 16 * nibble ELSE 255 - 16 * nibble
      BY SMT DEF Identity, n, offset
    <3> QED  BY <2>1, <2>2, <3>1, SMT DEF Nibble
  <2>4. ReadAutoconfig(offset) = Nibble(offset, AutoconfigBytes[(offset \div 4) + 1] \div 16)
    <3> HIDE DEF offset, n
    <3> QED  BY <1>3, <2>1, SMT DEF ReadAutoconfig
  <2>5. a % 2 = 0  BY <1>1, <1>3, SMT
  <2> QED  BY <1>2, <1>3, <2>3, <2>4, <2>5, SMT
<1>4. CASE offset < 48 /\ offset % 4 = 2
  <2> DEFINE n == offset \div 2
  <2>1. /\ n % 2 = 1 /\ offset \div 4 = n \div 2 /\ offset \div 4 < 12
        /\ n < 2 <=> offset \in {0, 2, \h40, \h42}
    BY <1>1, <1>4, SMT
  <2>2. 1 + (n \div 2) = (offset \div 4) + 1  BY <1>1, <2>1, SMT
  <2>3. Identity(a) = Nibble(offset, AutoconfigBytes[(offset \div 4) + 1] % 16)
    <3> HIDE DEF offset, n
    <3>1. Identity(a) = LET byte == AutoconfigBytes[1 + (n \div 2)]
                            nibble == IF n % 2 = 0 THEN byte \div 16 ELSE byte % 16
                        IN  IF n < 2 THEN 16 * nibble ELSE 255 - 16 * nibble
      BY SMT DEF Identity, n, offset
    <3> QED  BY <2>1, <2>2, <3>1, SMT DEF Nibble
  <2>4. ReadAutoconfig(offset) = Nibble(offset, AutoconfigBytes[(offset \div 4) + 1] % 16)
    <3> HIDE DEF offset, n
    <3> QED  BY <1>4, <2>1, SMT DEF ReadAutoconfig
  <2>5. a % 2 = 0  BY <1>1, <1>4, SMT
  <2> QED  BY <1>2, <1>4, <2>3, <2>4, <2>5, SMT
<1>5. CASE ~(offset < 48 /\ offset % 2 = 0)
  <2>1. ~(offset \div 4 < 12 /\ offset % 4 = 0) /\ ~(offset \div 4 < 12 /\ offset % 4 = 2)
    BY <1>1, <1>5, SMT
  <2>2. ReadAutoconfig(offset) = 255
    <3> HIDE DEF offset
    <3> QED  BY <2>1, SMT DEF ReadAutoconfig
  <2> QED  BY <1>1, <1>2, <1>5, <2>2, SMT
<1>6. (offset < 48 /\ offset % 4 = 0) \/ (offset < 48 /\ offset % 4 = 2)
      \/ ~(offset < 48 /\ offset % 2 = 0)
  BY <1>1, SMT
<1> QED  BY <1>3, <1>4, <1>5, <1>6, SMT

(***************************************************************************)
(* Reads: a byte, a word and a long give what the table has at each of their *)
(* addresses.                                                              *)
(***************************************************************************)
LEMMA OneByteIs ==
  ASSUME NEW x, NEW b
  PROVE  OneByte(x, b).value = <<x>> /\ OneByte(x, b).bus = b
BY DEF OneByte, Answer

LEMMA WordAtOnceIs ==
  ASSUME NEW x, NEW b
  PROVE  WordAtOnce(x, b).value = x /\ WordAtOnce(x, b).bus = b
BY DEF WordAtOnce, Answer

\* A cell of RAM, of ROM or of the board holds what the history has for it.
LEMMA CellHeld ==
  ASSUME NEW b, NEW known, Agrees(b, known), NEW cell, cell[1] \in RamKind
  PROVE  Stored(b, cell) = Content(known, cell)
<1>1. cell[1] # "rom"  BY DEF RamKind
<1>2. Stored(b, cell) = Kept(known, cell)  BY DEF Agrees, Holds
<1> QED  BY <1>1, <1>2 DEF Content

\* An address with one cell reads what the history has for it.
LEMMA RamRead ==
  ASSUME NEW b, NEW known, Agrees(b, known), NEW a \in Nat,
         ~Covered(known, b.model, a), NEW cell, cell[1] \in RamKind,
         \A p : IsPlace(b.model, known.boardAt, a, p) <=> p = cell
  PROVE  Stored(b, cell) = Expected(known, b.model, a)
<1>1. b.model \in Model /\ known.boardAt \subseteq Bases  BY DEF Agrees, Placed
<1>2. Expected(known, b.model, a) = Content(known, cell)  BY <1>1, ExpectedAt
<1> QED  BY <1>2, CellHeld

ReadsTrueAt(b, known, a) == ReadByte(b, a).value = <<Expected(known, b.model, a)>>

\* Under the overlay the ROM is read.
LEMMA CoveredRead ==
  ASSUME NEW b, NEW known, Agrees(b, known), NEW a \in Nat, Covered(known, b.model, a)
  PROVE  ReadsTrueAt(b, known, a)
<1>1. b.model \in Model /\ b.overlay = known.overlay  BY DEF Agrees
<1>2. Hidden(b, a)  BY <1>1 DEF Hidden, Covered
<1>3. ReadByte(b, a) = OneByte(RomByte(a), b)  BY <1>1, <1>2, ReadByteIs
<1>4. Expected(known, b.model, a) = RomByte(a)  BY SMT DEF Expected, Covered
<1> QED  BY <1>3, <1>4, OneByteIs DEF ReadsTrueAt

\* The areas of RAM and of ROM read true.
LEMMA AreaRead ==
  ASSUME NEW b, NEW known, Agrees(b, known), NEW a \in Nat, ~Covered(known, b.model, a),
         Region(b.model, a) \in {"chip", "fast", "slow", "pcmcia", "romMirror"}
  PROVE  ReadsTrueAt(b, known, a)
<1>1. b.model \in Model /\ b.overlay = known.overlay /\ known.boardAt \subseteq Bases
  BY DEF Agrees, Placed
<1>2. ~Hidden(b, a)  BY <1>1 DEF Hidden, Covered
<1>3. CASE Region(b.model, a) = "chip"
  <2> DEFINE cell == <<"chip", a % b.model.chip>>
  <2>1. \A p : IsPlace(b.model, known.boardAt, a, p) <=> p = cell  BY <1>1, <1>3, PlaceOfRam
  <2>2. cell[1] \in RamKind  BY DEF RamKind
  <2>3. ReadByte(b, a) = OneByte(ChipByte(b, a), b)  BY <1>1, <1>2, <1>3, ReadByteIs
  <2>4. ChipByte(b, a) = Stored(b, cell)  BY SMT DEF ChipByte
  <2> HIDE DEF cell
  <2> QED  BY <2>1, <2>2, <2>3, <2>4, RamRead, OneByteIs DEF ReadsTrueAt
<1>4. CASE Region(b.model, a) = "fast"
  <2> DEFINE cell == <<"fast", a - \h200000>>
  <2>1. \A p : IsPlace(b.model, known.boardAt, a, p) <=> p = cell  BY <1>1, <1>4, PlaceOfRam
  <2>2. cell[1] \in RamKind  BY DEF RamKind
  <2>3. ReadByte(b, a) = OneByte(FastByte(b, a), b)  BY <1>1, <1>2, <1>4, ReadByteIs
  <2>4. FastByte(b, a) = Stored(b, cell)  BY SMT DEF FastByte
  <2> HIDE DEF cell
  <2> QED  BY <2>1, <2>2, <2>3, <2>4, RamRead, OneByteIs DEF ReadsTrueAt
<1>5. CASE Region(b.model, a) = "slow"
  <2> DEFINE cell == <<"slow", a - \hC00000>>
  <2>1. \A p : IsPlace(b.model, known.boardAt, a, p) <=> p = cell  BY <1>1, <1>5, PlaceOfRam
  <2>2. cell[1] \in RamKind  BY DEF RamKind
  <2>3. ReadByte(b, a) = OneByte(SlowByte(b, a), b)  BY <1>1, <1>2, <1>5, ReadByteIs
  <2>4. SlowByte(b, a) = Stored(b, cell)  BY SMT DEF SlowByte
  <2> HIDE DEF cell
  <2> QED  BY <2>1, <2>2, <2>3, <2>4, RamRead, OneByteIs DEF ReadsTrueAt
<1>6. CASE Region(b.model, a) = "romMirror"
  <2> DEFINE cell == <<"rom", (a - \hE00000) % b.model.rom>>
  <2>1. \A p : IsPlace(b.model, known.boardAt, a, p) <=> p = cell  BY <1>1, <1>6, PlaceOfRam
  <2>2. Content(known, cell) = MirrorByte(b, a)  BY DEF Content, MirrorByte
  <2>3. ReadByte(b, a) = OneByte(MirrorByte(b, a), b)  BY <1>1, <1>2, <1>6, ReadByteIs
  <2> HIDE DEF cell
  <2>4. Expected(known, b.model, a) = Content(known, cell)  BY <1>1, <2>1, ExpectedAt
  <2> QED  BY <2>2, <2>3, <2>4, OneByteIs DEF ReadsTrueAt
<1>7. CASE Region(b.model, a) = "pcmcia"
  <2>1. \A p : ~IsPlace(b.model, known.boardAt, a, p)  BY <1>1, <1>7, PlaceOfRam
  <2>2. ~Within(a, \hE80000, \hF00000)
    <3>1. Within(a, \h200000, \hA80000)  BY <1>1, <1>7, RegionAreas
    <3> QED  BY <3>1, SMT DEF Within
  <2>3. ~OpenIdentity(known, a)  BY <2>2, SMT DEF OpenIdentity, Within
  <2>4. ~RegistersOfBoard(known, a)
    <3> SUFFICES ASSUME NEW base \in known.boardAt, Within(a, base, base + \h8000)  PROVE FALSE
      BY DEF RegistersOfBoard
    <3>1. base \in Nat /\ base >= \hE90000 /\ base <= \hEF0000  BY <1>1, BaseRange
    <3> QED  BY <2>2, <3>1, SMT DEF Within
  <2>5. Expected(known, b.model, a) = 255  BY <1>1, <2>1, <2>3, <2>4, ExpectedElsewhere
  <2>6. ReadByte(b, a) = OneByte(255, b)  BY <1>1, <1>2, <1>7, ReadByteIs
  <2> QED  BY <2>5, <2>6, OneByteIs DEF ReadsTrueAt
<1> QED  BY <1>3, <1>4, <1>5, <1>6, <1>7

\* The registers of a CIA but port A and ICR read what was written to them.
CiaHeld(known, a) == Kept(known, CiaPlace(a))

\* A CIA register reads what was written to it, port A and ICR aside.
LEMMA CiaExpected ==
  ASSUME NEW b, NEW known, Agrees(b, known), NEW a \in Nat, CellByte(a), InCia(a)
  PROVE  Expected(known, b.model, a) = CiaHeld(known, a)
<1>1. b.model \in Model /\ b.overlay = known.overlay /\ known.boardAt \subseteq Bases
  BY DEF Agrees, Placed
<1>2. ~Covered(known, b.model, a)
  <2>1. Within(a, \hBFD000, \hBFF000)  BY CiaCell
  <2>2. b.model.rom \in {\h40000, \h80000}  BY <1>1, Sizes
  <2> QED  BY <2>1, <2>2, SMT DEF Covered, Within
<1>3. \A p : IsPlace(b.model, known.boardAt, a, p) <=> p = CiaPlace(a)  BY <1>1, PlaceOfCia
<1>4. Expected(known, b.model, a) = Content(known, CiaPlace(a))  BY <1>1, <1>2, <1>3, ExpectedAt
<1>5. CiaPlace(a)[1] # "rom"  BY SMT DEF CiaPlace
<1> QED  BY <1>4, <1>5 DEF Content, CiaHeld

LEMMA CiaRegisterRead ==
  ASSUME NEW b, NEW known, Agrees(b, known), NEW r \in (0 .. 15) \ {ICR}
  PROVE  /\ r # 0 => ReadCiaA(b, r).value = <<Kept(known, <<"ciaA", r>>)>>
         /\ ReadCiaB(b, r).value = <<Kept(known, <<"ciaB", r>>)>>
<1>1. b.ciaA[r] = Kept(known, <<"ciaA", r>>) /\ b.ciaB[r] = Kept(known, <<"ciaB", r>>)
  BY DEF Agrees, Holds
<1>2. r # 0 => ReadCiaA(b, r).value = <<b.ciaA[r]>>  BY DEF ReadCiaA, Answer
<1>3. ReadCiaB(b, r).value = <<b.ciaB[r]>>  BY DEF ReadCiaB, Answer
<1> QED  BY <1>1, <1>2, <1>3

LEMMA CiaByteRead ==
  ASSUME NEW b, NEW known, Agrees(b, known), NEW a \in Nat, CellByte(a), InCia(a), ~PortOfA(a)
  PROVE  ReadCiaByte(b, a).value = <<Expected(known, b.model, a)>>
<1>1. /\ CiaRegister(a) \in (0 .. 15) \ {ICR}
      /\ a % 2 = 1 => a >= \hBFE001 /\ CiaRegister(a) # 0
  <2>1. CiaRegister(a) \in (0 .. 15) \ {ICR}  BY CiaCell
  <2>2. ASSUME a % 2 = 1  PROVE a >= \hBFE001 /\ CiaRegister(a) # 0
    <3>1. Within(a, \hBFE000, \hBFF000) /\ a \div 256 = \hBFE0 + CiaRegister(a)  BY <2>2, CiaCell
    <3>2. a >= \hBFE001  BY <2>2, <3>1, SMT DEF Within
    <3>3. CiaRegister(a) # 0  BY <2>1, <3>1, SMT DEF PortOfA
    <3> QED  BY <3>2, <3>3
  <2> QED  BY <2>1, <2>2
<1>2. CASE a % 2 = 1
  <2>1. CiaPlace(a) = <<"ciaA", CiaRegister(a)>>  BY <1>2 DEF CiaPlace
  <2>2. ReadCiaByte(b, a) = ReadCiaA(b, CiaRegister(a))  BY <1>1, <1>2, SMT DEF ReadCiaByte
  <2>3. CiaRegister(a) \in (0 .. 15) \ {ICR} /\ CiaRegister(a) # 0  BY <1>1, <1>2, SMT
  <2>4. ReadCiaA(b, CiaRegister(a)).value = <<Kept(known, CiaPlace(a))>>
    BY <2>1, <2>3, CiaRegisterRead, ZenonT(30)
  <2>5. Expected(known, b.model, a) = Kept(known, CiaPlace(a))  BY CiaExpected DEF CiaHeld
  <2> QED  BY <2>2, <2>4, <2>5
<1>3. CASE a % 2 = 0
  <2>1. CiaPlace(a) = <<"ciaB", CiaRegister(a)>>  BY <1>3, SMT DEF CiaPlace
  <2>2. ReadCiaByte(b, a) = ReadCiaB(b, CiaRegister(a))  BY <1>3, SMT DEF ReadCiaByte
  <2>3. CiaRegister(a) \in (0 .. 15) \ {ICR}  BY <1>1, SMT
  <2>4. ReadCiaB(b, CiaRegister(a)).value = <<Kept(known, CiaPlace(a))>>
    BY <2>1, <2>3, CiaRegisterRead, ZenonT(30)
  <2>5. Expected(known, b.model, a) = Kept(known, CiaPlace(a))  BY CiaExpected DEF CiaHeld
  <2> QED  BY <2>2, <2>4, <2>5
<1> QED  BY <1>2, <1>3, SMT

\* Outside the regions: the board's identity, its RAM, and the ROM at the top.
LEMMA WindowRead ==
  ASSUME NEW b, NEW known, Agrees(b, known), NEW a \in Nat, Within(a, \hE80000, \hE90001),
         known.unplaced
  PROVE  ReadAutoconfig(a - \hE80000) = Expected(known, b.model, a)
<1>1. b.model \in Model /\ known.boardAt \subseteq Bases  BY DEF Agrees, Placed
<1>2. Region(b.model, a) = "free"
  <2>1. Within(a, \hE80000, \h1000000)  BY SMT DEF Within
  <2> QED  BY <1>1, <2>1, RegionAreas
<1>3. b.model.rom \in {\h40000, \h80000}  BY <1>1, Sizes
<1>4. known.boardAt = {}
  <2>1. \A base \in known.boardAt : ~known.unplaced  BY BoardIs
  <2> QED  BY <2>1
<1>5. ~Within(a, RomStart(b.model), \h1000000)  BY <1>3, SMT DEF RomStart, Within
<1>6. \A p : ~IsPlace(b.model, known.boardAt, a, p)  BY <1>1, <1>2, <1>4, <1>5, PlaceOfFree
<1>7. ~Covered(known, b.model, a)  BY <1>3, SMT DEF Covered, Within
<1>8. ~RegistersOfBoard(known, a)  BY <1>4 DEF RegistersOfBoard
<1>9. OpenIdentity(known, a) <=> a % 2 = 0 /\ Within(a, \hE80000, \hE80030)  BY SMT DEF OpenIdentity
<1> QED  BY <1>1, <1>6, <1>7, <1>8, <1>9, ExpectedElsewhere, IdentityIs, SMT

\* Addresses within the board's 64 KB: registers below, buffer above.
LEMMA BoardAddress ==
  ASSUME NEW base, base \in Nat, base >= \hE90000, base <= \hEF0000,
         NEW a \in Nat, Within(a, base, base + \h10000)
  PROVE  /\ a - base \in Nat /\ Within(a, \hE80000, \h1000000) /\ a < \hF00000
         /\ a - base >= \h8000 =>
              /\ Within(a, base + \h8000, base + \h10000) /\ ~Within(a, base, base + \h8000)
              /\ (a - base) % \h8000 = a - (base + \h8000)
         /\ ~(a - base >= \h8000) =>
              Within(a, base, base + \h8000) /\ ~Within(a, base + \h8000, base + \h10000)
BY SMT DEF Within

\* A byte of the board reads true.
LEMMA BoardByteRead ==
  ASSUME NEW b, NEW known, Agrees(b, known), NEW a \in Nat, NEW base \in known.boardAt,
         Within(a, base, base + \h10000)
  PROVE  ReadBoardByte(b, a - base) = Expected(known, b.model, a)
<1>1. b.model \in Model /\ known.boardAt \subseteq Bases  BY DEF Agrees, Placed
<1>2. base \in Nat /\ base >= \hE90000 /\ base <= \hEF0000  BY <1>1, BaseRange
<1>3. known.boardAt = {base}  BY <1>1 DEF Agrees, Placed
<1>4. ~known.unplaced  BY BoardIs
<1>5. Region(b.model, a) = "free"
  <2>1. Within(a, \hE80000, \h1000000)  BY <1>2, SMT DEF Within
  <2> QED  BY <1>1, <2>1, RegionAreas
<1>6. b.model.rom \in {\h40000, \h80000}  BY <1>1, Sizes
<1>7. ~Within(a, RomStart(b.model), \h1000000) /\ ~Covered(known, b.model, a)
  <2>1. Within(a, \hE80000, \h1000000) /\ a < \hF00000  BY <1>2, BoardAddress
  <2> QED  BY <1>6, <2>1, SMT DEF RomStart, Within, Covered
<1>8. ~OpenIdentity(known, a)  BY <1>4, SMT DEF OpenIdentity
<1>9. CASE a - base >= \h8000
  <2> DEFINE cell == <<"board", a - (base + \h8000)>>
  <2>1. \A p : IsPlace(b.model, known.boardAt, a, p) <=> p = cell
    <3> TAKE p
    <3>1. Within(a, base + \h8000, base + \h10000)  BY <1>2, <1>9, BoardAddress
    <3>2. IsPlace(b.model, known.boardAt, a, p) <=>
            \E x \in known.boardAt : /\ Within(a, x + \h8000, x + \h10000)
                                     /\ p = <<"board", a - (x + \h8000)>>
      BY <1>1, <1>5, <1>7, PlaceOfFree, SMT
    <3> QED  BY <1>3, <3>1, <3>2, SMT
  <2>2. cell[1] \in RamKind  BY DEF RamKind
  <2>3. ReadBoardByte(b, a - base) = Stored(b, cell)
    <3>1. (a - base) % \h8000 = a - (base + \h8000)
      <4> DEFINE o == a - base
      <4>1. o \in Int /\ o >= \h8000 /\ o < \h10000 /\ a - (base + \h8000) = o - \h8000
        BY <1>2, <1>9, SMTT(30) DEF Within
      <4> HIDE DEF o
      <4>2. o % \h8000 = o - \h8000  BY <4>1, SMTT(30)
      <4> QED  BY <4>1, <4>2 DEF o
    <3> QED  BY <1>9, <3>1, SMT DEF ReadBoardByte
  <2> HIDE DEF cell
  <2> QED  BY <1>7, <2>1, <2>2, <2>3, RamRead
<1>10. CASE ~(a - base >= \h8000)
  <2>1. Within(a, base, base + \h8000) /\ ~Within(a, base + \h8000, base + \h10000)
    BY <1>2, <1>10, SMTT(30) DEF Within
  <2>2. \A p : ~IsPlace(b.model, known.boardAt, a, p)
    BY <1>1, <1>3, <1>5, <1>7, <2>1, PlaceOfFree, SMT
  <2>3. RegistersOfBoard(known, a)  BY <2>1, SMT DEF RegistersOfBoard
  <2>4. Expected(known, b.model, a) = 0
    BY <1>1, <1>7, <1>8, <2>2, <2>3, ExpectedElsewhere
  <2> QED  BY <1>10, <2>4, SMT DEF ReadBoardByte
<1> QED  BY <1>9, <1>10

\* A byte that nothing answers, or that the ROM answers, reads true.
LEMMA TopRead ==
  ASSUME NEW b, NEW known, Agrees(b, known), NEW a \in Nat, ~Covered(known, b.model, a),
         Region(b.model, a) = "free", ~BoardTakes(b, a)
  PROVE  TopByte(b, a) = Expected(known, b.model, a)
<1>1. b.model \in Model /\ known.boardAt \subseteq Bases  BY DEF Agrees, Placed
<1>2. \A base \in known.boardAt : ~Within(a, base, base + \h10000)  BY BoardIs
<1>3. ~(known.unplaced /\ Within(a, \hE80000, \hE90000))  BY BoardIs
<1>4. b.model.rom \in {\h40000, \h80000}  BY <1>1, Sizes
<1>5. RomBase(b.model) = RomStart(b.model) /\ RomStart(b.model) \in Nat
  BY <1>4, SMT DEF RomBase, RomStart
<1>6. \A base \in known.boardAt : /\ ~Within(a, base + \h8000, base + \h10000)
                                  /\ ~Within(a, base, base + \h8000)
  <2> TAKE base \in known.boardAt
  <2>1. base \in Nat  BY <1>1, BaseRange
  <2>2. ~Within(a, base, base + \h10000)  BY <1>2
  <2> QED  BY <2>1, <2>2, SMT DEF Within
<1>7. CASE Within(a, RomStart(b.model), \h1000000)
  <2> DEFINE cell == <<"rom", a - RomStart(b.model)>>
  <2>1. \A p : IsPlace(b.model, known.boardAt, a, p) <=> p = cell
    BY <1>1, <1>6, <1>7, PlaceOfFree, SMT
  <2>2. Content(known, cell) = RomByte(a - RomStart(b.model))  BY DEF Content
  <2>3. a - RomStart(b.model) < b.model.rom  BY <1>4, <1>7, SMT DEF RomStart, Within
  <2>4. TopByte(b, a) = RomByte(a - RomStart(b.model))  BY <1>5, <1>7, <2>3, SMT DEF TopByte
  <2> HIDE DEF cell
  <2> QED  BY <1>1, <2>1, <2>2, <2>4, ExpectedAt
<1>8. CASE ~Within(a, RomStart(b.model), \h1000000)
  <2>1. \A p : ~IsPlace(b.model, known.boardAt, a, p)  BY <1>1, <1>6, <1>8, PlaceOfFree, SMT
  <2>2. ~OpenIdentity(known, a)  BY <1>3, SMT DEF OpenIdentity, Within
  <2>3. ~RegistersOfBoard(known, a)  BY <1>6, SMT DEF RegistersOfBoard
  <2>4. Expected(known, b.model, a) = 255  BY <1>1, <2>1, <2>2, <2>3, ExpectedElsewhere
  <2> QED  BY <1>5, <1>8, <2>4, SMT DEF TopByte
<1> QED  BY <1>7, <1>8

LEMMA FreeRead ==
  ASSUME NEW b, NEW known, Agrees(b, known), NEW a \in Nat, ~Covered(known, b.model, a),
         Region(b.model, a) = "free"
  PROVE  ReadsTrueAt(b, known, a)
<1>1. b.model \in Model /\ b.overlay = known.overlay  BY DEF Agrees
<1>2. ~Hidden(b, a)  BY <1>1 DEF Hidden, Covered
<1>3. ReadByte(b, a) = OneByte(FreeByte(b, a), b)  BY <1>1, <1>2, ReadByteIs
<1>4. CASE InWindow(b.board, a)
  <2>1. known.unplaced /\ Within(a, \hE80000, \hE90000) /\ BoardTakes(b, a)  BY <1>4, BoardIs
  <2>2. FreeByte(b, a) = ReadAutoconfig(a - \hE80000)
    BY <1>4, <2>1, SMT DEF FreeByte, BoardReadByte
  <2>3. Within(a, \hE80000, \hE90001)  BY <2>1, SMT DEF Within
  <2>4. FreeByte(b, a) = Expected(known, b.model, a)  BY <2>1, <2>2, <2>3, WindowRead
  <2> QED  BY <1>3, <2>4, OneByteIs DEF ReadsTrueAt
<1>5. CASE ~InWindow(b.board, a) /\ \E base \in known.boardAt : Within(a, base, base + \h10000)
  <2>1. PICK base \in known.boardAt : Within(a, base, base + \h10000)  BY <1>5
  <2>2. BoardTakes(b, a) /\ BoardOffset(b.board, a) = a - base  BY <2>1, BoardIs
  <2>3. FreeByte(b, a) = ReadBoardByte(b, a - base)
    BY <1>5, <2>2, SMT DEF FreeByte, BoardReadByte
  <2>4. FreeByte(b, a) = Expected(known, b.model, a)  BY <2>1, <2>3, BoardByteRead
  <2> QED  BY <1>3, <2>4, OneByteIs DEF ReadsTrueAt
<1>6. CASE ~BoardTakes(b, a)
  <2>1. FreeByte(b, a) = TopByte(b, a)  BY <1>6 DEF FreeByte
  <2> QED  BY <1>3, <1>6, <2>1, TopRead, OneByteIs DEF ReadsTrueAt
<1> QED  BY <1>4, <1>5, <1>6, BoardIs

\* A byte anywhere but in port A of CIA A reads true.
LEMMA ByteReads ==
  ASSUME NEW b, NEW known, Agrees(b, known), NEW a \in Nat, CellByte(a), ~PortOfA(a)
  PROVE  ReadsTrueAt(b, known, a)
<1>1. b.model \in Model /\ b.overlay = known.overlay  BY DEF Agrees
<1>2. CASE Covered(known, b.model, a)  BY <1>2, CoveredRead
<1>3. CASE ~Covered(known, b.model, a) /\ InCia(a)
  <2>1. ~Hidden(b, a)  BY <1>1, <1>3 DEF Hidden, Covered
  <2>2. Region(b.model, a) = "cia"  BY <1>3, Regions
  <2>3. ReadByte(b, a) = ReadCiaByte(b, a)  BY <1>1, <2>1, <2>2, ReadByteIs
  <2> QED  BY <1>3, <2>3, CiaByteRead DEF ReadsTrueAt
<1>4. CASE ~Covered(known, b.model, a) /\ ~InCia(a)
  <2>1. ~Within(a, \hD80000, \hDF0000) /\ ~Within(a, \hDFF000, \hE00000)  BY DEF CellByte
  <2>2. Region(b.model, a) \in {"chip", "fast", "pcmcia", "free", "slow", "romMirror"}
    BY <1>4, <2>1, Regions
  <2> QED  BY <1>4, <2>2, AreaRead, FreeRead
<1> QED  BY <1>2, <1>3, <1>4

(***************************************************************************)
(* A word                                                                  *)
(***************************************************************************)
WordTrueAt(b, known, a, word) ==
  word = <<Expected(known, b.model, a), Expected(known, b.model, a + 1)>>

\* Two bytes that read true make a word that does.
LEMMA PairTrue ==
  ASSUME NEW b, NEW known, NEW a, NEW x, NEW y,
         x = Expected(known, b.model, a), y = Expected(known, b.model, a + 1)
  PROVE  WordTrueAt(b, known, a, <<x, y>>)
BY DEF WordTrueAt

LEMMA BytesRead ==
  ASSUME NEW b, NEW known, Agrees(b, known), NEW a \in Nat,
         CellByte(a), CellByte(a + 1), ~PortOfA(a), ~PortOfA(a + 1)
  PROVE  WordTrueAt(b, known, a, ReadsBytes(b, a).value)
<1>1. IsBus(b) /\ b.model \in Model  BY DEF Agrees
<1>2. PICK high : high = ReadByte(b, a)  OBVIOUS
<1>3. Same(b, high.bus)  BY <1>1, <1>2, ReadByteKeeps
<1>4. Agrees(high.bus, known) /\ high.bus.model = b.model
  <2>1. SameMemory(b, high.bus)  BY <1>3 DEF Same
  <2> QED  BY <2>1, AgreesSame DEF SameMemory
<1>5. a + 1 \in Nat  BY SMT
<1>6. PICK low : low = ReadByte(high.bus, a + 1)  OBVIOUS
<1>7. high.value = <<Expected(known, b.model, a)>>  BY <1>2, ByteReads DEF ReadsTrueAt
<1>8. low.value = <<Expected(known, b.model, a + 1)>>
  BY <1>4, <1>5, <1>6, ByteReads DEF ReadsTrueAt
<1>9. ReadsBytes(b, a).value = <<high.value[1], low.value[1]>>
  <2>1. ReadsBytes(b, a) = Joined(high, low)  BY <1>2, <1>6 DEF ReadsBytes, ThenByte
  <2>2. Len(high.value) = 1  BY <1>7
  <2> QED  BY <2>1, <2>2 DEF Joined, Answer
<1> QED  BY <1>7, <1>8, <1>9, PairTrue

\* A word of the CIAs: its pages, one chip answering and the other byte high.
LEMMA CiaOpenExpected ==
  ASSUME NEW b, NEW known, Agrees(b, known), NEW a \in Nat, Within(a, \hBFD000, \hBFF000),
         a % 2 = 1 => a < \hBFE000, a % 2 = 0 => a >= \hBFE000
  PROVE  Expected(known, b.model, a) = 255
<1>1. b.model \in Model /\ known.boardAt \subseteq Bases  BY DEF Agrees, Placed
<1>2. b.model.rom \in {\h40000, \h80000}  BY <1>1, Sizes
<1>3. ~Covered(known, b.model, a) /\ ~OpenIdentity(known, a)
  BY <1>2, SMT DEF Covered, Within, OpenIdentity
<1>4. ~RegistersOfBoard(known, a)
  <2> SUFFICES ASSUME NEW base \in known.boardAt, Within(a, base, base + \h8000)  PROVE FALSE
    BY DEF RegistersOfBoard
  <2>1. base \in Nat /\ base >= \hE90000  BY <1>1, BaseRange
  <2> QED  BY <2>1, SMT DEF Within
<1>5. \A p : ~IsPlace(b.model, known.boardAt, a, p)  BY <1>1, PlaceOfPage, SMT
<1> QED  BY <1>1, <1>3, <1>4, <1>5, ExpectedElsewhere

AHeld(known, r) == Kept(known, <<"ciaA", r>>)
BHeld(known, r) == Kept(known, <<"ciaB", r>>)

\* What the history expects on the CIA page, by parity and half.
LEMMA CiaPageExpected ==
  ASSUME NEW b, NEW known, Agrees(b, known), NEW a \in Nat, Within(a, \hBFD000, \hBFF000)
  PROVE  /\ a % 2 = 1 /\ a >= \hBFE000 =>
              Expected(known, b.model, a) = AHeld(known, CiaRegister(a))
         /\ a % 2 = 0 /\ a < \hBFE000 =>
              Expected(known, b.model, a) = BHeld(known, CiaRegister(a))
<1>1. b.model \in Model /\ known.boardAt \subseteq Bases  BY DEF Agrees, Placed
<1>2. b.model.rom \in {\h40000, \h80000}  BY <1>1, Sizes
<1>3. ~Covered(known, b.model, a)  BY <1>2, SMT DEF Covered, Within
<1>4. ASSUME a % 2 = 1, a >= \hBFE000
      PROVE  Expected(known, b.model, a) = AHeld(known, CiaRegister(a))
  <2> DEFINE cell == <<"ciaA", CiaRegister(a)>>
  <2>1. \A p : IsPlace(b.model, known.boardAt, a, p) <=> p = cell
    BY <1>1, <1>4, PlaceOfPage, SMT
  <2>2. cell[1] # "rom"  OBVIOUS
  <2> HIDE DEF cell
  <2>3. Expected(known, b.model, a) = Content(known, cell)  BY <1>1, <1>3, <2>1, ExpectedAt
  <2>4. Expected(known, b.model, a) = Kept(known, cell)  BY <2>2, <2>3 DEF Content
  <2> QED  BY <2>4 DEF cell, AHeld
<1>5. ASSUME a % 2 = 0, a < \hBFE000
      PROVE  Expected(known, b.model, a) = BHeld(known, CiaRegister(a))
  <2> DEFINE cell == <<"ciaB", CiaRegister(a)>>
  <2>1. \A p : IsPlace(b.model, known.boardAt, a, p) <=> p = cell
    BY <1>1, <1>5, PlaceOfPage, SMT
  <2>2. cell[1] # "rom"  OBVIOUS
  <2> HIDE DEF cell
  <2>3. Expected(known, b.model, a) = Content(known, cell)  BY <1>1, <1>3, <2>1, ExpectedAt
  <2>4. Expected(known, b.model, a) = Kept(known, cell)  BY <2>2, <2>3 DEF Content
  <2> QED  BY <2>4 DEF cell, BHeld
<1> QED  BY <1>4, <1>5

\* The two bytes of the word, before it is put in order.
CiaPair(x, y) == <<x, y>>

\* What a word read of the CIA page is, by the CIAs it selects.
LEMMA CiaWordIs ==
  ASSUME NEW b, NEW a, NEW r, r = CiaRegister(a)
  PROVE  /\ ReadsB(b.model, a) /\ ~ReadsA(b.model, a) =>
              ReadCiaWord(b, a).value = Swapped(a, CiaPair(ReadCiaB(b, r).value[1], 255))
         /\ ReadsA(b.model, a) /\ ~ReadsB(b.model, a) =>
              ReadCiaWord(b, a).value = Swapped(a, CiaPair(255, ReadCiaA(b, r).value[1]))
<1>1. ASSUME ReadsB(b.model, a), ~ReadsA(b.model, a)
      PROVE  ReadCiaWord(b, a).value = Swapped(a, CiaPair(ReadCiaB(b, r).value[1], 255))
  <2>1. PICK high : high = ReadCiaB(b, r)  OBVIOUS
  <2>2. CiaHigh(b, a) = high  BY <1>1, <2>1 DEF CiaHigh
  <2>3. high.bus.model = b.model /\ Len(high.value) = 1
    <3>1. high = [value |-> <<b.ciaB[r]>>, bus |-> [b EXCEPT !.ciaB = ReadChip(@, r)]]
      BY <2>1 DEF ReadCiaB, Answer
    <3>2. high.bus = [b EXCEPT !.ciaB = ReadChip(@, r)]  BY <3>1
    <3>3. high.bus.model = b.model  BY <3>2
    <3>4. high.value = <<b.ciaB[r]>>  BY <3>1
    <3> QED  BY <3>3, <3>4
  <2>4. CiaLow(high.bus, a) = Answer(<<255>>, high.bus)  BY <1>1, <2>3 DEF CiaLow
  <2>5. Joined(high, Answer(<<255>>, high.bus)).value = CiaPair(high.value[1], 255)
    BY <2>3 DEF Joined, Answer, CiaPair
  <2>6. ReadCiaWord(b, a).value = Swapped(a, ThenCiaLow(high, a).value)
    BY <2>2 DEF ReadCiaWord, InOrder, Answer
  <2> QED  BY <2>1, <2>4, <2>5, <2>6 DEF ThenCiaLow
<1>2. ASSUME ReadsA(b.model, a), ~ReadsB(b.model, a)
      PROVE  ReadCiaWord(b, a).value = Swapped(a, CiaPair(255, ReadCiaA(b, r).value[1]))
  <2>1. PICK high : high = Answer(<<255>>, b)  OBVIOUS
  <2>2. CiaHigh(b, a) = high  BY <1>2, <2>1 DEF CiaHigh
  <2>3. high.value = <<255>> /\ high.bus = b  BY <2>1 DEF Answer
  <2>4. CiaLow(high.bus, a) = ReadCiaA(b, r)  BY <1>2, <2>3 DEF CiaLow
  <2>5. Joined(high, ReadCiaA(b, r)).value = CiaPair(255, ReadCiaA(b, r).value[1])
    BY <2>3 DEF Joined, Answer, CiaPair
  <2>6. ReadCiaWord(b, a).value = Swapped(a, ThenCiaLow(high, a).value)
    BY <2>2 DEF ReadCiaWord, InOrder, Answer
  <2> QED  BY <2>4, <2>5, <2>6 DEF ThenCiaLow
<1> QED  BY <1>1, <1>2

\* A word of the CIA page reads true.
LEMMA CiaWordRead ==
  ASSUME NEW b, NEW known, Agrees(b, known), NEW a \in Nat, CellWord(a), InCia(a),
         ~PortOfA(a), ~PortOfA(a + 1)
  PROVE  WordTrueAt(b, known, a, ReadCiaWord(b, a).value)
<1> DEFINE r == CiaRegister(a)
<1>1. a \div \h1000 \in {\hBFD, \hBFE} /\ r # ICR /\ a % 256 # 255  BY SMT DEF CellWord
<1>2. Within(a, \hBFD000, \hBFF000) /\ Within(a + 1, \hBFD000, \hBFF000)  BY <1>1, SMT DEF Within
<1>3. CiaRegister(a + 1) = r
  <2>1. (a + 1) \div 256 = a \div 256  BY <1>1, SMT
  <2> QED  BY <2>1 DEF CiaRegister
<1>4. r \in (0 .. 15) \ {ICR}  BY <1>1, SMT DEF CiaRegister
<1>5. a + 1 \in Nat  OBVIOUS
<1>6. (a % 2 = 0 /\ (a + 1) % 2 = 1) \/ (a % 2 = 1 /\ (a + 1) % 2 = 0)  BY SMT
<1>7. CASE a \div \h1000 = \hBFD
  <2>1. a < \hBFE000 /\ a + 1 < \hBFE000  BY <1>1, <1>7, SMT
  <2>2. ReadsB(b.model, a) /\ ~ReadsA(b.model, a)
    <3>1. ChipSelect(a) = 1  BY <1>7, SMT DEF ChipSelect
    <3> QED  BY <3>1, SMT DEF ReadsA, ReadsB
  <2>3. ReadCiaB(b, r).value[1] = BHeld(known, r)
    <3> HIDE DEF r
    <3>1. ReadCiaB(b, r).value = <<BHeld(known, r)>>  BY <1>4, CiaRegisterRead, ZenonT(30) DEF BHeld, AHeld
    <3> QED  BY <3>1
  <2>4. ReadCiaWord(b, a).value = Swapped(a, CiaPair(BHeld(known, r), 255))
    BY <2>2, <2>3, CiaWordIs
  <2>5. CASE a % 2 = 0
    <3>1. Expected(known, b.model, a) = BHeld(known, r)
      BY <1>2, <2>1, <2>5, CiaPageExpected, SMT
    <3>2. (a + 1) % 2 = 1  BY <1>6, <2>5, SMT
    <3>3. Expected(known, b.model, a + 1) = 255  BY <1>2, <1>5, <2>1, <3>2, CiaOpenExpected, SMT
    <3>4. ReadCiaWord(b, a).value = <<BHeld(known, r), 255>>
      BY <2>4, <2>5 DEF Swapped, CiaPair
    <3> QED  BY <3>1, <3>3, <3>4, PairTrue
  <2>6. CASE a % 2 = 1
    <3>1. (a + 1) % 2 = 0  BY <1>6, <2>6, SMT
    <3>2. Expected(known, b.model, a + 1) = BHeld(known, r)
      BY <1>2, <1>3, <1>5, <2>1, <3>1, CiaPageExpected, SMT
    <3>3. Expected(known, b.model, a) = 255  BY <1>2, <2>1, <2>6, CiaOpenExpected, SMT
    <3>4. ReadCiaWord(b, a).value = <<255, BHeld(known, r)>>
      BY <2>4, <2>6, SMT DEF Swapped, CiaPair
    <3> QED  BY <3>2, <3>3, <3>4, PairTrue
  <2> QED  BY <1>6, <2>5, <2>6
<1>8. CASE a \div \h1000 = \hBFE
  <2>1. a >= \hBFE000 /\ a + 1 >= \hBFE000  BY <1>8, SMT
  <2>2. ReadsA(b.model, a) /\ ~ReadsB(b.model, a)
    <3>1. ChipSelect(a) = 2  BY <1>8, SMT DEF ChipSelect
    <3> QED  BY <3>1, SMT DEF ReadsA, ReadsB
  <2>3. ReadCiaA(b, r).value[1] = AHeld(known, r)
    <3>1. r # 0  BY <1>8, SMT DEF PortOfA, CiaRegister
    <3> HIDE DEF r
    <3>2. ReadCiaA(b, r).value = <<AHeld(known, r)>>  BY <1>4, <3>1, CiaRegisterRead, ZenonT(30) DEF BHeld, AHeld
    <3> QED  BY <3>2
  <2>4. ReadCiaWord(b, a).value = Swapped(a, CiaPair(255, AHeld(known, r)))
    BY <2>2, <2>3, CiaWordIs
  <2>5. CASE a % 2 = 0
    <3>1. (a + 1) % 2 = 1  BY <1>6, <2>5, SMT
    <3>2. Expected(known, b.model, a + 1) = AHeld(known, r)
      BY <1>2, <1>3, <1>5, <2>1, <3>1, CiaPageExpected, SMT
    <3>3. Expected(known, b.model, a) = 255  BY <1>2, <2>1, <2>5, CiaOpenExpected, SMT
    <3>4. ReadCiaWord(b, a).value = <<255, AHeld(known, r)>>
      BY <2>4, <2>5 DEF Swapped, CiaPair
    <3> QED  BY <3>2, <3>3, <3>4, PairTrue
  <2>6. CASE a % 2 = 1
    <3>1. Expected(known, b.model, a) = AHeld(known, r)
      BY <1>2, <2>1, <2>6, CiaPageExpected, SMT
    <3>2. (a + 1) % 2 = 0  BY <1>6, <2>6, SMT
    <3>3. Expected(known, b.model, a + 1) = 255  BY <1>2, <1>5, <2>1, <3>2, CiaOpenExpected, SMT
    <3>4. ReadCiaWord(b, a).value = <<AHeld(known, r), 255>>
      BY <2>4, <2>6, SMT DEF Swapped, CiaPair
    <3> QED  BY <3>1, <3>3, <3>4, PairTrue
  <2> QED  BY <1>6, <2>5, <2>6
<1> QED  BY <1>1, <1>7, <1>8

\* A word of the board reads true.
LEMMA BoardWordRead ==
  ASSUME NEW b, NEW known, Agrees(b, known), NEW a \in Nat, BoardTakes(b, a),
         CellByte(a), \A base \in Bases : a # base + \hFFFF
  PROVE  WordTrueAt(b, known, a, BoardReadWord(b, a))
<1>1. b.model \in Model /\ known.boardAt \subseteq Bases  BY DEF Agrees, Placed
<1>2. a + 1 \in Nat  OBVIOUS
<1>3. CASE InWindow(b.board, a)
  <2>1. known.unplaced /\ Within(a, \hE80000, \hE90000)  BY <1>3, BoardIs
  <2>2. Within(a, \hE80000, \hE90001) /\ Within(a + 1, \hE80000, \hE90001)
    BY <2>1, SMT DEF Within
  <2>3. ReadAutoconfig(a - \hE80000) = Expected(known, b.model, a)  BY <2>1, <2>2, WindowRead
  <2>4. ReadAutoconfig(a + 1 - \hE80000) = Expected(known, b.model, a + 1)
    BY <1>2, <2>1, <2>2, WindowRead
  <2>5. BoardReadWord(b, a) = <<ReadAutoconfig(a - \hE80000), ReadAutoconfig(a + 1 - \hE80000)>>
    <3>1. BoardOffset(b.board, a) = Nowhere
      BY <1>3 DEF InWindow, AutoconfigActive, BoardOffset
    <3> QED  BY <1>3, <3>1, SMT DEF BoardReadWord, Nowhere
  <2> QED  BY <2>3, <2>4, <2>5, SMT DEF WordTrueAt
<1>4. CASE ~InWindow(b.board, a)
  <2>1. PICK base \in known.boardAt : Within(a, base, base + \h10000)  BY <1>4, BoardIs
  <2>2. base \in Bases /\ base \in Nat  BY <1>1, BaseRange
  <2>3. BoardOffset(b.board, a) = a - base  BY <2>1, BoardIs
  <2>4. Within(a + 1, base, base + \h10000)
    <3>1. a # base + \hFFFF  BY <2>2
    <3> QED  BY <2>1, <2>2, <3>1, SMT DEF Within
  <2>5. a - base # \h4000 /\ a - base # \h4002
    <3>1. ~Within(a, base + \h4000, base + \h4004)  BY <2>2, SMT DEF CellByte
    <3> QED  BY <2>2, <3>1, SMT DEF Within
  <2>6. ReadBoardByte(b, a - base) = Expected(known, b.model, a)  BY <2>1, BoardByteRead
  <2>7. ReadBoardByte(b, a + 1 - base) = Expected(known, b.model, a + 1)
    <3>1. PICK x \in Nat : x = a + 1  BY <1>2
    <3>2. Within(x, base, base + \h10000)  BY <2>4, <3>1
    <3>3. ReadBoardByte(b, x - base) = Expected(known, b.model, x)  BY <2>1, <3>2, BoardByteRead
    <3> QED  BY <2>2, <3>1, <3>3, SMT
  <2>8. a + 1 - base = a - base + 1  BY <2>2, SMT
  <2>9. BoardReadWord(b, a) = <<ReadBoardByte(b, a - base), ReadBoardByte(b, a - base + 1)>>
    BY <1>4, <2>3, <2>5, SMT DEF BoardReadWord
  <2> QED  BY <2>6, <2>7, <2>8, <2>9 DEF WordTrueAt
<1> QED  BY <1>3, <1>4

\* A word anywhere but at port A of CIA A reads true.
LEMMA WordReads ==
  ASSUME NEW b, NEW known, Agrees(b, known), NEW a \in Nat, CellWord(a),
         ~PortOfA(a), ~PortOfA(a + 1)
  PROVE  WordTrueAt(b, known, a, ReadWord(b, a).value)
<1>1. CASE InCia(a)
  <2>1. IdeRegister(a) # 0
    <3>1. ~Within(a, \hDA0000, \hDA4000)  BY <1>1, SMT DEF InCia, Within
    <3> QED  BY <3>1, SMT DEF IdeRegister, Nowhere
  <2>2. ReadWord(b, a) = ReadCiaWord(b, a)  BY <1>1, <2>1, ReadWordIs
  <2> QED  BY <1>1, <2>2, CiaWordRead
<1>2. CASE ~InCia(a)
  <2>1. CellByte(a) /\ CellByte(a + 1) /\ \A base \in Bases : a # base + \hFFFF
    BY <1>2, SMT DEF CellWord
  <2>2. ~Within(a, \hD80000, \hDF0000) /\ ~Within(a, \hDFF000, \hE00000)
    BY <2>1, SMT DEF CellByte
  <2>3. IdeRegister(a) # 0
    <3>1. ~Within(a, \hDA0000, \hDA4000)  BY <2>2, SMT DEF Within
    <3> QED  BY <3>1, SMT DEF IdeRegister, Nowhere
  <2>4. CASE BoardTakes(b, a)
    <3>1. ReadWord(b, a) = WordAtOnce(BoardReadWord(b, a), b)  BY <1>2, <2>3, <2>4, ReadWordIs
    <3> QED  BY <2>1, <2>4, <3>1, WordAtOnceIs, BoardWordRead
  <2>5. CASE ~BoardTakes(b, a)
    <3>1. ReadWord(b, a) = ReadsBytes(b, a)  BY <1>2, <2>2, <2>3, <2>5, ReadWordIs
    <3> QED  BY <2>1, <3>1, BytesRead
  <2> QED  BY <2>4, <2>5
<1> QED  BY <1>1, <1>2

\* The table, from an address on.
LEMMA InARow ==
  ASSUME NEW E, NEW a \in Nat, NEW x0, NEW x1, NEW x2, NEW x3,
         x0 = E[a], x1 = E[a + 1], x2 = E[a + 2], x3 = E[a + 3]
  PROVE  /\ <<x0>> = [i \in 1 .. 1 |-> E[a + i - 1]]
         /\ <<x0, x1>> = [i \in 1 .. 2 |-> E[a + i - 1]]
         /\ <<x0, x1, x2, x3>> = [i \in 1 .. 4 |-> E[a + i - 1]]
OBVIOUS

Row(known, model, a, width) == [i \in 1 .. width |-> Expected(known, model, a + i - 1)]

\* A read of any width is what the history expects: ReadsTrue, in one state.
LEMMA ReadIs ==
  ASSUME NEW b, NEW known, Agrees(b, known), NEW a \in Nat, NEW width \in {1, 2, 4},
         Readable(a, width)
  PROVE  Read(b, a, width).value = Row(known, b.model, a, width)
<1> DEFINE E == [x \in Nat |-> Expected(known, b.model, x)]
<1>1. IsBus(b) /\ b.model \in Model  BY DEF Agrees
<1>2. /\ E[a] = Expected(known, b.model, a) /\ E[a + 1] = Expected(known, b.model, a + 1)
      /\ E[a + 2] = Expected(known, b.model, a + 2) /\ E[a + 3] = Expected(known, b.model, a + 3)
  OBVIOUS
<1>3. Row(known, b.model, a, width) = [i \in 1 .. width |-> E[a + i - 1]]
  <2>1. \A i \in 1 .. width : a + i - 1 \in Nat  OBVIOUS
  <2> QED  BY <2>1 DEF Row
<1> HIDE DEF E
<1>4. CASE width = 1
  <2>1. CellByte(a)  BY <1>4 DEF Readable, Cells
  <2>2. ~PortOfA(a)
    <3>1. ~PortOfA(a + 0)  BY <1>4, SMT DEF Readable
    <3> QED  BY <3>1
  <2>3. Read(b, a, width) = ReadByte(b, a)  BY <1>4 DEF Read
  <2>4. Read(b, a, width).value = <<E[a]>>  BY <1>2, <2>1, <2>2, <2>3, ByteReads DEF ReadsTrueAt
  <2> QED  BY <1>3, <1>4, <2>4, InARow
<1>5. CASE width = 2
  <2>1. CellWord(a)  BY <1>5, SMT DEF Readable, Cells
  <2>2. ~PortOfA(a) /\ ~PortOfA(a + 1)
    <3>1. ~PortOfA(a + 0) /\ ~PortOfA(a + 1)  BY <1>5, SMT DEF Readable
    <3> QED  BY <3>1
  <2>3. Read(b, a, width) = ReadWord(b, a)  BY <1>5, SMT DEF Read
  <2>4. Read(b, a, width).value = <<E[a], E[a + 1]>>
    BY <1>2, <2>1, <2>2, <2>3, WordReads DEF WordTrueAt
  <2> QED  BY <1>3, <1>5, <2>4, InARow
<1>6. CASE width = 4
  <2>1. CellWord(a) /\ CellWord(a + 2)  BY <1>6, SMT DEF Readable, Cells
  <2>2. ~PortOfA(a) /\ ~PortOfA(a + 1) /\ ~PortOfA(a + 2) /\ ~PortOfA(a + 3)
    <3>1. ~PortOfA(a + 0) /\ ~PortOfA(a + 1) /\ ~PortOfA(a + 2) /\ ~PortOfA(a + 3)
      BY <1>6, SMT DEF Readable
    <3> QED  BY <3>1
  <2>3. Read(b, a, width) = ThenWord(ReadWord(b, a), a)  BY <1>6, SMT DEF Read
  <2>4. PICK high : high = ReadWord(b, a)  OBVIOUS
  <2>5. high.value = <<E[a], E[a + 1]>>  BY <1>2, <2>1, <2>2, <2>4, WordReads DEF WordTrueAt
  <2>6. Agrees(high.bus, known) /\ high.bus.model = b.model
    <3>1. SameMemory(b, high.bus)  BY <1>1, <2>4, ReadWordKeeps DEF Same
    <3> QED  BY <3>1, AgreesSame DEF SameMemory
  <2>7. PICK low : low = ReadWord(high.bus, a + 2)  OBVIOUS
  <2>8. low.value = <<E[a + 2], E[a + 3]>>
    <3>1. a + 2 \in Nat /\ (a + 2) + 1 = a + 3  BY SMT
    <3>2. WordTrueAt(high.bus, known, a + 2, low.value)
      BY <2>1, <2>2, <2>6, <2>7, <3>1, WordReads
    <3> QED  BY <1>2, <2>6, <3>1, <3>2 DEF WordTrueAt
  <2>9. Read(b, a, width).value = <<high.value[1], high.value[2], low.value[1], low.value[2]>>
    <3>1. Read(b, a, width) = Joined(high, low)  BY <2>3, <2>4, <2>7 DEF ThenWord
    <3>2. Len(high.value) # 1  BY <2>5
    <3> QED  BY <3>1, <3>2 DEF Joined, Answer
  <2>10. Read(b, a, width).value = <<E[a], E[a + 1], E[a + 2], E[a + 3]>>  BY <2>5, <2>8, <2>9
  <2> QED  BY <1>3, <1>6, <2>10, InARow
<1> QED  BY <1>4, <1>5, <1>6

(***************************************************************************)
(* The inductive invariant: between two instructions the log is empty, the   *)
(* memory holds what the table says, and the shadows are what they show.     *)
(***************************************************************************)
SetUp(bus, work) == \E setup \in Setups : work = setup.plan /\ bus.model = setup.model

IInv ==
  /\ Ready(machine) /\ Agrees(machine.bus, truth)
  /\ Truthful(machine, truth.adkcon, stale)
  /\ SetUp(machine.bus, plan)

\* What a step has to show of the machine and the history after it.
Good(m, c, known, old) ==
  /\ Ready(c) /\ c.bus.model = m.bus.model /\ Agrees(c.bus, known)
  /\ Truthful(c, known.adkcon, old)

\* A step that leaves the machine good keeps the invariant.
LEMMA GoodStep ==
  ASSUME IInv, Good(machine, machine', truth', stale'), plan' = plan
  PROVE  IInv'
<1>1. SetUp(machine'.bus, plan')  BY DEF IInv, Good, SetUp
<1> QED  BY <1>1 DEF IInv, Good, SetUp

\* What is stored in memory says nothing of ADKCON.
LEMMA LandedAdkcon ==
  ASSUME NEW b, NEW known, Agrees(b, known), NEW a \in Nat, NEW value
  PROVE  Landed(known, b.model, a, value).adkcon = known.adkcon
<1> DEFINE L(k, x, byte) == LandByte(k, b.model, x, byte)
           Keeps(k) == IsKnown(k) /\ k.boardAt \subseteq Bases /\ k.adkcon = known.adkcon
<1>1. b.model \in Model /\ Keeps(known)  BY DEF Agrees, Placed
<1>2. \A k, byte : \A x \in Nat : Keeps(k) => Keeps(L(k, x, byte))
  BY <1>1, LandByteIs
<1>3. a + 1 \in Nat /\ a + 2 \in Nat /\ a + 2 + 1 \in Nat  OBVIOUS
<1> HIDE DEF Keeps, L
<1>4. \A k, word : \A x \in Nat : Keeps(k) => Keeps(L(L(k, x, word[1]), x + 1, word[2]))
  <2> TAKE k, word
  <2> TAKE x \in Nat
  <2>1. x + 1 \in Nat  OBVIOUS
  <2> QED  BY <1>2, <2>1
<1>5. \A k, word, x : LandWord(k, b.model, x, word) = L(L(k, x, word[1]), x + 1, word[2])
  BY DEF LandWord, L
<1>6. Keeps(Landed(known, b.model, a, value))
  <2>1. CASE Len(value) = 1
    <3>1. Landed(known, b.model, a, value) = L(known, a, value[1])  BY <2>1 DEF Landed, L
    <3> QED  BY <1>1, <1>2, <3>1
  <2>2. CASE Len(value) = 2
    <3>1. Landed(known, b.model, a, value) = LandWord(known, b.model, a, value)
      BY <2>2, SMT DEF Landed
    <3> QED  BY <1>1, <1>4, <1>5, <3>1
  <2>3. CASE Len(value) # 1 /\ Len(value) # 2
    <3> DEFINE k == LandWord(known, b.model, a, <<value[1], value[2]>>)
    <3>1. Landed(known, b.model, a, value)
            = LandWord(k, b.model, a + 2, <<value[3], value[4]>>)
      BY <2>3 DEF Landed
    <3>2. Keeps(k)  BY <1>1, <1>4, <1>5
    <3> HIDE DEF k
    <3> QED  BY <1>3, <1>4, <1>5, <3>1, <3>2
  <2> QED  BY <2>1, <2>2, <2>3
<1> QED  BY <1>6 DEF Keeps

\* A quiet step leaves the machine good.
LEMMA QuietGood ==
  ASSUME NEW m, NEW c, NEW known, NEW k, NEW old, Truthful(m, known.adkcon, old), Quiet(m, c),
         c.bus.model = m.bus.model, Agrees(c.bus, k), k.adkcon = known.adkcon
  PROVE  Good(m, c, k, old)
BY QuietTruthful DEF Good, Quiet

\* A storable address is a number.
LEMMA StorableAt ==
  ASSUME NEW a, NEW width \in {1, 2, 4}, Storable(a, width)
  PROVE  a \in Nat
<1>1. Cells(a, width)  BY DEF Storable
<1>2. CellByte(a) \/ CellWord(a)  BY <1>1, SMT DEF Cells
<1> QED  BY <1>2, SMT DEF CellByte, CellWord

\* The guest stores a byte, a word or a long.
LEMMA StoreStep ==
  ASSUME IInv, GuestStores
  PROVE  IInv'
<1>1. PICK access \in Program(machine.bus.model) : 
        /\ access.width > 0
        /\ LET value == IF access.value # <<>> THEN access.value
                        ELSE [i \in 1 .. access.width |-> (16 * steps + i) % 256]
           IN  /\ machine' = Executed(machine, [at |-> access.at, width |-> access.width,
                                                value |-> value])
               /\ truth' = Landed(truth, machine.bus.model, access.at, value)
  BY ZenonT(30) DEF GuestStores
<1> DEFINE value == IF access.value # <<>> THEN access.value
                    ELSE [i \in 1 .. access.width |-> (16 * steps + i) % 256]
           store == [at |-> access.at, width |-> access.width, value |-> value]
<1>2. /\ access.width \in {1, 2, 4} /\ Storable(access.at, access.width)
      /\ access.value \in Seq(ByteValue) /\ Len(access.value) \in {0, access.width}
  <2>1. PICK setup \in Setups : machine.bus.model = setup.model  BY DEF IInv, SetUp
  <2> QED  BY <1>1, <2>1, GuestBusAssumption
<1>3. Len(value) = access.width
  <2>1. CASE access.value # <<>>
    <3>1. Len(access.value) # 0  BY <1>2, <2>1, EmptySeq
    <3> QED  BY <1>2, <2>1, <3>1
  <2>2. CASE access.value = <<>>
    <3>1. value = [i \in 1 .. access.width |-> (16 * steps + i) % 256]  BY <2>2
    <3>2. access.width \in Nat  BY <1>2
    <3> QED  BY <3>1, <3>2
  <2> QED  BY <2>1, <2>2, ZenonT(30)
<1>4. store.at = access.at /\ store.value = value  OBVIOUS
<1>5. machine' = Executed(machine, store) /\ truth' = Landed(truth, machine.bus.model, access.at, value)
  BY <1>1
<1>6. stale' = stale /\ plan' = plan  BY DEF GuestStores, Counted
<1> HIDE DEF value, store
<1>7. access.at \in Nat  BY <1>2, StorableAt, ZenonT(30)
<1>8. Ready(machine) /\ Agrees(machine.bus, truth) /\ Truthful(machine, truth.adkcon, stale)
  BY DEF IInv
<1>9. /\ Quiet(machine, machine') /\ machine'.bus.model = machine.bus.model
      /\ Agrees(machine'.bus, truth')
  <2>1. /\ store.at \in Nat /\ Len(store.value) \in {1, 2, 4}
        /\ Storable(store.at, Len(store.value))
    BY <1>2, <1>3, <1>4, <1>7, ZenonT(30)
  <2> QED  BY <1>4, <1>5, <1>8, <2>1, StoreRuns, ZenonT(30)
<1>10. truth'.adkcon = truth.adkcon  BY <1>5, <1>7, <1>8, LandedAdkcon
<1>11. Good(machine, machine', truth', stale')  BY <1>6, <1>8, <1>9, <1>10, QuietGood
<1> QED  BY <1>6, <1>11, GoodStep

\* The guest reads.
LEMMA ReadStep ==
  ASSUME IInv, GuestReads
  PROVE  IInv'
<1>1. PICK at \in Nat : machine' = Executed(machine, [at |-> at, width |-> 1, value |-> <<>>])
  BY SMT DEF GuestReads
<1>2. stale' = stale /\ plan' = plan /\ truth' = truth  BY DEF GuestReads, Counted
<1>3. Ready(machine) /\ Agrees(machine.bus, truth) /\ Truthful(machine, truth.adkcon, stale)
  BY DEF IInv
<1>4. Good(machine, machine', truth', stale')  BY <1>1, <1>2, <1>3, ReadRuns, QuietGood
<1> QED  BY <1>2, <1>4, GoodStep

LEMMA WithBaseAdkcon ==
  ASSUME NEW b, NEW known, Agrees(b, known), NEW base
  PROVE  /\ WithBase(known, base).adkcon = known.adkcon
         /\ [known EXCEPT !.unplaced = FALSE].adkcon = known.adkcon
BY DEF Agrees, IsKnown, WithBase, KnownField

\* The guest places the board.
LEMMA PlaceStep ==
  ASSUME IInv, GuestPlacesBoard
  PROVE  IInv'
<1>1. PICK base \in Bases : PutsBoardAt(base)  BY DEF GuestPlacesBoard
<1>2. PICK page : page = base \div \h10000  OBVIOUS
<1>3. /\ \/ machine' = Executed(Executed(machine, Store1(\hE8004A, 16 * (page % 16))),
                                Store1(\hE80048, 16 * (page \div 16)))
         \/ machine' = Executed(machine, Store1(\hE80048, page))
         \/ machine' = Executed(machine, [at |-> \hE80048, width |-> 2, value |-> <<page, 0>>])
      /\ truth' = WithBase(truth, base)
  BY <1>1, <1>2, SMT DEF PutsBoardAt, WithBase
<1>4. stale' = stale /\ plan' = plan /\ truth.unplaced  BY DEF GuestPlacesBoard, Counted
<1>5. Ready(machine) /\ Agrees(machine.bus, truth) /\ Truthful(machine, truth.adkcon, stale)
  BY DEF IInv
<1>6. /\ Quiet(machine, machine') /\ machine'.bus.model = machine.bus.model
      /\ Agrees(machine'.bus, WithBase(truth, base))
  <2>1. CASE machine' = Executed(Executed(machine, Store1(\hE8004A, 16 * (page % 16))),
                                 Store1(\hE80048, 16 * (page \div 16)))
    BY <1>2, <1>4, <1>5, <2>1, PlacedByTwo, SMT
  <2>2. CASE machine' = Executed(machine, Store1(\hE80048, page))
    BY <1>2, <1>4, <1>5, <2>2, PlacedByOne, SMT
  <2>3. CASE machine' = Executed(machine, [at |-> \hE80048, width |-> 2, value |-> <<page, 0>>])
    BY <1>2, <1>4, <1>5, <2>3, PlacedByWord, SMT
  <2> QED  BY <1>3, <2>1, <2>2, <2>3, SMT
<1>7. truth' = WithBase(truth, base)  BY <1>3, SMT
<1>8. truth'.adkcon = truth.adkcon  BY <1>5, <1>7, WithBaseAdkcon
<1>9. Good(machine, machine', truth', stale')  BY <1>4, <1>5, <1>6, <1>7, <1>8, QuietGood
<1> QED  BY <1>4, <1>9, GoodStep

\* The guest shuts the board up.
LEMMA SilenceStep ==
  ASSUME IInv, GuestSilencesBoard
  PROVE  IInv'
<1>1. machine' = Executed(machine, Store1(\hE8004C, 0)) /\ truth.unplaced
  BY SMT DEF GuestSilencesBoard
<1>2. truth' = [truth EXCEPT !.unplaced = FALSE] /\ stale' = stale /\ plan' = plan
  BY DEF GuestSilencesBoard, Counted
<1>3. Ready(machine) /\ Agrees(machine.bus, truth) /\ Truthful(machine, truth.adkcon, stale)
  BY DEF IInv
<1>4. /\ Quiet(machine, machine') /\ machine'.bus.model = machine.bus.model
      /\ Agrees(machine'.bus, truth')
  <2>1. truth.unplaced  BY <1>1, SMT
  <2> QED  BY <1>1, <1>2, <1>3, <2>1, SilentRuns, SMT
<1>5. truth'.adkcon = truth.adkcon  BY <1>2, <1>3, WithBaseAdkcon
<1>6. Good(machine, machine', truth', stale')  BY <1>2, <1>3, <1>4, <1>5, QuietGood, ZenonT(30)
<1> QED  BY <1>2, <1>6, GoodStep

\* The guest writes a register as a word.
LEMMA RegisterStep ==
  ASSUME IInv, GuestWritesRegister
  PROVE  IInv'
<1>1. PICK write \in RegisterWrites :
        LET register == write[1]
            word     == write[2]
        IN
        /\ machine' = Executed(machine, [at |-> \hDFF000 + register, width |-> 2, value |-> word])
        /\ AfterRegisterWrite(register, word)
        /\ stale' = IF register \in SpritePointers THEN stale \cup {DMACONR} ELSE stale
  BY SMT DEF GuestWritesRegister
<1>2. PICK r \in Written, word \in WordValue : r = write[1] /\ word = write[2]
  <2>1. write \in Written \X WordValue  BY GuestBusAssumption
  <2>2. write[1] \in Written /\ write[2] \in WordValue  BY <2>1
  <2> QED  BY <2>2
<1>3. PICK access : access = [at |-> RegisterWord(r), width |-> 2, value |-> word]  BY ZenonT(30)
<1>4. machine' = Executed(machine, access)  BY <1>1, <1>2, <1>3, SMT DEF RegisterWord
<1>5. truth' = AdkconAfter(truth, r, word)  BY <1>1, <1>2 DEF AfterRegisterWrite, AdkconAfter
<1>6. stale' = StaleByWord(stale, r)  BY <1>1, <1>2 DEF StaleByWord
<1>7. plan' = plan  BY DEF GuestWritesRegister, Counted
<1>8. Ready(machine) /\ Agrees(machine.bus, truth) /\ Truthful(machine, truth.adkcon, stale)
  BY DEF IInv
<1>9. Good(machine, machine', truth', stale')
  BY <1>3, <1>4, <1>5, <1>6, <1>8, WordWritten DEF Good
<1> QED  BY <1>7, <1>9, GoodStep

\* The guest writes a register as two bytes.
LEMMA BytesStep ==
  ASSUME IInv, GuestWritesRegisterByBytes
  PROVE  IInv'
<1>1. PICK write \in RegisterWrites :
        LET register == write[1]
            word     == write[2]
        IN
        /\ machine' = Executed(Executed(machine, Store1(\hDFF000 + register, word[1])),
                               Store1(\hDFF001 + register, word[2]))
        /\ AfterRegisterWrite(register, word)
        /\ stale' = CASE register \in SpritePointers \cup {DMACON} -> stale \cup {DMACONR}
                      [] register = ADKCON -> stale \cup {ADKCONR}
                      [] OTHER -> stale
  BY SMT DEF GuestWritesRegisterByBytes
<1>2. PICK r \in Written, word \in WordValue : r = write[1] /\ word = write[2]
  <2>1. write \in Written \X WordValue  BY GuestBusAssumption
  <2>2. write[1] \in Written /\ write[2] \in WordValue  BY <2>1
  <2> QED  BY <2>2
<1>3. machine' = Executed(Executed(machine, Store1(RegisterWord(r), word[1])),
                          Store1(RegisterLow(r), word[2]))
  BY <1>1, <1>2, SMT DEF RegisterWord, RegisterLow
<1>4. truth' = AdkconAfter(truth, r, word)  BY <1>1, <1>2 DEF AfterRegisterWrite, AdkconAfter
<1>5. stale' = StaleByBytes(stale, r)  BY <1>1, <1>2 DEF StaleByBytes
<1>6. plan' = plan  BY DEF GuestWritesRegisterByBytes, Counted
<1>7. Ready(machine) /\ Agrees(machine.bus, truth) /\ Truthful(machine, truth.adkcon, stale)
  BY DEF IInv
<1>8. Good(machine, machine', truth', stale')
  BY <1>3, <1>4, <1>5, <1>7, BytesWritten DEF Good
<1> QED  BY <1>6, <1>8, GoodStep

\* The drive requests its interrupt.
LEMMA DriveStep ==
  ASSUME IInv, DriveRequests
  PROVE  IInv'
<1>1. Ready(machine) /\ Agrees(machine.bus, truth) /\ Truthful(machine, truth.adkcon, stale)
  BY DEF IInv
<1>2. IsMachine(machine) /\ IsBus(machine.bus)  BY <1>1 DEF Ready, IsMachine
<1>3. PICK b : b = [machine.bus EXCEPT !.ide.pendingIrq = TRUE]  BY ZenonT(30)
<1>4. IsBus(b) /\ Same(machine.bus, b) /\ b.model = machine.bus.model
  BY <1>2, <1>3, ZenonT(30) DEF IsBus, BusField, Same, SameMemory, SameRegisters
<1>5. machine' = [machine EXCEPT !.bus = b]  BY <1>2, <1>3 DEF DriveRequests
<1>6. /\ IsMachine(machine') /\ machine'.bus = b /\ machine'.dmacon = machine.dmacon
      /\ machine'.intena = machine.intena /\ machine'.intreq = machine.intreq
  BY <1>2, <1>4, <1>5 DEF IsMachine, MachineField
<1>7. stale' = stale /\ plan' = plan /\ truth' = truth  BY DEF DriveRequests, Counted
<1>8. \A q : Shadow(machine'.bus, q) = Shadow(machine.bus, q)
  BY <1>4, <1>6 DEF Shadow, Same, SameRegisters
<1>9. Ready(machine')  BY <1>1, <1>4, <1>6 DEF Ready, Ranged, Same, SameRegisters
<1>10. Truthful(machine', truth.adkcon, stale)  BY <1>1, <1>6, <1>8 DEF Truthful, Shown
<1>11. Agrees(machine'.bus, truth)  BY <1>1, <1>4, <1>6, AgreesSame DEF Same
<1>12. Good(machine, machine', truth', stale')
  BY <1>4, <1>6, <1>7, <1>9, <1>10, <1>11 DEF Good
<1> QED  BY <1>7, <1>12, GoodStep

\* The guest uses Gayle.
LEMMA GayleStep ==
  ASSUME IInv, GuestUsesGayle
  PROVE  IInv'
<1>1. PICK store \in {Store1(\hDAA000, 128), Store1(\hDAA000, 0), Store1(\hDA9000, 1),
                      Store1(\hDA3018, 2), Store1(\hDD1000, 0)} :
        machine' = Executed(machine, store)
  BY SMT DEF GuestUsesGayle
<1>2. PICK at \in Nat, byte \in Nat :
        Within(at, \hD80000, \hDF0000) /\ store = Store1(at, byte)
  <2>1. CASE store = Store1(\hDAA000, 128)  BY <2>1, SMT DEF Within
  <2>2. CASE store = Store1(\hDAA000, 0)  BY <2>2, SMT DEF Within
  <2>3. CASE store = Store1(\hDA9000, 1)  BY <2>3, SMT DEF Within
  <2>4. CASE store = Store1(\hDA3018, 2)  BY <2>4, SMT DEF Within
  <2>5. CASE store = Store1(\hDD1000, 0)  BY <2>5, SMT DEF Within
  <2> QED  BY <2>1, <2>2, <2>3, <2>4, <2>5, SMT
<1>3. stale' = stale /\ plan' = plan /\ truth' = truth  BY DEF GuestUsesGayle, Counted
<1>4. Ready(machine) /\ Agrees(machine.bus, truth) /\ Truthful(machine, truth.adkcon, stale)
  BY DEF IInv
<1>5. machine' = Executed(machine, Store1(at, byte))  BY <1>1, <1>2, SMT
<1>6. /\ Quiet(machine, machine') /\ machine'.bus.model = machine.bus.model
      /\ Agrees(machine'.bus, truth)
  BY <1>2, <1>4, <1>5, GayleRuns, SMT
<1>7. Good(machine, machine', truth', stale')  BY <1>3, <1>4, <1>6, QuietGood
<1> QED  BY <1>3, <1>7, GoodStep

\* A line ends, with the copper's writes.
LEMMA LineStep ==
  ASSUME IInv, EndLine
  PROVE  IInv'
<1>1. PICK copper \in (IF plan = "registers" THEN CopperWrites ELSE {<<>>}),
           raised \in (IF plan = "registers" THEN SUBSET Requests ELSE {{}}) :
        /\ machine' = LineEnded(machine, copper, raised)
        /\ stale' = (stale \ {DMACONR})
                      \cup {ADKCONR : i \in {j \in DOMAIN copper : copper[j].register = ADKCON}}
  BY DEF EndLine
<1>2. copper \in Seq(Move)
  <2>1. CASE plan = "registers"
    <3>1. copper \in CopperWrites  BY <1>1, <2>1
    <3>2. CopperWrites \subseteq Seq(Move)
      BY GuestBusAssumption
    <3> QED  BY <3>1, <3>2
  <2>2. CASE plan # "registers"
    <3>1. copper = <<>>  BY <1>1, <2>2
    <3> QED  BY <3>1
  <2> QED  BY <2>1, <2>2
<1>3. raised \subseteq 0 .. 14
  <2>1. CASE plan = "registers"  BY <1>1, <2>1, GuestBusAssumption
  <2>2. CASE plan # "registers"  BY <1>1, <2>2
  <2> QED  BY <2>1, <2>2
<1>4. plan' = plan /\ truth' = truth  BY DEF EndLine
<1>5. Ready(machine) /\ Agrees(machine.bus, truth) /\ Truthful(machine, truth.adkcon, stale)
  BY DEF IInv
<1>6. IsMachine(machine) /\ Ranged(machine) /\ Shown(machine) /\ machine.bus.log = <<>>
  BY <1>5 DEF Ready, Truthful
<1>7. Carried(machine, machine') /\ Shadow(machine'.bus, DMACONR) = Word(machine'.dmacon)
  BY <1>1, <1>2, <1>3, <1>6, LineEndedFacts, ZenonT(30)
<1>8. Ready(machine')  BY <1>6, <1>7 DEF Carried, Ready
<1>9. machine'.bus.model = machine.bus.model  BY <1>7 DEF Carried, SameMemory
<1>10. Agrees(machine'.bus, truth)  BY <1>5, <1>7, AgreesSame DEF Carried
<1>11. ADKCONR \in stale => ADKCONR \in stale'  BY <1>1, Registers
<1>12. Truthful(machine', truth.adkcon, stale')
  BY <1>5, <1>7, <1>11 DEF Truthful, Carried
<1>13. Good(machine, machine', truth', stale')  BY <1>4, <1>8, <1>9, <1>10, <1>12 DEF Good
<1> QED  BY <1>4, <1>13, GoodStep

\* A bus as AmigaMemory::new makes it holds nothing, and shows no bit.
IsNew(b, model, present) ==
  /\ IsBus(b) /\ b.model = model /\ b.log = <<>> /\ b.overlay = TRUE
  /\ b.ram = <<>> /\ b.board = NewBoard(present)
  /\ \A r \in 0 .. 15 : b.ciaA[r] = 0 /\ b.ciaB[r] = 0
  /\ b.custom = Put(<<>>, BEAMCON0, <<0, 32>>)

\* What AmigaMemory::new makes.
LEMMA NewBusIs ==
  ASSUME NEW model, NEW present \in BOOLEAN, NEW b, b = NewBus(model, present)
  PROVE  IsNew(b, model, present)
<1>1. IsChip([r \in 0 .. 15 |-> 0])  BY DEF IsChip
<1>2. IsBoard(NewBoard(present))  BY DEF IsBoard, NewBoard, BoardField
<1>3. /\ b.model = model /\ b.log = <<>> /\ b.ram = <<>> /\ b.board = NewBoard(present)
      /\ b.ciaA = [r \in 0 .. 15 |-> 0] /\ b.ciaB = [r \in 0 .. 15 |-> 0]
      /\ b.custom = Put(<<>>, BEAMCON0, <<0, 32>>)
  BY DEF NewBus
<1>4. b.overlay = TRUE  BY DEF NewBus
<1>5. b = [f \in BusField |-> b[f]]  BY DEF NewBus, BusField
<1> QED  BY <1>1, <1>2, <1>3, <1>4, <1>5 DEF IsBus, IsNew

\* The shadows of a new machine are empty.
LEMMA NewShadows ==
  ASSUME NEW model, NEW present \in BOOLEAN, NEW b, b = NewBus(model, present)
  PROVE  /\ Shadow(b, INTREQR) = Word({}) /\ Shadow(b, INTENAR) = Word({})
         /\ Shadow(b, ADKCONR) = Word({})
<1>1. b.custom = Put(<<>>, BEAMCON0, <<0, 32>>)
  <2>1. IsNew(b, model, present)  BY NewBusIs
  <2> QED  BY <2>1 DEF IsNew
<1>2. DOMAIN b.custom = {BEAMCON0}
  <2>1. DOMAIN b.custom = DOMAIN <<>> \cup {BEAMCON0}  BY <1>1 DEF Put
  <2>2. DOMAIN <<>> = {}  OBVIOUS
  <2> QED  BY <2>1, <2>2
<1>3. INTREQR # BEAMCON0 /\ INTENAR # BEAMCON0 /\ ADKCONR # BEAMCON0
  BY SMT DEF INTREQR, INTENAR, ADKCONR, BEAMCON0
<1>4. Word({}) = <<0, 0>>
  <2>1. ByteOf({}) = 0  BY SMT DEF ByteOf
  <2>2. {b_ \in 0 .. 7 : b_ + 8 \in {}} = {}  OBVIOUS
  <2> QED  BY <2>1, <2>2 DEF Word
<1> QED  BY <1>2, <1>3, <1>4 DEF Shadow

\* What the guest knows of a machine it has not touched.
Fresh(present) ==
  [cells |-> <<>>, overlay |-> TRUE, unplaced |-> present, boardAt |-> {}, adkcon |-> {}]

\* A new machine agrees with an empty history.
LEMMA FreshAgrees ==
  ASSUME NEW model \in Model, NEW present \in BOOLEAN, NEW b, b = NewBus(model, present),
         NEW known, known = Fresh(present)
  PROVE  Agrees(b, known) /\ known.adkcon = {}
<1>1. /\ IsBus(b) /\ b.model = model /\ b.overlay = TRUE
      /\ b.ram = <<>> /\ b.board = NewBoard(present)
      /\ \A r \in 0 .. 15 : b.ciaA[r] = 0 /\ b.ciaB[r] = 0
  <2>1. IsNew(b, model, present)  BY NewBusIs
  <2> QED  BY <2>1 DEF IsNew
<1>2. IsKnown(known)  BY ZenonT(30) DEF IsKnown, Fresh, KnownField
<1>3. /\ known.cells = <<>> /\ known.boardAt = {} /\ known.adkcon = {}  BY DEF Fresh
<1>4. known.overlay = TRUE  BY DEF Fresh
<1>5. known.unplaced = present  BY DEF Fresh
<1>6. \A p : Kept(known, p) = 0
  <2>1. DOMAIN <<>> = {}  OBVIOUS
  <2> QED  BY <1>3, <2>1 DEF Kept
<1>7. \A p : Stored(b, p) = 0
  <2>1. DOMAIN <<>> = {}  OBVIOUS
  <2> QED  BY <1>1, <2>1 DEF Stored
<1>8. Holds(b, known)  BY <1>1, <1>6, <1>7, ZenonT(30) DEF Holds
<1>9. Placed(b, known)
  <2>1. b.board.mapLo = 0  BY <1>1 DEF NewBoard
  <2>2. ~b.board.configured /\ ~b.board.shutUp  BY <1>1 DEF NewBoard
  <2>3. b.board.enabled = present  BY <1>1 DEF NewBoard
  <2> QED  BY <1>3, <1>5, <2>1, <2>2, <2>3 DEF Placed, AutoconfigActive
<1> QED  BY <1>1, <1>2, <1>3, <1>4, <1>8, <1>9, ZenonT(30) DEF Agrees

NewMachine(b) == [bus |-> b, dmacon |-> {}, intena |-> {}, intreq |-> {}]

\* A machine that was just built agrees with a history in which nothing happened yet.
THEOREM InitIInv == Init => IInv
<1> SUFFICES ASSUME Init  PROVE IInv  OBVIOUS
<1>1. PICK setup \in Setups :
        /\ plan = setup.plan
        /\ machine = LineEnded([bus |-> NewBus(setup.model, setup.board),
                                dmacon |-> {}, intena |-> {}, intreq |-> {}], <<>>, {})
        /\ truth = [cells |-> <<>>, overlay |-> TRUE, unplaced |-> setup.board,
                    boardAt |-> {}, adkcon |-> {}]
  BY ZenonT(30) DEF Init
<1>2. setup.model \in Model /\ setup.board \in BOOLEAN  BY GuestBusAssumption
<1>3. PICK b : b = NewBus(setup.model, setup.board)  OBVIOUS
<1>4. PICK m : m = NewMachine(b)  OBVIOUS
<1>5. machine = LineEnded(m, <<>>, {}) /\ truth = Fresh(setup.board)
  BY <1>1, <1>3, <1>4 DEF NewMachine, Fresh
<1>6. m.bus = b /\ m.dmacon = {} /\ m.intena = {} /\ m.intreq = {}  BY <1>4 DEF NewMachine
<1>7. IsBus(b) /\ b.log = <<>> /\ b.model = setup.model  
  <2>1. IsNew(b, setup.model, setup.board)  BY <1>2, <1>3, NewBusIs
  <2> QED  BY <2>1 DEF IsNew
<1>8. IsMachine(m)  BY <1>4, <1>6, <1>7, ZenonT(30) DEF IsMachine, NewMachine, MachineField
<1>9. Ranged(m) /\ Shown(m)  BY <1>2, <1>3, <1>6, NewShadows DEF Ranged, Shown
<1>10. Agrees(b, truth) /\ truth.adkcon = {}  BY <1>2, <1>3, <1>5, FreshAgrees
<1>11. <<>> \in Seq(Move)  OBVIOUS
<1>12. Carried(m, machine) /\ Shadow(machine.bus, DMACONR) = Word(machine.dmacon)
  BY <1>5, <1>8, <1>9, <1>11, LineEndedFacts, ZenonT(30)
<1>13. Ready(machine)  BY <1>6, <1>7, <1>12 DEF Ready, Carried
<1>14. Agrees(machine.bus, truth)  BY <1>6, <1>10, <1>12, AgreesSame DEF Carried
<1>15. Shadow(machine.bus, ADKCONR) = Word(truth.adkcon)
  BY <1>2, <1>3, <1>6, <1>10, <1>12, NewShadows DEF Carried
<1>16. Truthful(machine, truth.adkcon, stale)
  BY <1>10, <1>12, <1>15 DEF Truthful, Carried
<1>17. SetUp(machine.bus, plan)
  <2>1. machine.bus.model = setup.model  BY <1>6, <1>7, <1>12 DEF Carried, SameMemory
  <2> QED  BY <1>1, <2>1 DEF SetUp
<1> QED  BY <1>13, <1>14, <1>16, <1>17 DEF IInv

\* Every instruction of the guest, request of a device and end of a line keeps the
\* agreement.
THEOREM NextIInv == IInv /\ [Next]_vars => IInv'
<1> SUFFICES ASSUME IInv, [Next]_vars  PROVE IInv'  OBVIOUS
<1>1. CASE GuestStores  BY <1>1, StoreStep
<1>2. CASE GuestReads  BY <1>2, ReadStep
<1>3. CASE GuestPlacesBoard  BY <1>3, PlaceStep
<1>4. CASE GuestSilencesBoard  BY <1>4, SilenceStep
<1>5. CASE GuestWritesRegister  BY <1>5, RegisterStep
<1>6. CASE GuestWritesRegisterByBytes  BY <1>6, BytesStep
<1>7. CASE DriveRequests  BY <1>7, DriveStep
<1>8. CASE GuestUsesGayle  BY <1>8, GayleStep
<1>9. CASE EndLine  BY <1>9, LineStep
<1>10. CASE UNCHANGED vars  BY <1>10 DEF vars, IInv, SetUp
<1> QED  BY <1>1, <1>2, <1>3, <1>4, <1>5, <1>6, <1>7, <1>8, <1>9, <1>10 DEF Next

\* Between two instructions memory and registers are as the history has them.
THEOREM Invariance == Spec => []IInv
BY InitIInv, NextIInv, PTL DEF Spec

\* The shadows a guest reads are the registers the chipset uses, but for the two
\* the loop is known to leave behind.
THEOREM RegistersAreTruthful == Spec => []RegistersTruthful
<1>1. IInv => RegistersTruthful  BY DEF IInv, Truthful, Shown, RegistersTruthful
<1> QED  BY <1>1, Invariance, PTL

\* Every read, of any width and at any address the map gives a cell to, finds what
\* the table of the machine's memory has there.
THEOREM ReadsAreTrue == Spec => []ReadsTrue
<1>1. ASSUME IInv  PROVE ReadsTrue
  <2> SUFFICES ASSUME NEW a \in Probes(plan, machine.bus.model),
                      NEW width \in Widths(machine.bus.model, a)
               PROVE  Read(machine.bus, a, width).value
                        = [i \in 1 .. width |-> Expected(truth, machine.bus.model, a + i - 1)]
    BY DEF ReadsTrue
  <2>1. PICK setup \in Setups : plan = setup.plan /\ machine.bus.model = setup.model
    BY <1>1 DEF IInv, SetUp
  <2>2. a \in Nat /\ Readable(a, width)
    <3>1. a \in Probes(setup.plan, setup.model) /\ width \in Widths(setup.model, a)
      BY <2>1
    <3>2. Comparable(setup.model, a)  BY <3>1, ProbesAssumption
    <3> QED  BY <3>1, <3>2 DEF Comparable
  <2>3. width \in {1, 2, 4}  BY SMT DEF Widths
  <2>4. Agrees(machine.bus, truth)  BY <1>1 DEF IInv
  <2>5. Read(machine.bus, a, width).value = Row(truth, machine.bus.model, a, width)
    BY <2>2, <2>3, <2>4, ReadIs
  <2> QED  BY <2>5 DEF Row
<1> QED  BY <1>1, Invariance, PTL
=============================================================================
