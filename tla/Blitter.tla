------------------------------ MODULE Blitter ------------------------------
(***************************************************************************)
(* The blitter (crates/rumiga-core/src/blitter.rs).  The code runs a whole *)
(* blit inside the register write that starts it, so the module is a set   *)
(* of operators: a blitter and a chip RAM before a blit give both after.   *)
(*                                                                         *)
(* A word is the set of the bits that are 1, its leftmost pixel being bit  *)
(* WordBits - 1.  Pointers and modulos count bytes, two to a word, and     *)
(* wrap at 2^16: chip RAM is smaller, and its size divides that.  They are *)
(* even.  BLTCON1 is the set of its set bits, the shift in its top         *)
(* bits apart; one bit means different things to an area and to a line.    *)
(***************************************************************************)
EXTENDS Integers

CONSTANTS WordBits,   \* pixels in a word of chip RAM: 16 in the machine
          RamWords    \* words of chip RAM

Bits == 0 .. WordBits - 1
Channels == {"A", "B", "C", "D"}

\* Bits of BLTCON1: of an area, then of a line.
LINE == 0
DESC == 1
FCI == 2
IFE == 3
EFE == 4
SING == 1
AUL == 2
SUL == 3
SUD == 4
SIGN == 6

Wrap(p) == p % 65536

(* read_word and write_word: addresses wrap at the size of chip RAM. *)
Cell(p) == (p % (2 * RamWords)) \div 2

(* BlitterState::new: every register is clear but the two masks. *)
PowerOn == [con1 |-> {}, use |-> {}, minterm |-> {}, ash |-> 0, bsh |-> 0,
            afwm |-> Bits, alwm |-> Bits,
            pt |-> [k \in Channels |-> 0], mod |-> [k \in Channels |-> 0],
            adat |-> {}, bdat |-> {}, cdat |-> {}, bold |-> {}, bhold |-> {},
            vsize |-> 0, hsize |-> 0]

(* shift_dma_pair: the window of a word's width, n pixels into the pair of *)
(* the word and the one the channel handled before it.                     *)
ShiftPair(value, previous, n, desc) ==
  IF desc THEN {b \in Bits : IF b < n THEN b + WordBits - n \in previous
                                      ELSE b - n \in value}
          ELSE {b \in Bits : IF b + n < WordBits THEN b + n \in value
                                                 ELSE b + n - WordBits \in previous}

(* apply_minterm: each bit of the minterm selects one combination of the   *)
(* three sources, numbered 4a + 2b + c.                                    *)
Minterm(a, b, c, minterm) ==
  LET row(x) == (IF x \in a THEN 4 ELSE 0) + (IF x \in b THEN 2 ELSE 0)
                                           + (IF x \in c THEN 1 ELSE 0)
  IN  {x \in Bits : row(x) \in minterm}

-----------------------------------------------------------------------------
(* Registers *)

(* start_blit: the pipeline of channel B is emptied. *)
Started(b) == [b EXCEPT !.bold = {}]

(* BLTSIZE: a height of zero means 1024 rows, a width of zero 64 words. *)
LegacySize(b, height, width) ==
  Started([b EXCEPT !.vsize = IF height = 0 THEN 1024 ELSE height,
                    !.hsize = IF width = 0 THEN 64 ELSE width])

(* BLTSIZV only sets the height, BLTSIZH sets the width and starts. *)
VerticalSize(b, height) == [b EXCEPT !.vsize = IF height = 0 THEN 32768 ELSE height]

HorizontalSize(b, width) ==
  Started([b EXCEPT !.vsize = IF @ = 0 THEN 32768 ELSE @,
                    !.hsize = IF width = 0 THEN 2048 ELSE width])

(* load_bdat: a write of BLTBDAT goes through the shifter at once. *)
LoadB(b, value) ==
  [b EXCEPT !.bdat = value, !.bold = value,
            !.bhold = ShiftPair(value, b.bold, b.bsh, DESC \in b.con1)]

-----------------------------------------------------------------------------
(* Area blits *)

(* The fill of one word, from its right to its left. *)
Fill(word, carry, inclusive) ==
  LET run[n \in 0 .. WordBits] ==
        IF n = 0 THEN [out |-> {}, carry |-> carry]
        ELSE LET s    == run[n - 1]
                 edge == n - 1 \in word
                 lit  == IF edge THEN inclusive \/ ~s.carry ELSE s.carry
             IN  [out |-> s.out \cup (IF lit THEN {n - 1} ELSE {}),
                  carry |-> s.carry # edge]
  IN  run[WordBits]

(* Mutant: the last word mask is an ELSE of the first, so a blit one word  *)
(* wide never applies it.                                                  *)
WrongMasked(b, column, word) ==
  word \cap (IF column = 0 THEN b.afwm ELSE IF column = b.hsize - 1 THEN b.alwm ELSE Bits)

(* What the first and the last word mask leave of channel A in a column. *)
Masked(b, column, word) ==
  word \cap (IF column = 0 THEN b.afwm ELSE Bits)
       \cap (IF column = b.hsize - 1 THEN b.alwm ELSE Bits)

(* The result that is still in the pipeline goes to memory. *)
Drained(ram, late) == IF late = <<>> THEN ram
                                     ELSE [ram EXCEPT ![Cell(late[1])] = late[2]]

Advanced(b, distance) ==
  [b.pt EXCEPT !["A"] = IF "A" \in b.use THEN Wrap(@ + distance["A"]) ELSE @,
               !["B"] = IF "B" \in b.use THEN Wrap(@ + distance["B"]) ELSE @,
               !["C"] = IF "C" \in b.use THEN Wrap(@ + distance["C"]) ELSE @,
               !["D"] = IF "D" \in b.use THEN Wrap(@ + distance["D"]) ELSE @]

(* One turn of the inner loops of execute_area_nofill and                  *)
(* execute_area_fill, and the step to the next row after the last column.  *)
(* A result reaches memory one turn late, after the next word's sources    *)
(* have been read.                                                         *)
AreaWord(s, column) ==
  LET b      == s.blitter
      desc   == DESC \in b.con1
      sign   == IF desc THEN -1 ELSE 1
      fill   == b.con1 \cap {EFE, IFE} # {}
      adat   == IF "A" \in b.use THEN s.ram[Cell(b.pt["A"])] ELSE b.adat
      bword  == s.ram[Cell(b.pt["B"])]
      hold   == IF "B" \in b.use THEN ShiftPair(bword, s.bPrev, b.bsh, desc) ELSE s.hold
      cdat   == IF "C" \in b.use THEN s.ram[Cell(b.pt["C"])] ELSE b.cdat
      masked == Masked(b, column, adat)
      logic  == Minterm(ShiftPair(masked, s.aPrev, b.ash, desc), hold, cdat, b.minterm)
      filled == Fill(logic, IF column = 0 THEN FCI \in b.con1 ELSE s.carry, IFE \in b.con1)
      last   == column = b.hsize - 1
      step   == [k \in Channels |-> sign * (2 + (IF last THEN b.mod[k] ELSE 0))]
      bold   == IF "B" \in b.use THEN bword ELSE b.bold
      bdat   == IF "C" \in b.use /\ desc THEN cdat
                ELSE IF "B" \in b.use THEN bword ELSE b.bdat
  IN  [blitter |-> [b EXCEPT !.adat = adat, !.bold = bold, !.bdat = bdat, !.cdat = cdat,
                             !.pt = Advanced(b, step)],
       ram   |-> Drained(s.ram, s.late),
       late  |-> IF "D" \in b.use THEN <<b.pt["D"], IF fill THEN filled.out ELSE logic>>
                                  ELSE <<>>,
       aPrev |-> masked,
       bPrev |-> IF "B" \in b.use THEN bword ELSE s.bPrev,
       hold  |-> hold,
       carry |-> filled.carry]

(* execute_area: all the words of all the rows, then the last result. *)
Area(blitter, ram) ==
  LET run[n \in 0 .. blitter.vsize * blitter.hsize] ==
        IF n = 0
        THEN [blitter |-> blitter, ram |-> ram, late |-> <<>>, aPrev |-> {}, bPrev |-> {},
              hold |-> blitter.bhold, carry |-> FALSE]
        ELSE AreaWord(run[n - 1], (n - 1) % blitter.hsize)
      done == run[blitter.vsize * blitter.hsize]
  IN  [blitter |-> [done.blitter EXCEPT !.bhold = done.hold],
       ram     |-> Drained(done.ram, done.late)]

-----------------------------------------------------------------------------
(* Lines *)

(* line_incx, line_decx, line_incy, line_decy: a step of one pixel. *)
Right(b) == [b EXCEPT !.ash = (@ + 1) % WordBits,
                      !.pt["C"] = IF b.ash = WordBits - 1 THEN Wrap(@ + 2) ELSE @]
Left(b)  == [b EXCEPT !.ash = (@ - 1) % WordBits,
                      !.pt["C"] = IF b.ash = 0 THEN Wrap(@ - 2) ELSE @]
Down(b)  == [b EXCEPT !.pt["C"] = Wrap(@ + b.mod["C"])]
Up(b)    == [b EXCEPT !.pt["C"] = Wrap(@ - b.mod["C"])]

(* The step along the line's minor direction, taken only when the          *)
(* accumulator was not negative, and the one along its major direction.    *)
MinorStep(b) ==
  IF SIGN \in b.con1 THEN b
  ELSE IF SUD \in b.con1 THEN (IF SUL \in b.con1 THEN Up(b) ELSE Down(b))
                         ELSE (IF SUL \in b.con1 THEN Left(b) ELSE Right(b))
MajorStep(b) ==
  IF SUD \in b.con1 THEN (IF AUL \in b.con1 THEN Left(b) ELSE Right(b))
                    ELSE (IF AUL \in b.con1 THEN Up(b) ELSE Down(b))

(* Mutant: a step along a steep line is not counted as a change of row. *)
WrongChangesRow(b) == SIGN \notin b.con1

(* A whole turn changes row unless it is a major step along the row alone. *)
ChangesRow(b) == SUD \notin b.con1 \/ SIGN \notin b.con1

(* One pixel of execute_line: the word at BLTCPT with the pixel that       *)
(* BLTADAT, the masks and the texture make, written where BLTDPT points    *)
(* for the first and back to BLTCPT for the others.                        *)
LinePixel(s, first) ==
  LET b       == s.blitter
      draws   == "C" \in b.use /\ (SING \notin b.con1 \/ ~s.dotted)
      a       == ShiftPair(b.adat \cap b.afwm, {}, b.ash, FALSE)
      texture == IF b.bsh \in b.bdat THEN Bits ELSE {}
      result  == Minterm(a, texture, s.ram[Cell(b.pt["C"])], b.minterm)
      target  == IF first THEN b.pt["D"] ELSE b.pt["C"]
      error   == IF "A" \notin b.use THEN b.pt["A"]
                 ELSE Wrap(b.pt["A"] + (IF SIGN \in b.con1 THEN b.mod["B"] ELSE b.mod["A"]))
      moved   == MajorStep(MinorStep(b))
  IN  [ram     |-> IF draws THEN [s.ram EXCEPT ![Cell(target)] = result] ELSE s.ram,
       dotted  |-> ~ChangesRow(b),
       blitter |-> [moved EXCEPT !.pt["A"] = error, !.pt["D"] = moved.pt["C"],
                                 !.con1 = IF error >= 32768 THEN @ \cup {SIGN}
                                                            ELSE @ \ {SIGN},
                                 !.bsh = (@ - 1) % WordBits]]

(* execute_line: a blit narrower than two words draws nothing. *)
Line(blitter, ram) ==
  LET run[n \in 0 .. blitter.vsize] ==
        IF n = 0 THEN [blitter |-> blitter, ram |-> ram, dotted |-> FALSE]
                 ELSE LinePixel(run[n - 1], n = 1)
      done == run[blitter.vsize]
  IN  IF blitter.hsize < 2 THEN [blitter |-> blitter, ram |-> ram]
                           ELSE [blitter |-> done.blitter, ram |-> done.ram]

(* execute_blit *)
Blit(blitter, ram) == IF LINE \in blitter.con1 THEN Line(blitter, ram)
                                               ELSE Area(blitter, ram)
=============================================================================
